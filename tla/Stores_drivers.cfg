SPECIFICATION Spec
CONSTANTS
  Lower <- MCLower
  None = None
  Ids = {"d1", "d2"}
  Principals <- MCPrincipals
  Callers <- MCCallers
  Batches <- MCBatches
  Descriptors <- MCDescriptors
  People <- MCPeople
  Times = {1, 2}
  Curations <- MCCurations
  OpenHistory = 1
  MaxPending = 1
  Requests <- MCRequests
  Servers = {"s1", "s2"}
  Attempts = 2
  LostAckOps = {"put", "own", "disown", "curate", "retract"}
  Searches <- MCRequests
  Builds <- MCBuilds
  Irreversible = {1}
  Drivers = {"mem", "sqlite", "pg"}
  Desks = {"docs", "verify", "own", "report", "answers", "feeds", "history", "stream", "schema"}
INVARIANTS TablesHold ReadsAgree SaidStands ChangesReach
PROPERTIES SqImplementsMem PgImplementsMem
CHECK_DEADLOCK FALSE
