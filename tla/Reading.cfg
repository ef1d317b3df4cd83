SPECIFICATION Spec
CONSTANTS
  None = None
  Parts = {"walks", "lifetimes", "recheck", "search", "audit", "tokens", "providers", "api"}
  Dirs <- MCDirs
  DirIds = {"ann"}
  DirGroups = {"g1", "g2", "g3", "g4"}
  DirFiles <- MCDirFiles
  MaxGroups = 3
  DirTTL = 2
  DirCap = 1
  DirCallers = {"c1", "c2"}
  MaxEdits = 1
  DirMaxTime = 2
  MaxForgets = 1
  RcPages = {"p1", "p2"}
  RcAsker <- MCRcAsker
  RcSources = {"drive", "mail"}
  RcItems <- MCRcItems
  RcTTL = 2
  RcTimeout = 1
  RcCap = 2
  RcMaxTime = 4
  RcMaxChanges = 1
  RcMaxPages = 2
  IxIds = {"d1"}
  IxAskers = {"ann", "bob"}
  IxReaders = {"r1", "r2"}
  IxNewDoc <- MCIxNewDoc
  IxResultTTL = 1
  IxShapeTTL = 1
  IxCap = 2
  IxMaxWrites = 1
  IxMaxRequests = 2
  IxMaxTime = 1
  AuHandlers = {1, 2, 3}
  AuQueueSize = 2
  AuBufSize = 3
  AuRetention = 1
  AuMaxTime = 3
  AuMaxFaults = 1
  AuMaxStarts = 2
  TkCallers = {"a", "b"}
  TkEarly = 3
  TkLives = {0, 3, 5}
  TkUnnamed = 4
  TkSlow = 1
  TkMaxTime = 7
  TkMaxFaults = 1
  PvGroups = {1, 2}
  PvPage = 1
  PvMaxPages = 3
  PvMaxChanges = 2
  PvMaxFaults = 1
  PvMaxWalks = 2
  ApRequests = {"q1", "q2"}
  ApPeople = {"ann", "bob"}
  ApIds = {"d1", "d2"}
  ApAdmins = {}
  ApRechecked = {"d1"}
  ApVersioned = {"d1"}
  ApPage = 1
  ApMaxChanges = 2
CHECK_DEADLOCK FALSE
INVARIANTS GroupsAreTrue RevocationsAreSeen ResultsArePermitted RecordsAreKept HandlersAnswerTrue
PROPERTIES VersionMoves RequestsEnd
