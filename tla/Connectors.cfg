SPECIFICATION Spec
CONSTANTS
  Parts = {"threads", "assembly", "slack", "jira", "confluence", "objects", "permissions", "checkpoints", "limits"}
  None = None
  Lower <- MCLower
  TsConts = 2
  TsConvs = {1, 2}
  TsHome <- MCTsHome
  TsOwn = {2}
  TsEvery = 2
  TsMaxTime = 3
  TsMaxEdits = 2
  TsMaxRewrites = 1
  TsMaxFails = 2
  ThMaxBody = 7
  ThTitleLimit = 6
  ThRune = 2
  ThSizes = {1, 8}
  ThWords <- MCThWords
  ThPeople = {1}
  ThMaxTime = 4
  SlPage = 1
  SlWindow = 3
  SlMaxTime = 5
  SlMaxWalks = 1
  JrMaxKeys = 3
  JrPage = 2
  JrCaps = {1, 3}
  JrInline = 1
  JrMinute = 2
  JrMaxTime = 4
  JrMaxWalks = 1
  JrMaxEdits = 1
  JrRole = {"cat"}
  JrLevels <- MCJrLevels
  JrSchemes <- MCJrSchemes
  CfParent <- MCCfParent
  CfGrants <- MCCfGrants
  CfLegacy = {2}
  CfInline = 1
  CfSize = 1
  CfMinute = 2
  CfMaxTime = 4
  CfMaxCrawls = 2
  CfMaxRestricts = 2
  CfMaxFaults = 1
  OsKeys = {1, 2, 3}
  OsWanted = {1, 3}
  OsPage = 1
  OsUnmapped = {1}
  OsMaxTime = 4
  OsMaxWrites = 3
  OsMaxLists = 2
  OsMaxFaults = 1
  AmGrants <- MCAmGrants
  AmMaxGrants = 3
  AmReadRoles = {"reader"}
  AmDomains = {"acme"}
  AmLink = FALSE
  AmReaders <- MCAmReaders
  CkChars = {"a", "t", "/", "-"}
  CkSources <- MCCkSources
  CkPlain = {"a", "t", "-"}
  CkMaxSaves = 2
  CkMaxCuts = 2
  LmCallers = {"a", "b"}
  LmBurst = 1
  LmMaxRetries = 2
  LmMinBackoff = 2
  LmMaxBackoff = 3
  LmBits = 3
  LmFailures = 2
  LmCooldown = 2
  LmNamed = {0, 4}
  LmSpent = {0, 2}
  LmMaxDebt = 2
CHECK_DEADLOCK FALSE
INVARIANTS CrawlsResume ConversationsAreWhole RulesAreTheSources LimitsHold
PROPERTIES ChangesAreSeen CallsEnd
