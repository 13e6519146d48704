\* One server for two documents, its binary missing at first.
SPECIFICATION Spec
CONSTANTS
  d1 = d1
  d2 = d2
  Docs = {d1, d2}
  Closed = Closed
  Garbled = Garbled
  NoDoc = NoDoc
  NoTab = NoTab
  Nothing = Nothing
  Binaries = {"cpp"}
  LanguageOf <- OneServer
  AllCaps <- SomeCaps
  StartPresent = {}
  Asked = {"completion", "definition", "rename", "formatting"}
  MaxKeys = 3
  MaxPosts = 1
  MaxCrashes = 1
INVARIANTS
  ClientKnowsServer
  AnswersMatch
  Mirror
 
PROPERTIES
  VersionsRise
  WaitingOpens
  CrashNoticed
CHECK_DEADLOCK FALSE
