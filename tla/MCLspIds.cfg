\* One server for one document: what the server has of it.
INIT Init
NEXT Next
CONSTANTS
  d1 = d1
  d2 = d2
  Docs = {d1, d2}
  Closed = Closed
  Garbled = Garbled
  NoDoc = NoDoc
  NoTab = NoTab
  Nothing = Nothing
  Binaries = {"cpp", "py"}
  LanguageOf <- TwoServers
  AllCaps <- SomeCaps
  StartPresent = {"cpp", "py"}
  Asked = {"definition", "rename"}
  MaxKeys = 4
  MaxPosts = 0
  MaxCrashes = 0
INVARIANT AnswersMatch
CHECK_DEADLOCK FALSE
