SPECIFICATION PartsSpec
CONSTANTS
  Requests <- Three
  Leaving <- Three
  None = None
  Items = 4
  Workers = 2
  Polls = 3
  Procs = {p, q}
  Platforms = {us, eu}
  MaxPairs = 4
  Window = 4
  Interval = 2
  Latency = 2
  Width = 3
  Texts = {"a", "b"}
  MaxFixes = 3
  MaxTotal = 5
  PageSize = 2
  NoFile = NoFile
  NoText = NoText
  NoPage = NoPage
  Torn = Torn
CHECK_DEADLOCK FALSE
INVARIANTS
  CaptureIsComplete
  CredentialsAreSound
  LineIsSound
  EveryItemOnce
PROPERTIES
  RecordsTheTraffic
  PoolIsSound
  LoginIsSound
  WaitIsSound
  
