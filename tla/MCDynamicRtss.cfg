SPECIFICATION FairRtssSpec
CONSTANTS
  UINT32_MAX = 300
  Invalid = Invalid
  game1 = game1
  game2 = game2
  object1 = object1
  object2 = object2
  Worker = worker
  NoThread = NoThread
  Cache = last_options
  GameThreads = {}
  Objects = {object1}
  Settings = {"off", "low_latency", "boost"}
  LowLatency = "low_latency"
  GameOptions <- MCGameOptions
  InitialRate <- MCInitialRate
  Faults = {"config", "rtss_name", "rtss_set", "rtss_save", "poll"}
  OffTexts = {72, Invalid}
  OnTexts = {144}
  LimiterTexts = {"rtss"}
INVARIANTS
  ProfileNeverTorn
  NoStaleOverwrite
  AppliedProfileHolds
PROPERTIES
  RtssLimitFollowsState
