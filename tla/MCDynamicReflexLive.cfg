SPECIFICATION FairReflexSpec
CONSTANTS
  UINT32_MAX = 300
  Invalid = Invalid
  game1 = game1
  game2 = game2
  object1 = object1
  object2 = object2
  Worker = worker
  NoThread = NoThread
  Cache = last_options
  GameThreads = {game1}
  Objects = {object1}
  Settings = {"off", "low_latency", "boost"}
  LowLatency = "low_latency"
  GameOptions <- MCGameOptions
  InitialRate <- MCInitialRate
  Faults = {"init", "create", "enable", "game_set", "poll"}
  OffTexts = {72}
  OnTexts = {Invalid}
  LimiterTexts = {"reflx"}
PROPERTIES
  ReflexLimitFollowsState
