SPECIFICATION Spec
CONSTANTS
  UINT32_MAX = 300
  Invalid = Invalid
  game1 = game1
  game2 = game2
  object1 = object1
  object2 = object2
  Worker = worker
  NoThread = NoThread
  Cache = last_options
  GameThreads = {game1}
  Objects = {object1}
  Settings = {"off", "low_latency", "boost"}
  LowLatency = "low_latency"
  GameOptions <- MCGameOptions
  InitialRate <- MCInitialRate
  Faults = {"set"}
  OffTexts = {72}
  OnTexts = {144}
  LimiterTexts = {"reflex"}
INVARIANTS
  SleepsWithTheRightLimit
