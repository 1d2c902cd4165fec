SPECIFICATION PlayedOrNot
CONSTANTS
  t1 = t1
  t2 = t2
  o1 = o1
  o2 = o2
  GameThreads = {t1, t2}
  Worker = worker
  NoThread = NoThread
  Objects = {o1, o2}
  Initial = initial
  ConfigTexts <- MCTexts
  DenseFps = 5000
  LargeFps = {65535, 1000000, 1999999, 2000000, 2000001, 99999999, 100000000, 100000001, 100000031}
  PlayedTexts = {100000000, Invalid}
  GameLimits = {5000}
  SharedObjects = FALSE
  Faults = {"thread", "init", "create", "enable", "set"}
  UINT32_MAX = 100000000
  Invalid = Invalid
INVARIANTS
  TypeOK
  FrameTimeIsNearest
  InitialCallAlone
PROPERTIES
  LimitReached
  CallsReturn
  ImplementsLimitedSetter
