SPECIFICATION Spec
CONSTANTS
  t1 = t1
  t2 = t2
  o1 = o1
  o2 = o2
  GameThreads = {t1, t2}
  Worker = worker
  NoThread = NoThread
  Objects = {o1}
  Initial = initial
  ConfigTexts = {120}
  DenseFps = 0
  LargeFps = {}
  PlayedTexts = {120}
  GameLimits = {0, 5000}
  SharedObjects = TRUE
  Faults = {}
  UINT32_MAX = 100000000
  Invalid = Invalid
INVARIANTS
  HookedCallsLimited
