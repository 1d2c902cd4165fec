SPECIFICATION Spec
CONSTANTS
  t1 = t1
  t2 = t2
  t3 = t3
  a1 = a1
  a2 = a2
  a3 = a3
  Threads = {t1, t2}
  Installer = installer
  NoThread = NoThread
  Bases = {a1, a2}
  OtherBases = {a1}
  NoBase = null
  MaxHandles = 1
  Faults = {}
INVARIANTS
  RedirectedToPatched
CHECK_DEADLOCK FALSE
