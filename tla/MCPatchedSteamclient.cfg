SPECIFICATION PatchAndPlay
CONSTANTS
  t1 = t1
  t2 = t2
  t3 = t3
  a1 = a1
  a2 = a2
  a3 = a3
  Threads = {t1, t2, t3}
  Installer = installer
  NoThread = NoThread
  Bases = {a1, a2}
  OtherBases = {a3}
  NoBase = null
  MaxHandles = 2
  Faults = {"path", "resolve", "initialize", "create", "enable", "load", "ldr"}
  Lengths = {0, 63, 64, 67, 68, 71, 72, 85, 86, 88, 102, 127, 128, 130, 144, 146, 167, 168, 170, 182, 270}
  Offsets = {0, 64, 80}
  OptSizes = {0, 2}
  UINT32_VALUES = 180
  NoFile = NoFile
  Files <- MCFiles
INVARIANTS
  TypeOK
  OnePatchedCopy
  RedirectedToPatched
  ReferencesBalanced
  NamesRestored
  OneFlagPatched
PROPERTIES
  RequestsReturn
CHECK_DEADLOCK FALSE
