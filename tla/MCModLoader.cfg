SPECIFICATION FairSpec
CONSTANTS
  a = a
  b = b
  f = f
  g = g
  Entries = {a, b}
  Loader = loader
  NoThread = NoThread
  Exports = {f, g}
  ExportsOf <- MCExportsOf
  MaxLogs = 1
INVARIANTS
  TypeOK
  AllModsAndOnlyMods
  AnnouncedFirst
  ForwardsToOneDll
PROPERTIES
  LoadingEnds
  ImplementsRecordLog
CHECK_DEADLOCK FALSE
