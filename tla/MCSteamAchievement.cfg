SPECIFICATION FairSpec
CONSTANTS
  won = won
  tutorial = tutorial
  typo = typo
  Known = {won, tutorial}
  Unknown = {typo}
  Blank = blank
  IdLists <- MCIdLists
  ExportSets <- MCExportSets
  LIBRARY_WAIT = 2
  STATS_WAIT = 4
  REQUEST_INTERVAL = 2
  RETRY_INTERVAL = 1
  Faults = {"thread", "config", "set", "store"}
INVARIANTS
  TypeOK
  OnlyResolvedCalls
  StatsGetTheirOwnWait
  RunIsComplete
PROPERTIES
  RequestsPaced
  WorkerEnds
