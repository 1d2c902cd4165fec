SPECIFICATION ToolSpec
CONSTANTS
  Lengths = {127, 128, 167, 168}
  Offsets = {64}
  OptSizes = {0}
  UINT32_VALUES = 1000
  NoFile = NoFile
  Files <- MCFiles
INVARIANTS
  RdataIsWritable
CHECK_DEADLOCK FALSE
