SPECIFICATION FairSpec
CONSTANTS
  INT_MIN <- MCIntMin
  INT_MAX = 200
  Invalid = Invalid
  FpsTexts <- MCFpsTexts
  VsyncTexts = {1}
  GameValue = GameValue
  Faults = {"thread", "path", "exports", "throw"}
INVARIANTS
  TypeOK
  AppliedTogether
PROPERTIES
  LimitApplied
