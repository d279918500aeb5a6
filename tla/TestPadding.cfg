SPECIFICATION Spec
CONSTANTS
  MaxBytes = 130
INVARIANTS
  PaddingIsStandard
CHECK_DEADLOCK FALSE
