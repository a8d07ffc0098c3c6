CONSTANTS
  TrueDivision = TRUE
  Exprs <- MCExprs
SPECIFICATION Spec
CHECK_DEADLOCK FALSE
INVARIANT FormatAgrees
