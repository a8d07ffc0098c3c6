CONSTANTS
  TrueDivision = TRUE
  PyVersion = 37
  Calls <- MCCalls
SPECIFICATION Spec
INVARIANTS
  TypeOK
  RejectsExactlyUnsupported
  DefMatchesSource
\* get_jit_def returns once; the final state has no successor
CHECK_DEADLOCK FALSE
