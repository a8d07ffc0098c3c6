CONSTANTS
  TrueDivision = TRUE
  PyVersion = 38
  Calls <- MCCalls
SPECIFICATION Spec
INVARIANT DefMatchesSource
\* get_jit_def returns once; the final state has no successor
CHECK_DEADLOCK FALSE
