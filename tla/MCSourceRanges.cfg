CONSTANTS
  PyVersion = 37
  Units <- MCUnits
SPECIFICATION Spec
INVARIANT RangesAtTokens
\* get_jit_def returns once; the final state has no successor
CHECK_DEADLOCK FALSE
