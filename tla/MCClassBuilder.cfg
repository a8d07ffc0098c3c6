CONSTANTS
  TrueDivision = TRUE
  PyVersion = 37
  NoFn = NoFn
  MemberOrder <- MCMemberOrder
  Calls <- MCCalls
SPECIFICATION Spec
INVARIANT
  TypeOK
PROPERTIES
  ClassTranslationSpec
\* get_jit_class_def returns once; the final state has no successor
CHECK_DEADLOCK FALSE
