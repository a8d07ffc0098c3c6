\* The translation of expressions: accepted exactly when supported, and
\* meaning-preserving for the side-effect-free family.
CONSTANTS
  TrueDivision = TRUE
  Exprs <- MCExprs
SPECIFICATION Spec
\* One translation per unit; the translator stops when it returns.
CHECK_DEADLOCK FALSE
INVARIANTS
  TypeOK
  RejectsExactlyUnsupported
  ValueAgrees
