-------------------------- MODULE ExprTranslation --------------------------
(***************************************************************************)
(* build_expr as a state machine: one expression AST is handed to the     *)
(* translator, which returns its tree view or raises.  The recursive      *)
(* descent is a single step: nothing else runs while it is in progress.   *)
(***************************************************************************)
EXTENDS ExprBuilder

CONSTANT
  Exprs          \* the expression ASTs the translator is given

VARIABLES
  expr,          \* the AST handed to build_expr
  done,          \* build_expr has returned or raised
  result         \* the tree view built, or the exception raised

vars == <<expr, done, result>>

\* get_jit_def builds every function's SourceContext with true division on
Ctx == [uses_true_division |-> TrueDivision]

Init ==
  /\ expr \in Exprs
  /\ done = FALSE
  /\ result = Ok(NoNode)

\* build_expr(ctx, expr): the whole recursive translation in one step
Translate ==
  /\ ~done
  /\ done' = TRUE
  /\ result' = BuildExpr(Ctx, expr)
  /\ UNCHANGED expr

Next == Translate

Spec == Init /\ [][Next]_vars

=============================================================================
