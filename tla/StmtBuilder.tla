---------------------------- MODULE StmtBuilder ----------------------------
(***************************************************************************)
(* StmtBuilder, WithItemBuilder and build_stmts of torch/jit/frontend.py: *)
(* the translation of a block of Python statements.  Builder.__call__     *)
(* dispatches on the statement's class; a handler first makes the checks  *)
(* that need no child (AnnAssign's value, Delete's arity, While's else,   *)
(* Print's destination), then builds its fields in source order through   *)
(* build_expr, build_withitem and build_stmts, and only then checks what  *)
(* needs a built child (AugAssign's operator).  The first exception       *)
(* aborts the block.                                                       *)
(*                                                                         *)
(* Statement ASTs use ExprBuilder's record shape.  A body or else list is *)
(* a "Block" node whose kids are the statements, a With's item list an    *)
(* "Items" node; the fields of each statement are its kids:               *)
(*   Expr [value]          Assign [value, targets...]                      *)
(*   AnnAssign [target, annotation, value]     Delete [targets...]         *)
(*   Return [value]  Raise [exc]  Assert [test, msg]                       *)
(*   AugAssign [target, value] (op: the operator class)                    *)
(*   While [test, body, orelse]  For [target, iter, body, orelse]          *)
(*   If [test, body, orelse]  Print [values...] (op "dest" if it has one)  *)
(*   With [items, body]  withitem [context_expr, optional_vars]            *)
(* An absent optional field is NoNode (Python None).                      *)
(***************************************************************************)
EXTENDS ExprBuilder

augassign_map == [Add |-> "+", Sub |-> "-", Mult |-> "*", Div |-> "/", Mod |-> "%"]

\* The classes that have a build_<Kind> method on StmtBuilder
StmtKinds == {"Expr", "Assign", "AnnAssign", "Delete", "Return", "Raise",
              "Assert", "AugAssign", "While", "For", "If", "Print", "Pass",
              "Break", "Continue", "With"}

\* build_Expr's docstring test: the value's class name is 'Str'
IsDocstring(s) == s.k = "Expr" /\ s.kids[1].k = "Str"

\* The fields a handler builds, in the order it builds them.  While and
\* For build no else list: While refuses one first, For never looks at it.
StmtParts(s) ==
  CASE s.k = "AnnAssign" -> <<s.kids[3], s.kids[1], s.kids[2]>>
    [] s.k = "Delete"    -> <<s.kids[1]>>
    [] s.k = "While"     -> SubSeq(s.kids, 1, 2)
    [] s.k = "For"       -> SubSeq(s.kids, 1, 3)
    [] OTHER             -> s.kids

-----------------------------------------------------------------------------
(* The handlers, given their built fields.                                 *)

build_Expr(irs) == Ok(Node("ExprStmt", "", <<>>, irs))
build_Assign(irs) == Ok(Node("Assign", "", <<>>, <<ListView(Tail(irs)), irs[1], NoNode>>))
build_AnnAssign(irs) == Ok(Node("Assign", "", <<>>, <<ListView(<<irs[2]>>), irs[1], irs[3]>>))
build_Delete(irs) == Ok(Node("Delete", "", <<>>, irs))
build_Return(irs) == Ok(Node("Return", "", <<>>, irs))
build_Raise(r) == IF r.ok THEN Ok(Node("Raise", "", <<>>, <<r.ir>>)) ELSE r
build_Assert(irs) == Ok(Node("Assert", "", <<>>, irs))

\* The operator is checked after both sides are built.  The refusal's
\* range is find_before(...), the '=' found scanning back from the value.
build_AugAssign(s, irs) ==
  IF s.op \notin DOMAIN augassign_map
  THEN Fail("NotSupportedError", "augmented assignment operator")
  ELSE Ok(Node("AugAssign", augassign_map[s.op], <<>>, irs))

build_While(irs) == Ok(Node("While", "", <<>>, irs))
build_For(irs) == Ok(Node("For", "", <<>>, <<ListView(<<irs[1]>>), ListView(<<irs[2]>>), irs[3]>>))
\* Mutation: the body and else lists exchanged.
build_If_swapped(irs) == Ok(Node("If", "", <<>>, <<irs[1], irs[3], irs[2]>>))
build_If(irs) == Ok(Node("If", "", <<>>, irs))
\* print(...) becomes an ExprStmt calling the builtin `print`
build_Print(irs) ==
  Ok(Node("ExprStmt", "", <<>>,
          <<Node("Apply", "", <<>>, <<Leaf("Var", "", <<"p", "r", "i", "n", "t">>),
                                      ListView(irs), ListView(<<>>)>>)>>))
build_Keyword(s) == Ok(Leaf(s.k, "", <<>>))
build_With(irs) == Ok(Node("With", "", <<>>, irs))
build_withitem(irs) == Ok(Node("WithItem", "", <<>>, irs))

\* The handlers that build their fields first, then decide.
AfterParts(s, irs) ==
  CASE s.k = "Expr"      -> build_Expr(irs)
    [] s.k = "Assign"    -> build_Assign(irs)
    [] s.k = "AnnAssign" -> build_AnnAssign(irs)
    [] s.k = "Delete"    -> build_Delete(irs)
    [] s.k = "Return"    -> build_Return(irs)
    [] s.k = "Assert"    -> build_Assert(irs)
    [] s.k = "AugAssign" -> build_AugAssign(s, irs)
    [] s.k = "While"     -> build_While(irs)
    [] s.k = "For"       -> build_For(irs)
    [] s.k = "If"        -> build_If(irs)
    [] s.k = "Print"     -> build_Print(irs)
    [] s.k = "With"      -> build_With(irs)
    [] s.k \in {"Pass", "Break", "Continue"} -> build_Keyword(s)

-----------------------------------------------------------------------------
RECURSIVE BuildStmt(_, _)

\* build_stmts: every statement translated in order, the first exception
\* aborting, then the Nones (docstrings) filtered out.
DropNones(rs) == IF rs.ok THEN OkSeq(SelectSeq(rs.irs, LAMBDA ir : ir.k # "NoneType")) ELSE rs
BuildStmts(ctx, ss) == DropNones(AllOf([i \in DOMAIN ss |-> BuildStmt(ctx, ss[i])]))

\* build_withitem: the context expression, then the optional variable
\* (`... if op_vars else None`).
BuildWithItem(ctx, it) ==
  ThenAll(AllOf([i \in 1..2 |-> IF it.kids[i].k = "NoneType" THEN Ok(NoNode)
                                 ELSE BuildExpr(ctx, it.kids[i])]),
          build_withitem)

\* One field of a statement: a block through build_stmts, a with-item
\* list through build_withitems, an absent optional field
\* (`x if x is not None else None`) as None, an expression by build_expr.
BuildPart(ctx, p) ==
  CASE p.k = "Block" ->
         ThenAll(BuildStmts(ctx, p.kids), LAMBDA irs : Ok(ListView(irs)))
    [] p.k = "Items" ->
         ThenAll(AllOf([i \in DOMAIN p.kids |-> BuildWithItem(ctx, p.kids[i])]),
                 LAMBDA irs : Ok(ListView(irs)))
    [] p.k = "NoneType" -> Ok(NoNode)
    [] OTHER -> BuildExpr(ctx, p)

\* The fields of one statement, in order, the first exception aborting
BuildParts(ctx, ps) == AllOf([i \in DOMAIN ps |-> BuildPart(ctx, ps[i])])

\* build_stmt = StmtBuilder(): Builder.__call__ and the checks each
\* handler makes before it builds anything.  A docstring translates to
\* None; build_Raise builds stmt.exc even when it is None.
BuildStmt(ctx, s) ==
  CASE s.k \notin StmtKinds -> UnsupportedNode(s)
    [] IsDocstring(s) -> Ok(NoNode)
    [] s.k = "AnnAssign" /\ s.kids[3].k = "NoneType" ->
         Fail("UnsupportedNodeError", "AnnAssign without assigned value")
    [] s.k = "Delete" /\ Len(s.kids) > 1 ->
         Fail("NotSupportedError", "del with more than one operand")
    [] s.k = "While" /\ s.kids[3].kids # <<>> ->
         FailUnranged("NotSupportedError", "else branches of while loops")
    [] s.k = "Print" /\ s.op = "dest" ->
         Fail("NotSupportedError", "print with destination")
    [] s.k = "Raise" -> build_Raise(BuildExpr(ctx, s.kids[1]))
    [] OTHER ->
         ThenAll(BuildParts(ctx, StmtParts(s)), LAMBDA irs : AfterParts(s, irs))

=============================================================================
