---------------------------- MODULE ExprBuilder ----------------------------
(***************************************************************************)
(* ExprBuilder of torch/jit/frontend.py: the translation of one Python    *)
(* expression AST (the output of ast.parse) into the TorchScript tree     *)
(* view ("IR").  Builder.__call__ dispatches on the node's class name to  *)
(* a build_<Kind> handler; handlers build their children through          *)
(* build_expr first and then check the node's own shape, so the first    *)
(* exception raised in that order aborts the whole translation.           *)
(*                                                                         *)
(* AST and IR nodes share one record shape [k, op, v, kids]:              *)
(*   k    the node class (ast.BinOp, ...) or tree-view class (BinOp, ...) *)
(*   op   the operator class name, a literal's Python type, or ""         *)
(*   v    a sequence of strings: an identifier or literal spelled one     *)
(*        character per element, or the ops of a Compare                  *)
(*   kids the child nodes in the order the handler builds them            *)
(* Source ranges are left out here (module SourceRanges models them).     *)
(***************************************************************************)
EXTENDS Integers, Sequences, SequencesExt

CONSTANT
  TrueDivision   \* SourceContext.uses_true_division of the unit

Node(k, op, v, kids) == [k |-> k, op |-> op, v |-> v, kids |-> kids]
Leaf(k, op, v) == Node(k, op, v, <<>>)
\* Python None in an optional AST field (Slice.lower, Dict.keys[i], ...)
NoNode == Leaf("NoneType", "", <<>>)
\* The tree view's list wrapper (List<Expr> in Apply, Subscript, ...)
ListView(items) == Node("List", "", <<>>, items)

\* The exception classes of frontend.py (FrontendError and its subclasses)
FrontendErrors == {"FrontendError", "NotSupportedError", "UnsupportedNodeError"}

\* An exception: its class, what it refuses, and whether it carries a
\* source range (a FrontendError built with a range; never a Python error).
NoErr == [cls |-> "", why |-> "", ranged |-> FALSE]
Ok(ir) == [ok |-> TRUE, ir |-> ir, err |-> NoErr]
Raise(err) == [ok |-> FALSE, ir |-> NoNode, err |-> err]
Fail(cls, why) == Raise([cls |-> cls, why |-> why, ranged |-> cls \in FrontendErrors])
\* A FrontendError constructed with source_range None
FailUnranged(cls, why) == Raise([cls |-> cls, why |-> why, ranged |-> FALSE])
OkSeq(irs) == [ok |-> TRUE, irs |-> irs, err |-> NoErr]
FailSeq(err) == [ok |-> FALSE, irs |-> <<>>, err |-> err]

\* What a handler does with a built child, F, unless building it raised:
\* the exception then propagates unchanged.
Then(r, F(_)) == IF r.ok THEN F(r.ir) ELSE r
\* The same for a list of children built in order
ThenAll(rs, F(_)) == IF rs.ok THEN F(rs.irs) ELSE Raise(rs.err)

-----------------------------------------------------------------------------
(* The static tables of ExprBuilder and the reserved prefix.               *)

binop_map == [Add |-> "+", Sub |-> "-", Mult |-> "*", Div |-> "/",
              Pow |-> "**", Mod |-> "%", FloorDiv |-> "//", BitAnd |-> "&",
              BitXor |-> "^", BitOr |-> "|", LShift |-> "<<", RShift |-> ">>",
              MatMult |-> "@"]
unop_map == [Not |-> "not", USub |-> "-", Invert |-> "~"]
boolop_map == [And |-> "and", Or |-> "or"]
cmpop_map == [Eq |-> "==", NotEq |-> "!=", LtE |-> "<=", Lt |-> "<",
              GtE |-> ">=", Gt |-> ">", Is |-> "is", IsNot |-> "is not",
              In |-> "in", NotIn |-> "not in"]

_reserved_prefix == <<"_", "_", "j", "i", "t">>

\* The classes that have a build_<Kind> method on ExprBuilder
ExprKinds == {"Attribute", "Call", "Ellipsis", "Name", "NameConstant",
              "BinOp", "UnaryOp", "BoolOp", "IfExp", "Compare", "Subscript",
              "List", "Tuple", "Dict", "Num", "Constant", "Str", "JoinedStr",
              "ListComp", "Starred"}

-----------------------------------------------------------------------------
(* Handlers that need no recursive call, or get their built children.      *)

\* UnsupportedNodeError.__init__ reads offending_node.lineno: for a Python
\* None handed to build_expr that read itself raises AttributeError.
UnsupportedNode(e) ==
  IF e.k = "NoneType" THEN Fail("AttributeError", "NoneType has no lineno")
  ELSE Fail("UnsupportedNodeError", e.k)

\* Mutation: the reserved-prefix check dropped.
build_Name_unchecked(e) ==
  CASE e.v = <<"T", "r", "u", "e">>    -> Ok(Leaf("TrueLiteral", "", <<>>))
    [] e.v = <<"F", "a", "l", "s", "e">> -> Ok(Leaf("FalseLiteral", "", <<>>))
    [] e.v = <<"N", "o", "n", "e">>    -> Ok(Leaf("NoneLiteral", "", <<>>))
    [] OTHER                           -> Ok(Leaf("Var", "", e.v))

build_Name(e) ==
  CASE IsPrefix(_reserved_prefix, e.v) -> Fail("NotSupportedError", "reserved prefix")
    [] e.v = <<"T", "r", "u", "e">>    -> Ok(Leaf("TrueLiteral", "", <<>>))
    [] e.v = <<"F", "a", "l", "s", "e">> -> Ok(Leaf("FalseLiteral", "", <<>>))
    [] e.v = <<"N", "o", "n", "e">>    -> Ok(Leaf("NoneLiteral", "", <<>>))
    [] OTHER                           -> Ok(Leaf("Var", "", e.v))

build_NameConstant(e) ==
  CASE e.v = <<"True">>  -> Ok(Leaf("TrueLiteral", "", <<>>))
    [] e.v = <<"False">> -> Ok(Leaf("FalseLiteral", "", <<>>))
    [] e.v = <<"None">>  -> Ok(Leaf("NoneLiteral", "", <<>>))
    [] OTHER             -> Fail("ValueError", "name constant")

\* str(expr.n): v holds the decimal digits of the integral value n; a float
\* prints with a trailing ".0".  The literal's own spelling is not kept.
build_Num(e) ==
  Ok(Leaf("Const", "", IF e.op = "float" THEN e.v \o <<".", "0">> ELSE e.v))

build_Str(e) == Ok(Leaf("StringLiteral", "", e.v))

build_Ellipsis(e) == Ok(Leaf("Dots", "", <<>>))

\* Python 3.8 parses every literal to ast.Constant; op is the value's type.
build_Constant(e) ==
  CASE e.op \in {"NoneType", "bool"} -> build_NameConstant(e)
    [] e.op \in {"int", "float"}     -> build_Num(e)
    [] e.op = "str"                  -> build_Str(e)
    [] e.op = "ellipsis"             -> build_Ellipsis(e)
    [] OTHER                         -> Fail("FrontendError", "unknown constant")

build_BinOp(ctx, e, lhs, rhs) ==
  CASE e.op = "Div" /\ ~ctx.uses_true_division -> Fail("FrontendError", "true division")
    [] e.op \notin DOMAIN binop_map -> Fail("NotSupportedError", "binary operator")
    [] OTHER -> Ok(Node("BinOp", binop_map[e.op], <<>>, <<lhs, rhs>>))

\* len(op_token) is evaluated before the None check, so an operator missing
\* from unop_map (ast.UAdd) raises TypeError; the NotSupportedError branch
\* after it is unreachable.
build_UnaryOp(e, sub) ==
  IF e.op \notin DOMAIN unop_map THEN Fail("TypeError", "len(None)")
  ELSE Ok(Node("UnaryOp", unop_map[e.op], <<>>, <<sub>>))

\* The left fold of the built operands: a or b or c => (a or b) or c
build_BoolOp(e, subs) ==
  IF e.op \notin DOMAIN boolop_map THEN Fail("NotSupportedError", "boolean operator")
  ELSE Ok(FoldLeft(LAMBDA l, r : Node("BinOp", boolop_map[e.op], <<>>, <<l, r>>),
                   Head(subs), Tail(subs)))

\* Mutation: the AST children passed on instead of the built ones.
build_IfExp_unbuilt(e, kids) == Ok(Node("TernaryIf", "", <<>>, e.kids))

build_IfExp(e, kids) == Ok(Node("TernaryIf", "", <<>>, kids))

\* One comparison of the chain; `not in` becomes not(in).
CmpExpr(op, lhs, rhs) ==
  IF op = "NotIn"
  THEN Node("UnaryOp", "not", <<>>, <<Node("BinOp", "in", <<>>, <<lhs, rhs>>)>>)
  ELSE Node("BinOp", cmpop_map[op], <<>>, <<lhs, rhs>>)

\* Mutation: every link of the chain compares against the first operand.
build_Compare_first(e, operands) ==
  LET ops == e.v
      cmp(i) == CmpExpr(ops[i], operands[1], operands[i + 1])
  IN Ok(FoldLeft(LAMBDA acc, i : Node("BinOp", "and", <<>>, <<acc, cmp(i)>>),
                 cmp(1), [j \in 1..(Len(ops) - 1) |-> j + 1]))

\* zip(operands, ops, operands[1:]); each pair's result is and-ed onto the
\* result so far.  The first unsupported operator in the chain raises.
build_Compare(e, operands) ==
  LET ops == e.v
      bad == {i \in DOMAIN ops : ops[i] \notin DOMAIN cmpop_map}
      cmp(i) == CmpExpr(ops[i], operands[i], operands[i + 1])
  IN
  IF bad # {} THEN Fail("NotSupportedError", "comparison operator")
  ELSE Ok(FoldLeft(LAMBDA acc, i : Node("BinOp", "and", <<>>, <<acc, cmp(i)>>),
                   cmp(1), [j \in 1..(Len(ops) - 1) |-> j + 1]))

build_List(kids) == Ok(Node("ListLiteral", "", <<>>, kids))
build_Tuple(kids) == Ok(Node("TupleLiteral", "", <<>>, kids))
build_Dict(kids) ==
  LET n == Len(kids) \div 2
  IN Ok(Node("DictLiteral", "", <<>>,
             <<ListView(SubSeq(kids, 1, n)), ListView(SubSeq(kids, n + 1, 2 * n))>>))
build_Starred(kids) == Ok(Node("Starred", "", <<>>, kids))
build_Attribute(e, base) == Ok(Node("Select", "", e.v, <<base>>))

-----------------------------------------------------------------------------
(* build_Subscript's inner helpers that need no recursive call.            *)

\* build_Index: a Tuple or List index inside an extended slice is refused.
IndexIsSequence(idx) == idx.kids[1].k \in {"Tuple", "List"}

build_SliceExpr(lower, upper, step) ==
  Node("SliceExpr", "", <<>>, <<lower, upper, step>>)

\* The optional parts of a Slice that are present, in build order.
SliceParts(sl) == SelectSeq(sl.kids, LAMBDA x : x.k # "NoneType")
\* Put the built present parts back in their lower/upper/step positions.
SliceFill(sl, built) ==
  LET pos(i) == Len(SelectSeq(SubSeq(sl.kids, 1, i), LAMBDA x : x.k # "NoneType"))
  IN [i \in 1..3 |-> IF sl.kids[i].k = "NoneType" THEN NoNode ELSE built[pos(i)]]

Subscript(base, indices) == Node("Subscript", "", <<>>, <<base, ListView(indices)>>)

-----------------------------------------------------------------------------
(* build_expr and the handlers that recurse through it.                    *)

RECURSIVE BuildExpr(_, _)

\* The results of a list built in order, each element by the handler for
\* it: the first exception aborts the list, so the list fails with the
\* exception of its first failing element.
AllOf(rs) ==
  LET bad == {i \in DOMAIN rs : ~rs[i].ok}
  IN IF bad = {} THEN OkSeq([i \in DOMAIN rs |-> rs[i].ir])
     ELSE FailSeq(rs[CHOOSE i \in bad : \A j \in bad : i <= j].err)

\* [build_expr(ctx, x) for x in es]
BuildAll(ctx, es) == AllOf([i \in DOMAIN es |-> BuildExpr(ctx, es[i])])

\* build_Slice in build_Subscript: the present parts are built in order.
BuildSlice(ctx, sl) ==
  ThenAll(BuildAll(ctx, SliceParts(sl)),
          LAMBDA irs : Ok(build_SliceExpr(SliceFill(sl, irs)[1], SliceFill(sl, irs)[2],
                                          SliceFill(sl, irs)[3])))

\* build_ExtSlice: one sub-expression per dimension, in order.
BuildDim(ctx, d) ==
  CASE d.k = "Index" /\ IndexIsSequence(d) -> Fail("NotSupportedError", "sequence in extended slice")
    [] d.k = "Index"    -> BuildExpr(ctx, d.kids[1])
    [] d.k = "Slice"    -> BuildSlice(ctx, d)
    [] d.k = "Ellipsis" -> Ok(Leaf("Dots", "", <<>>))
    [] OTHER -> Fail("NotSupportedError", "extended slice part")
BuildDims(ctx, dims) == AllOf([i \in DOMAIN dims |-> BuildDim(ctx, dims[i])])

\* build_Subscript after the base is built
SubscriptOf(ctx, sl, base) ==
  CASE sl.k = "Index" /\ sl.kids[1].k = "Tuple" ->
         ThenAll(BuildAll(ctx, sl.kids[1].kids), LAMBDA irs : Ok(Subscript(base, irs)))
    [] sl.k = "Index" ->
         Then(BuildExpr(ctx, sl.kids[1]), LAMBDA ir : Ok(Subscript(base, <<ir>>)))
    [] sl.k = "Slice" ->
         Then(BuildSlice(ctx, sl), LAMBDA ir : Ok(Subscript(base, <<ir>>)))
    [] sl.k = "ExtSlice" ->
         ThenAll(BuildDims(ctx, sl.kids), LAMBDA irs : Ok(Subscript(base, irs)))
    [] OTHER -> Fail("NotSupportedError", "ellipsis")

\* build_Call's keyword loop: each value is built, then a nameless keyword
\* (**kwargs expansion) is refused.
BuildKeyword(ctx, kw) ==
  Then(BuildExpr(ctx, kw.kids[1]),
       LAMBDA ir : IF kw.v = <<>> THEN Fail("NotSupportedError", "keyword-arg expansion")
                   ELSE Ok(Node("Attribute", "", kw.v, <<ir>>)))
BuildKeywords(ctx, kws) == AllOf([i \in DOMAIN kws |-> BuildKeyword(ctx, kws[i])])

\* build_Call: func, the positional args, then the keywords
BuildCall(ctx, e) ==
  LET pos == SelectSeq(e.kids, LAMBDA x : x.k # "keyword")
      kws == SelectSeq(e.kids, LAMBDA x : x.k = "keyword")
  IN ThenAll(BuildAll(ctx, pos),
       LAMBDA irs : ThenAll(BuildKeywords(ctx, kws),
                            LAMBDA kirs : Ok(Node("Apply", "", <<>>,
                                                  <<Head(irs), ListView(Tail(irs)), ListView(kirs)>>))))

\* build_JoinedStr's loop, one value: a field's conversion and format spec
\* are checked before its value is built; a literal part is kept as it is.
BuildJoinedValue(ctx, x) ==
  CASE x.k = "FormattedValue" /\ x.op # "-1" -> Fail("NotSupportedError", "conversion in JoinedStr")
    [] x.k = "FormattedValue" /\ x.kids[2].k # "NoneType" ->
         Fail("NotSupportedError", "formatting in JoinedStr")
    [] x.k = "FormattedValue" -> BuildExpr(ctx, x.kids[1])
    [] x.k = "Str" \/ (x.k = "Constant" /\ x.op = "str") -> Ok(x)
    [] OTHER -> Fail("NotSupportedError", "value in JoinedStr")

\* build_JoinedStr: the template s gets each literal part and "{}" for each
\* field, args the built fields; the result is s.format(*args).
BuildJoined(ctx, values) ==
  LET isField(i) == values[i].k = "FormattedValue"
      s == FoldLeft(LAMBDA acc, i : acc \o (IF isField(i) THEN <<"{", "}">> ELSE values[i].v),
                    <<>>, [i \in DOMAIN values |-> i])
      args == SelectSeq([i \in DOMAIN values |-> i], isField)
  IN ThenAll(AllOf([i \in DOMAIN values |-> BuildJoinedValue(ctx, values[i])]),
             LAMBDA irs : Ok(Node("Apply", "", <<>>,
                                  <<Node("Select", "", <<"f", "o", "r", "m", "a", "t">>,
                                         <<Leaf("StringLiteral", "", s)>>),
                                    ListView([j \in DOMAIN args |-> irs[args[j]]]), ListView(<<>>)>>)))

\* build_ListComp: the generator checks come before any child is built.
BuildListComp(ctx, e) ==
  LET gens == Tail(e.kids)
  IN CASE Len(gens) > 1 -> Fail("NotSupportedError", "multiple generators")
       [] Len(gens[1].kids) # 2 -> Fail("NotSupportedError", "comprehension ifs")
       [] OTHER ->
            ThenAll(BuildAll(ctx, <<e.kids[1], gens[1].kids[1], gens[1].kids[2]>>),
                    LAMBDA irs : Ok(Node("ListComp", "", <<>>, irs)))

\* The handlers that build all their children first, then decide.
AfterKids(ctx, e, irs) ==
  CASE e.k = "BinOp"     -> build_BinOp(ctx, e, irs[1], irs[2])
    [] e.k = "UnaryOp"   -> build_UnaryOp(e, irs[1])
    [] e.k = "BoolOp"    -> build_BoolOp(e, irs)
    [] e.k = "IfExp"     -> build_IfExp(e, irs)
    [] e.k = "Compare"   -> build_Compare(e, irs)
    [] e.k = "List"      -> build_List(irs)
    [] e.k = "Tuple"     -> build_Tuple(irs)
    [] e.k = "Dict"      -> build_Dict(irs)
    [] e.k = "Starred"   -> build_Starred(irs)
    [] e.k = "Attribute" -> build_Attribute(e, irs[1])

\* Builder.__call__: look up build_<Kind>; a missing handler raises
\* UnsupportedNodeError.
BuildExpr(ctx, e) ==
  CASE e.k \notin ExprKinds -> UnsupportedNode(e)
    [] e.k = "Name"         -> build_Name(e)
    [] e.k = "NameConstant" -> build_NameConstant(e)
    [] e.k = "Num"          -> build_Num(e)
    [] e.k = "Str"          -> build_Str(e)
    [] e.k = "Ellipsis"     -> build_Ellipsis(e)
    [] e.k = "Constant"     -> build_Constant(e)
    [] e.k = "Call"         -> BuildCall(ctx, e)
    [] e.k = "JoinedStr"    -> BuildJoined(ctx, e.kids)
    [] e.k = "ListComp"     -> BuildListComp(ctx, e)
    [] e.k = "BoolOp" /\ Len(e.kids) < 2 -> Fail("AssertionError", "BoolOp arity")
    [] e.k = "Subscript" ->
         Then(BuildExpr(ctx, e.kids[1]), LAMBDA b : SubscriptOf(ctx, e.kids[2], b))
    [] OTHER -> ThenAll(BuildAll(ctx, e.kids), LAMBDA irs : AfterKids(ctx, e, irs))

=============================================================================
