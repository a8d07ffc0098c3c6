------------------------------- MODULE PyAst -------------------------------
(***************************************************************************)
(* Constructors for the Python ASTs that ast.parse produces, in the       *)
(* record shape of ExprBuilder and StmtBuilder, and the atoms the model   *)
(* instances build their inputs from.                                     *)
(***************************************************************************)
EXTENDS ExprBuilder

\* Expressions (Python 3.7 literal classes: Num, Str)
NameN(id) == Leaf("Name", "", id)
NumN(d) == Leaf("Num", "int", <<d>>)
Bin(op, l, r) == Node("BinOp", op, <<>>, <<l, r>>)
Un(op, x) == Node("UnaryOp", op, <<>>, <<x>>)
BoolN(op, xs) == Node("BoolOp", op, <<>>, xs)
Cmp(ops, xs) == Node("Compare", "", ops, xs)
IfE(t, b, o) == Node("IfExp", "", <<>>, <<t, b, o>>)
ListN(xs) == Node("List", "", <<>>, xs)
TupleN(xs) == Node("Tuple", "", <<>>, xs)
Kw(id, x) == Node("keyword", "", id, <<x>>)
CallN(f, xs) == Node("Call", "", <<>>, <<f>> \o xs)
Index(x) == Node("Index", "", <<>>, <<x>>)
Slice(l, u, s) == Node("Slice", "", <<>>, <<l, u, s>>)
Sub(b, sl) == Node("Subscript", "", <<>>, <<b, sl>>)
Fmt(conv, x, spec) == Node("FormattedValue", conv, <<>>, <<x, spec>>)
StrN(cs) == Leaf("Str", "", cs)
Gen(t, it, ifs) == Node("comprehension", "", <<>>, <<t, it>> \o ifs)

X == NameN(<<"x">>)
Y == NameN(<<"y">>)
F == NameN(<<"f">>)
One == NumN("1")
Two == NumN("2")
Jit == NameN(<<"_", "_", "j", "i", "t", "x">>)

\* Python 3.8 parses a string literal to ast.Constant
ConstStr(cs) == Leaf("Constant", "str", cs)

\* Statements; a body or else list is a Block node
Block(ss) == Node("Block", "", <<>>, ss)
ExprS(e) == Node("Expr", "", <<>>, <<e>>)
AssignS(ts, v) == Node("Assign", "", <<>>, <<v>> \o ts)
AnnAssignS(t, a, v) == Node("AnnAssign", "", <<>>, <<t, a, v>>)
DeleteS(ts) == Node("Delete", "", <<>>, ts)
ReturnS(v) == Node("Return", "", <<>>, <<v>>)
RaiseS(exc) == Node("Raise", "", <<>>, <<exc>>)
AssertS(t, msg) == Node("Assert", "", <<>>, <<t, msg>>)
AugAssignS(op, t, v) == Node("AugAssign", op, <<>>, <<t, v>>)
WhileS(t, b, o) == Node("While", "", <<>>, <<t, Block(b), Block(o)>>)
ForS(t, it, b, o) == Node("For", "", <<>>, <<t, it, Block(b), Block(o)>>)
IfS(t, b, o) == Node("If", "", <<>>, <<t, Block(b), Block(o)>>)
WithItemN(c, v) == Node("withitem", "", <<>>, <<c, v>>)
WithS(items, b) == Node("With", "", <<>>, <<Node("Items", "", <<>>, items), Block(b)>>)
PassS == Leaf("Pass", "", <<>>)
BreakS == Leaf("Break", "", <<>>)
ContinueS == Leaf("Continue", "", <<>>)

\* Function definitions: arguments holds args, vararg, kwarg, kwonlyargs
\* and kw_defaults (one entry per keyword-only argument, None if it has
\* no default)
ArgN(name, ann) == Node("arg", "", name, <<ann>>)
ArgList(as) == Node("Args", "", <<>>, as)
Arguments(args, vararg, kwarg, kwonly, kwdefaults) ==
  Node("arguments", "", <<>>,
       <<ArgList(args), vararg, kwarg, ArgList(kwonly), ArgList(kwdefaults)>>)
FunctionDefN(name, args, body, returns) ==
  Node("FunctionDef", "", name, <<args, Block(body), returns>>)

=============================================================================
