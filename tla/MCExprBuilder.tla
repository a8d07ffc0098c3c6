--------------------------- MODULE MCExprBuilder ---------------------------
(***************************************************************************)
(* Model-checking instance of ExprBuilder: the expression ASTs that       *)
(* ast.parse (Python 3.7) produces for a bounded family of sources, and   *)
(* the properties of their translation.                                   *)
(***************************************************************************)
EXTENDS ExprTranslation, ExprSemantics, PyAst, SubsetSpec, FiniteSets

-----------------------------------------------------------------------------
(* The side-effect-free family: comparisons, chains, and/or, not, +, -,   *)
(* conditional expressions over two integer variables.                    *)

Atoms == {X, Y, One}
Conds == {Cmp(<<"Lt">>, <<X, Y>>), Cmp(<<"Eq">>, <<X, One>>), Cmp(<<"Lt">>, <<Y, Two>>)}

SemExprs ==
  {Cmp(<<o>>, <<a, b>>) : o \in {"Lt", "LtE", "Eq", "NotEq"}, a, b \in Atoms}
  \cup {Cmp(<<o>>, <<a, ListN(<<b, c>>)>>) : o \in {"In", "NotIn"}, a \in Atoms,
                                            b, c \in {Y, One}}
  \cup {Cmp(<<o1, o2>>, <<a, b, c>>) : o1, o2 \in {"Lt", "Eq"}, a, b, c \in Atoms}
  \cup {BoolN(op, <<c1, c2>>) : op \in {"And", "Or"}, c1, c2 \in Conds}
  \cup {BoolN(op, <<c1, c2, c3>>) : op \in {"And", "Or"}, c1, c2, c3 \in Conds}
  \cup {Un("Not", c) : c \in Conds} \cup {Un("USub", a) : a \in Atoms}
  \cup {Bin(op, a, b) : op \in {"Add", "Sub"}, a, b \in Atoms}
  \cup {IfE(c, a, b) : c \in Conds, a, b \in Atoms}

Envs == [{<<"x">>, <<"y">>} -> 0..2]

-----------------------------------------------------------------------------
(* One or two of every other shape the handlers tell apart, accepted and  *)
(* rejected, with a reserved name at each position that is built.         *)

ShapeExprs ==
  { NameN(<<"T", "r", "u", "e">>), NameN(<<"N", "o", "n", "e">>), Jit,
    Leaf("NameConstant", "", <<"False">>), StrN(<<"s">>),
    Leaf("Ellipsis", "", <<>>), Leaf("Num", "float", <<"2">>),
    Leaf("Constant", "int", <<"1">>), Leaf("Constant", "bool", <<"True">>),
    Leaf("Constant", "str", <<"s">>), Leaf("Constant", "bytes", <<"b">>),
    Leaf("Bytes", "", <<"b">>),
    Node("Lambda", "", <<>>, <<X>>), Node("Set", "", <<>>, <<X>>),
    Bin("Div", X, Y), Bin("Pow", Jit, X), Bin("MatMult", X, Jit),
    Un("UAdd", X), Un("Invert", Jit),
    BoolN("Or", <<X, Jit>>), IfE(X, Jit, Y),
    CallN(F, <<X>>), CallN(F, <<Node("Starred", "", <<>>, <<X>>)>>),
    CallN(F, <<Kw(<<"k">>, X)>>), CallN(F, <<Kw(<<>>, X)>>),
    CallN(F, <<X, Kw(<<"k">>, Jit)>>), CallN(Jit, <<X>>),
    CallN(F, <<Kw(<<>>, Jit)>>),
    Node("Attribute", "", <<"a">>, <<X>>), Node("Attribute", "", <<"a">>, <<Jit>>),
    Sub(X, Index(Y)), Sub(X, Index(TupleN(<<Y, One>>))), Sub(X, Index(ListN(<<Y>>))),
    Sub(X, Index(TupleN(<<Y, Jit>>))), Sub(Jit, Index(Y)),
    Sub(X, Slice(One, NoNode, NoNode)), Sub(X, Slice(NoNode, NoNode, NoNode)),
    Sub(X, Slice(One, Y, Two)), Sub(X, Slice(NoNode, Jit, NoNode)),
    Sub(X, Node("ExtSlice", "", <<>>, <<Slice(One, NoNode, NoNode), Index(Y)>>)),
    Sub(X, Node("ExtSlice", "", <<>>, <<Index(Leaf("Ellipsis", "", <<>>)),
                                        Slice(NoNode, Two, NoNode)>>)),
    Sub(X, Node("ExtSlice", "", <<>>, <<Index(TupleN(<<Y, One>>)),
                                        Slice(NoNode, NoNode, NoNode)>>)),
    Sub(X, Node("ExtSlice", "", <<>>, <<Index(ListN(<<Y>>)), Slice(One, NoNode, NoNode)>>)),
    Sub(X, Node("ExtSlice", "", <<>>, <<Slice(Jit, NoNode, NoNode), Index(Y)>>)),
    TupleN(<<X, Jit>>), TupleN(<<>>),
    Node("Dict", "", <<>>, <<X, Y>>), Node("Dict", "", <<>>, <<NoNode, Y>>),
    Node("Dict", "", <<>>, <<X, Jit>>),
    Node("Starred", "", <<>>, <<Jit>>),
    Node("JoinedStr", "", <<>>, <<StrN(<<"a">>), Fmt("-1", X, NoNode)>>),
    Node("JoinedStr", "", <<>>, <<Fmt("r", X, NoNode)>>),
    Node("JoinedStr", "", <<>>, <<Fmt("-1", X, Node("JoinedStr", "", <<>>, <<>>))>>),
    Node("JoinedStr", "", <<>>, <<Fmt("-1", Jit, NoNode)>>),
    Node("ListComp", "", <<>>, <<X, Gen(X, Y, <<>>)>>),
    Node("ListComp", "", <<>>, <<X, Gen(X, Y, <<X>>)>>),
    Node("ListComp", "", <<>>, <<X, Gen(X, Y, <<>>), Gen(Y, X, <<>>)>>),
    Node("ListComp", "", <<>>, <<Jit, Gen(X, Y, <<>>)>>) }

(* f-strings: literal parts (the parser has already turned "{{" into "{") *)
(* around plain {x} fields; the parser never puts two literals in a row.  *)
Lits == {<<"a">>, <<"{">>, <<"}">>, <<"{", "}">>}
Field == Fmt("-1", X, NoNode)
JoinedExprs ==
  {Node("JoinedStr", "", <<>>, vs) :
     vs \in {<<Field>>} \cup {<<StrN(l)>> : l \in Lits}
             \cup {<<StrN(l), Field>> : l \in Lits} \cup {<<Field, StrN(l)>> : l \in Lits}
             \cup {<<StrN(l), Field, StrN(m)>> : l, m \in Lits}
             \cup {<<Field, StrN(l), Field>> : l \in Lits}}

MCExprs == SemExprs \cup ShapeExprs \cup JoinedExprs

-----------------------------------------------------------------------------
Done == done

\* The result is a tree view made only of tree-view nodes: no AST node of
\* the input is passed through untranslated.
TypeOK ==
  /\ expr \in MCExprs
  /\ done \in BOOLEAN
  /\ result.ok \in BOOLEAN /\ result.err.cls \in STRING
  /\ result.ok => IsTreeView(result.ir)

\* build_expr accepts an expression exactly when every construct in it is
\* in the translatable subset: no handler lets an unsupported shape through
\* (BuildCall's keyword check, build_Index, BuildListComp, build_Name, ...)
\* and none refuses a supported one.
RejectsExactlyUnsupported == Done => (result.ok <=> Supported(expr))

\* A translated side-effect-free expression computes, in TorchScript, the
\* value Python computes, in every environment: the desugaring of chained
\* comparisons, `not in`, and/or chains (build_Compare, build_BoolOp)
\* keeps the meaning.
ValueAgrees ==
  (Done /\ expr \in SemExprs /\ result.ok) =>
    \A env \in Envs : IREval(result.ir, env).val = PyEval(expr, env).val

\* The translation reads the program's variables in the order, and as many
\* times, as Python does: an operand of a comparison chain is evaluated
\* once, and nothing past a deciding operand is evaluated.
EvalTraceAgrees ==
  (Done /\ expr \in SemExprs /\ result.ok) =>
    \A env \in Envs : IREval(result.ir, env).tr = PyEval(expr, env).tr

\* An f-string translates to template.format(args) that prints, under
\* TorchScript's format, what Python prints: build_JoinedStr's template
\* must keep a literal "{}" from being taken for a field.
FormatAgrees ==
  (Done /\ expr \in JoinedExprs /\ result.ok) =>
    LET call == result.ir
        template == call.kids[1].kids[1].v
        args == [i \in DOMAIN call.kids[2].kids |-> call.kids[2].kids[i].v]
    IN StrFormat(template, args, <<>>) = [ok |-> TRUE, out |-> FStringText(expr.kids)]

=============================================================================
