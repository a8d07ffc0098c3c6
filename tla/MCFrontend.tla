----------------------------- MODULE MCFrontend -----------------------------
(***************************************************************************)
(* Model-checking instance of Frontend: get_jit_def called on functions   *)
(* made of a bounded family of parameter lists, return annotations and    *)
(* bodies, marked @unused or not, with or without a type comment, as a    *)
(* free function or as a method; the ASTs are those ast.parse produces    *)
(* under PyVersion.                                                        *)
(***************************************************************************)
EXTENDS Frontend, PyAst, SubsetSpec, FiniteSets

\* Literals as ast.parse spells them under PyVersion
NumL(d) == IF PyVersion >= 38 THEN Leaf("Constant", "int", <<d>>) ELSE NumN(d)
Doc == ExprS(StrLit(<<"d">>))
IntT == NameN(<<"i", "n", "t">>)
SelfA == <<"s", "e", "l", "f">>
ArgX == ArgN(<<"x">>, NoNode)
ArgK == ArgN(<<"k">>, NoNode)

\* def f(x), (self, x: int), (x: __jitx), (*a), (**a), (x, *, k),
\* (x, *, k=1), (x, *, k=__jitx), (x, *, k=+x)
ParamLists ==
  { Arguments(<<ArgX>>, NoNode, NoNode, <<>>, <<>>),
    Arguments(<<ArgN(SelfA, NoNode), ArgN(<<"x">>, IntT)>>, NoNode, NoNode, <<>>, <<>>),
    Arguments(<<ArgN(<<"x">>, Jit)>>, NoNode, NoNode, <<>>, <<>>),
    Arguments(<<>>, ArgN(<<"a">>, NoNode), NoNode, <<>>, <<>>),
    Arguments(<<>>, NoNode, ArgN(<<"a">>, NoNode), <<>>, <<>>),
    Arguments(<<ArgX>>, NoNode, NoNode, <<ArgK>>, <<NoNode>>),
    Arguments(<<ArgX>>, NoNode, NoNode, <<ArgK>>, <<NumL("1")>>),
    Arguments(<<ArgX>>, NoNode, NoNode, <<ArgK>>, <<Jit>>),
    Arguments(<<ArgX>>, NoNode, NoNode, <<ArgK>>, <<Un("UAdd", X)>>) }

Returns == {NoNode, IntT, Jit}

\* Bodies: every statement kind accepted and refused, docstrings at the
\* top and inside nested blocks, errors in a later statement and deep in
\* a nested block; expressions whose refusal escapes as a Python error.
Bodies ==
  { <<Doc, ReturnS(X)>>,
    <<AssignS(<<Y>>, X), AugAssignS("Add", Y, NumL("1")), ReturnS(NoNode)>>,
    <<AugAssignS("Pow", Y, NumL("1"))>>,
    <<AnnAssignS(Y, IntT, X)>>, <<AnnAssignS(Y, IntT, NoNode)>>,
    <<DeleteS(<<X>>)>>, <<DeleteS(<<X, Y>>)>>,
    <<RaiseS(CallN(F, <<X>>))>>, <<RaiseS(NoNode)>>,
    <<AssertS(X, NoNode), AssertS(X, StrLit(<<"m">>))>>,
    <<WhileS(X, <<Doc, PassS>>, <<>>)>>, <<WhileS(X, <<PassS>>, <<BreakS>>)>>,
    <<ForS(X, Y, <<BreakS>>, <<>>)>>,
    <<IfS(X, <<ContinueS>>, <<IfS(Y, <<PassS>>, <<Doc, BreakS>>)>>)>>,
    <<WithS(<<WithItemN(F, X), WithItemN(F, NoNode)>>, <<PassS>>)>>,
    <<WithS(<<WithItemN(Jit, NoNode)>>, <<PassS>>)>>,
    <<Leaf("Global", "", <<"x">>)>>,
    <<ExprS(CallN(F, <<X>>)), ReturnS(Jit)>>,
    <<IfS(Jit, <<PassS>>, <<>>)>>,
    <<IfS(X, <<WhileS(Y, <<AugAssignS("Pow", Y, X)>>, <<>>)>>, <<>>)>>,
    <<ReturnS(Un("UAdd", X))>>, <<ReturnS(Node("Dict", "", <<>>, <<NoNode, Y>>))>> }

\* A for loop with an else branch
ForElseBodies == {<<ForS(X, Y, <<PassS>>, <<ReturnS(X)>>)>>}

\* Sources that do not parse to a single def (a lambda's line)
OtherTrees == {<<AssignS(<<F>>, Node("Lambda", "", <<>>, <<X>>))>>}

CallsOf(trees) ==
  [fn : [tree : trees, drop : BOOLEAN, type_line : BOOLEAN],
   def_name : {<<"f">>}, self_name : {NoSelf, <<"C">>}]

DefTrees(bodies) ==
  {<<FunctionDefN(<<"f">>, a, b, r)>> : a \in ParamLists, b \in bodies, r \in Returns}

MCCalls == CallsOf(DefTrees(Bodies) \cup OtherTrees)
MCForElseCalls == CallsOf(DefTrees(ForElseBodies))

-----------------------------------------------------------------------------
(* Reference: the Def the spec says a supported function translates to.  *)

IsSingleDef(fn) == Len(fn.tree) = 1 /\ fn.tree[1].k = "FunctionDef"

\* A documentation string: an expression statement that is a bare string
\* literal, whichever class the parser gives it (spec 4.2)
IsDocString(s) == s.k = "Expr" /\ (s.kids[1].k = "Str" \/ (s.kids[1].k = "Constant" /\ s.kids[1].op = "str"))

\* The tree-view class each statement kind translates to (spec 3, 4.2)
IRKindOf(k) ==
  CASE k \in {"Expr", "Print"} -> "ExprStmt"
    [] k = "AnnAssign"         -> "Assign"
    [] OTHER                   -> k

\* A statement's shape: its class and its nested blocks (body, else)
RECURSIVE RefBlock(_), IRBlock(_)
RefBlock(b) ==
  LET kept == SelectSeq(b.kids, LAMBDA s : ~IsDocString(s))
      blocks(s) == CASE s.k \in {"While", "If"} -> <<RefBlock(s.kids[2]), RefBlock(s.kids[3])>>
                     [] s.k = "For"  -> <<RefBlock(s.kids[3]), RefBlock(s.kids[4])>>
                     [] s.k = "With" -> <<RefBlock(s.kids[2]), <<>>>>
                     [] OTHER        -> <<>>
  IN [i \in DOMAIN kept |-> [k |-> IRKindOf(kept[i].k), blocks |-> blocks(kept[i])]]

\* The same shape read off a translated block: tree-view loops have no else
IRBlock(l) ==
  LET blocks(s) == CASE s.k = "If"    -> <<IRBlock(s.kids[2]), IRBlock(s.kids[3])>>
                     [] s.k = "While" -> <<IRBlock(s.kids[2]), <<>>>>
                     [] s.k = "For"   -> <<IRBlock(s.kids[3]), <<>>>>
                     [] s.k = "With"  -> <<IRBlock(s.kids[2]), <<>>>>
                     [] OTHER         -> <<>>
  IN [i \in DOMAIN l.kids |-> [k |-> l.kids[i].k, blocks |-> blocks(l.kids[i])]]

\* The parameters the Decl must list (spec 4.4): positional, then
\* keyword-only, each with its annotation (the inputs annotate with names
\* only), the enclosing class for an unannotated self of a method, or the
\* no-annotation sentinel.
RefParams(d, self_name) ==
  LET a == d.kids[1]
      ann(p) == CASE p.kids[1].k = "Name" -> Leaf("Var", "", p.kids[1].v)
                  [] self_name # NoSelf /\ p.v = SelfA -> Leaf("Var", "", self_name)
                  [] OTHER -> Leaf("EmptyTypeAnnotation", "", <<>>)
      param(p, kwo) == Node("Param", IF kwo THEN "kwarg_only" ELSE "", p.v, <<ann(p)>>)
  IN [i \in DOMAIN a.kids[1].kids |-> param(a.kids[1].kids[i], FALSE)]
     \o [i \in DOMAIN a.kids[4].kids |-> param(a.kids[4].kids[i], TRUE)]

-----------------------------------------------------------------------------
Done == done
DefOut == result.ir
DeclOut == IF DefOut.kids[1].k = "MergedDecl" THEN DefOut.kids[1].kids[1] ELSE DefOut.kids[1]

\* get_jit_def returns a Def made only of tree-view nodes: no AST node of
\* the input (a parameter annotation, a statement field) is passed through
\* untranslated.
TypeOK ==
  /\ call \in Calls
  /\ done \in BOOLEAN
  /\ result.ok \in BOOLEAN /\ result.err.cls \in STRING
  /\ (done /\ result.ok) => DefOut.k = "Def" /\ IsTreeView(DefOut)

\* A function that is not @unused translates exactly when it is a single
\* def in the supported subset: build_param_list, build_param, build_def
\* and every statement handler refuse what the spec excludes and nothing
\* else.
RejectsExactlyUnsupported ==
  (Done /\ ~call.fn.drop) =>
    (result.ok <=> IsSingleDef(call.fn) /\ DefSupported(call.fn.tree[1]))

\* A translated function keeps its source's shape: the Def has the name
\* asked for, the parameters in order with their keyword-only flags and
\* annotations, and a body with one statement per source statement other
\* than a docstring, nested blocks (if/else, loop bodies and their else
\* branches, with bodies) translated in place.
DefMatchesSource ==
  (Done /\ result.ok /\ ~call.fn.drop) =>
    /\ DefOut.v = call.def_name
    /\ DeclOut.kids[1].kids = RefParams(call.fn.tree[1], call.self_name)
    /\ IRBlock(DefOut.kids[2]) = RefBlock(call.fn.tree[1].kids[2])

\* An @unused function always translates: its parameters and body are
\* replaced before anything is built, so nothing unsupported in them can
\* block it (spec 4.5).
UnusedAlwaysTranslates == (Done /\ call.fn.drop /\ IsSingleDef(call.fn)) => result.ok

\* Every refusal of a single def is one of frontend.py's diagnostics, never
\* a Python error escaping a handler.
ErrorsAreDiagnostics ==
  (Done /\ ~result.ok /\ IsSingleDef(call.fn)) => result.err.cls \in FrontendErrors

=============================================================================
