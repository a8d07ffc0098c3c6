--------------------------- MODULE MCClassBuilder ---------------------------
(***************************************************************************)
(* Model-checking instance of ClassBuilder: classes over three attribute  *)
(* names a < b < c, in six layouts (own defs, a staticmethod, properties  *)
(* with and without a setter, inherited members, aliases), each slot      *)
(* filled with a method that translates, one refused by each of two       *)
(* diagnostics, or an @unused one.                                        *)
(***************************************************************************)
EXTENDS ClassBuilder, PyAst, SubsetSpec, FiniteSets

MCMemberOrder == <<"a", "b", "c">>

SelfArgs == Arguments(<<ArgN(<<"s", "e", "l", "f">>, NoNode)>>, NoNode, NoNode, <<>>, <<>>)
FnOf(body, drop) ==
  [tree |-> <<FunctionDefN(<<"m">>, SelfArgs, body, NoNode)>>, drop |-> drop, type_line |-> FALSE]

\* def m(self): return x / global x / del x, y / @unused ... global x
GoodFn == FnOf(<<ReturnS(X)>>, FALSE)
UnsupFn == FnOf(<<Leaf("Global", "", <<"x">>)>>, FALSE)
NotSupFn == FnOf(<<DeleteS(<<X, Y>>)>>, FALSE)
DroppedFn == FnOf(<<Leaf("Global", "", <<"x">>)>>, TRUE)
Fns == {GoodFn, UnsupFn, NotSupFn, DroppedFn}

\* What getattr(cls, name) finds
Absent == [kind |-> "none", own |-> FALSE, fname |-> "a", fn |-> NoFn, fset |-> NoFn]
Def(own, fname, fn) == [kind |-> "function", own |-> own, fname |-> fname, fn |-> fn, fset |-> NoFn]
Static(fname, fn) == [kind |-> "static", own |-> TRUE, fname |-> fname, fn |-> fn, fset |-> NoFn]
Prop(own, fget, fset) == [kind |-> "property", own |-> own, fname |-> "a", fn |-> fget, fset |-> fset]
Data == [kind |-> "data", own |-> TRUE, fname |-> "a", fn |-> NoFn, fset |-> NoFn]

Cls(a, b, c) == [n \in {"a", "b", "c"} |-> CASE n = "a" -> a [] n = "b" -> b [] OTHER -> c]

Classes ==
  UNION {
    \* def a; b = staticmethod; c = property (no setter)
    {Cls(Def(TRUE, "a", f1), Static("b", f2), Prop(TRUE, f3, NoFn)) : f1, f2, f3 \in Fns},
    \* a = property with setter; def b; c = 3
    {Cls(Prop(TRUE, f1, f2), Def(TRUE, "b", f3), Data) : f1, f2, f3 \in Fns},
    \* a inherited def; def b; c inherited property
    {Cls(Def(FALSE, "a", f1), Def(TRUE, "b", f2), Prop(FALSE, f3, NoFn)) : f1, f2, f3 \in Fns},
    \* a inherited def; b = Base.a (an own alias); def c
    {Cls(Def(FALSE, "a", f1), Def(TRUE, "a", f1), Def(TRUE, "c", f2)) : f1, f2 \in Fns},
    \* def a overriding the base's a; b inherited from `b = a` in the base
    {Cls(Def(TRUE, "a", f1), Def(FALSE, "a", f2), Absent) : f1, f2 \in Fns},
    \* def a; b = a; c = property with setter
    {Cls(Def(TRUE, "a", f1), Def(TRUE, "a", f1), Prop(TRUE, f2, f3)) : f1, f2, f3 \in Fns} }

MCCalls == {[cls |-> c, self_name |-> <<"C">>] : c \in Classes}

-----------------------------------------------------------------------------
ClassOut == result.ir

\* Every method and property built so far is a translated Def; a class
\* that translates is a ClassDef made only of tree-view nodes.
TypeOK ==
  /\ call \in Calls
  /\ \A i \in DOMAIN methods : methods[i].k = "Def"
  /\ \A i \in DOMAIN properties : properties[i].k = "Property" /\ properties[i].kids[1].k = "Def"
  /\ done \in BOOLEAN
  /\ (done /\ result.ok) => ClassOut.k = "ClassDef" /\ IsTreeView(ClassOut)

\* The step-by-step builder implements the all-or-nothing translation:
\* the ClassDef holds every introspected member, in order, or exactly one
\* member's diagnostic escapes and no partial class is returned (spec 4.6,
\* 6, 7).
ClassTranslationSpec == CT!Spec

\* The members the spec's introspector yields (spec 1, 4.6, 6): the names
\* defined directly on the class, in order, that are non-static functions,
\* and those that are properties
OwnNames(cls, kind) ==
  LET ns == SelectSeq(MemberOrder, LAMBDA n : cls[n].kind = kind /\ cls[n].own)
  IN [i \in DOMAIN ns |-> <<ns[i]>>]
NamesOf(list) == [i \in DOMAIN list.kids |-> list.kids[i].v]

\* A translated class has a method for each own non-static function of
\* the class, whatever __name__ the function object carries, and a
\* property for each property defined on the class; nothing inherited
\* (the getmembers calls of get_jit_class_def and get_class_properties).
OwnMembersOnly ==
  (done /\ result.ok) =>
    /\ NamesOf(ClassOut.kids[1]) = OwnNames(call.cls, "function")
    /\ NamesOf(ClassOut.kids[2]) = OwnNames(call.cls, "property")

=============================================================================
