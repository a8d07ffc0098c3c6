-------------------------- MODULE ClassTranslation --------------------------
(***************************************************************************)
(* What the translation of a class promises (spec 4.6, 6, 7), independent *)
(* of the order in which the members are built.  The class introspector   *)
(* hands over an ordered list of methods and one of properties; every     *)
(* method, every getter and every setter is translated by DefBuilder.     *)
(* The outcome is one ClassDef holding all of them, in the introspector's *)
(* order, or exactly one diagnostic, the error of some member that fails  *)
(* to translate: never a partial class, never both.                       *)
(***************************************************************************)
EXTENDS ExprBuilder

CONSTANTS
  Calls,               \* [cls, self_name] records the class frontend is called with
  Methods(_),          \* the introspected methods of a class: <<[name, fn]>>
  Props(_),            \* its properties: <<[name, fget, fset]>>
  NoFn,                \* a property without a setter
  Translate(_, _, _),  \* DefBuilder: (function, def name, self name) -> result
  GetterName(_),       \* the synthetic def names of a property's accessors
  SetterName(_)

VARIABLES call, done, result

vars == <<call, done, result>>

\* Every unit translated: the methods, then each property's getter and
\* (if it has one) setter
MethodResults(c) ==
  [i \in DOMAIN Methods(c.cls) |->
     Translate(Methods(c.cls)[i].fn, Methods(c.cls)[i].name, c.self_name)]
GetterResults(c) ==
  [i \in DOMAIN Props(c.cls) |->
     Translate(Props(c.cls)[i].fget, GetterName(Props(c.cls)[i].name), c.self_name)]
SetterResults(c) ==
  [i \in DOMAIN Props(c.cls) |->
     IF Props(c.cls)[i].fset = NoFn THEN Ok(NoNode)
     ELSE Translate(Props(c.cls)[i].fset, SetterName(Props(c.cls)[i].name), c.self_name)]

\* The class with every member in place, from the members' results
WholeClass(c, ms, gs, ss) ==
  Node("ClassDef", "", c.self_name,
       <<ListView([i \in DOMAIN ms |-> ms[i].ir]),
         ListView([i \in DOMAIN gs |->
                     Node("Property", "", Props(c.cls)[i].name, <<gs[i].ir, ss[i].ir>>)])>>)

\* The admissible outcomes: the whole class, or one failing member's error
OutcomesOf(c, ms, gs, ss) ==
  LET units == Range(ms) \cup Range(gs) \cup Range(ss)
  IN IF \A r \in units : r.ok THEN {Ok(WholeClass(c, ms, gs, ss))}
     ELSE {Raise(r.err) : r \in {u \in units : ~u.ok}}
Outcomes(c) == OutcomesOf(c, MethodResults(c), GetterResults(c), SetterResults(c))

Init ==
  /\ call \in Calls
  /\ done = FALSE
  /\ result = Ok(NoNode)

TranslateClass ==
  /\ ~done
  /\ done' = TRUE
  /\ result' \in Outcomes(call)
  /\ UNCHANGED call

Next == TranslateClass

\* Translation of a class always completes (spec 5: bounded time, no
\* suspension).
Spec == Init /\ [][Next]_vars /\ WF_vars(Next)

=============================================================================
