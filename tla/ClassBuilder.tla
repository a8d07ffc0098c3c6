---------------------------- MODULE ClassBuilder ----------------------------
(***************************************************************************)
(* get_jit_class_def, get_class_properties and build_class_def of         *)
(* torch/jit/frontend.py.  The methods are picked by inspect.getmembers   *)
(* with the code's predicate and translated one by one, in name order, by *)
(* get_jit_def; then each property's getter and setter; then the ClassDef *)
(* is assembled.  One step is one element of the list comprehension, one  *)
(* iteration of the property loop, or the final assembly; the first       *)
(* exception escapes and ends the call.                                    *)
(*                                                                         *)
(* A class is a function from the attribute names MemberOrder lists (in   *)
(* the sorted order getmembers returns them) to what getattr(cls, name)   *)
(* finds: kind "none" (no such attribute), "function" (a def, or an alias *)
(* of one), "static" (a staticmethod), "property" or "data"; own (the     *)
(* name is in cls.__dict__, not inherited); fname (the function's         *)
(* __name__); fn (the function, or a property's fget) and fset.  A name  *)
(* handed to the builders is a sequence of tokens, as everywhere else.    *)
(***************************************************************************)
EXTENDS DefBuilder

CONSTANTS
  MemberOrder,   \* the attribute names, sorted
  NoFn,          \* fset of a property that has no setter
  Calls          \* [cls, self_name] records get_jit_class_def is called with

VARIABLES
  call,          \* the arguments of get_jit_class_def
  methods,       \* the method Defs built so far
  properties,    \* the Property nodes built so far
  done,          \* the call has returned or raised
  result         \* the ClassDef, or the exception

vars == <<call, methods, properties, done, result>>

-----------------------------------------------------------------------------
(* Introspection, as the code asks for it.                                 *)

\* inspect.getmembers(cls, predicate): the attributes, in sorted order,
\* that satisfy the predicate (given as the set of names it holds for)
GetMembers(cls, sat) == SelectSeq(MemberOrder, LAMBDA n : cls[n].kind # "none" /\ n \in sat)

\* is_static_fn(cls, name): getattr_static finds a staticmethod under name
is_static_fn(cls, name) == cls[name].kind = "static"

\* name in cls.__dict__
InDict(cls, name) == cls[name].kind # "none" /\ cls[name].own

\* get_jit_class_def's predicate: a function or method, whose __name__ is
\* not static and is in cls.__dict__
IsOwnMethod(cls, n) ==
  /\ cls[n].kind \in {"function", "static"}
  /\ ~is_static_fn(cls, cls[n].fname)
  /\ InDict(cls, cls[n].fname)

SelectedMethods(cls) ==
  LET ns == GetMembers(cls, {n \in DOMAIN cls : IsOwnMethod(cls, n)})
  IN [i \in DOMAIN ns |-> [name |-> <<ns[i]>>, fn |-> cls[ns[i]].fn]]

\* get_class_properties: getmembers(cls, isinstance(m, property))
ClassProperties(cls) ==
  LET ns == GetMembers(cls, {n \in DOMAIN cls : cls[n].kind = "property"})
  IN [i \in DOMAIN ns |-> [name |-> <<ns[i]>>, fget |-> cls[ns[i]].fn, fset |-> cls[ns[i]].fset]]

\* f"__{prop[0]}_getter" and f"__{prop[0]}_setter"
GetterName(n) == <<"__">> \o n \o <<"_getter">>
SetterName(n) == <<"__">> \o n \o <<"_setter">>

\* The get_jit_def calls a class makes: one per method, one per getter,
\* one per setter
Unit(fn, name, self_name) == [fn |-> fn, name |-> name, self_name |-> self_name]
UnitsOf(c) ==
  {Unit(m.fn, m.name, c.self_name) : m \in Range(SelectedMethods(c.cls))}
  \cup {Unit(p.fget, GetterName(p.name), c.self_name) : p \in Range(ClassProperties(c.cls))}
  \cup {Unit(p.fset, SetterName(p.name), c.self_name) :
          p \in {q \in Range(ClassProperties(c.cls)) : q.fset # NoFn}}

\* get_jit_def is a pure function of its arguments: its result for every
\* call some class makes, computed once
JitDefTable == [u \in UNION {UnitsOf(c) : c \in Calls} |-> get_jit_def(u.fn, u.name, u.self_name)]
JitDef(fn, name, self_name) == JitDefTable[Unit(fn, name, self_name)]

-----------------------------------------------------------------------------
Init ==
  /\ call \in Calls
  /\ methods = <<>>
  /\ properties = <<>>
  /\ done = FALSE
  /\ result = Ok(NoNode)

\* Mutation: the result kept whether or not it translated.
MethodBuilt_unchecked(r) == methods' = Append(methods, r.ir) /\ UNCHANGED <<done, result>>

\* A translated method is kept; an exception escapes get_jit_class_def.
MethodBuilt(r) ==
  IF r.ok THEN methods' = Append(methods, r.ir) /\ UNCHANGED <<done, result>>
  ELSE done' = TRUE /\ result' = r /\ UNCHANGED methods

\* [get_jit_def(method[1], method[0], self_name=self_name) for method in
\* methods]: the next element
TranslateMethod ==
  /\ ~done
  /\ Len(methods) < Len(SelectedMethods(call.cls))
  /\ LET m == SelectedMethods(call.cls)[Len(methods) + 1]
     IN MethodBuilt(JitDef(m.fn, m.name, call.self_name))
  /\ UNCHANGED <<call, properties>>

\* Mutation: the setter's exception lost.
PropertyBuilt_nosetter(name, g, s) ==
  IF ~g.ok THEN done' = TRUE /\ result' = g /\ UNCHANGED properties
  ELSE properties' = Append(properties, Node("Property", "", name, <<g.ir, s.ir>>))
       /\ UNCHANGED <<done, result>>

\* The getter is built first; if it raises, the setter is never built.
PropertyBuilt(name, g, s) ==
  CASE ~g.ok -> done' = TRUE /\ result' = g /\ UNCHANGED properties
    [] ~s.ok -> done' = TRUE /\ result' = s /\ UNCHANGED properties
    [] OTHER -> /\ properties' = Append(properties, Node("Property", "", name, <<g.ir, s.ir>>))
                /\ UNCHANGED <<done, result>>

\* One iteration of get_class_properties' loop, once every method is built
TranslateProperty ==
  /\ ~done
  /\ Len(methods) = Len(SelectedMethods(call.cls))
  /\ Len(properties) < Len(ClassProperties(call.cls))
  /\ LET p == ClassProperties(call.cls)[Len(properties) + 1]
     IN PropertyBuilt(p.name, JitDef(p.fget, GetterName(p.name), call.self_name),
                      IF p.fset # NoFn THEN JitDef(p.fset, SetterName(p.name), call.self_name)
                      ELSE Ok(NoNode))
  /\ UNCHANGED <<call, methods>>

\* build_class_def: ClassDef(Ident(r, self_name), [Stmt(m) for m in
\* methods], properties)
BuildClassDef ==
  /\ ~done
  /\ Len(methods) = Len(SelectedMethods(call.cls))
  /\ Len(properties) = Len(ClassProperties(call.cls))
  /\ done' = TRUE
  /\ result' = Ok(Node("ClassDef", "", call.self_name, <<ListView(methods), ListView(properties)>>))
  /\ UNCHANGED <<call, methods, properties>>

Next == TranslateMethod \/ TranslateProperty \/ BuildClassDef

\* get_jit_class_def is one sequential call: whichever step is next stays
\* enabled until it is taken.
Fairness == WF_vars(TranslateMethod) /\ WF_vars(TranslateProperty) /\ WF_vars(BuildClassDef)

Spec == Init /\ [][Next]_vars /\ Fairness

-----------------------------------------------------------------------------
(* The refinement: the step-by-step builder implements the all-or-nothing *)
(* translation of the introspected members.                               *)

CT == INSTANCE ClassTranslation WITH
        Methods <- SelectedMethods, Props <- ClassProperties, Translate <- JitDef

=============================================================================
