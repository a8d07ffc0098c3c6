------------------------------ MODULE Frontend ------------------------------
(***************************************************************************)
(* get_jit_def as a state machine: a caller hands one function, the name  *)
(* to give its Def and the self_name of its class, and the frontend        *)
(* returns the Def or raises.  The translation is one synchronous call    *)
(* with no state shared with anything else, so it is one step.            *)
(***************************************************************************)
EXTENDS DefBuilder

CONSTANT
  Calls          \* [fn, def_name, self_name] records get_jit_def is called with

VARIABLES
  call,          \* the arguments of the get_jit_def call
  done,          \* get_jit_def has returned or raised
  result         \* the Def built, or the exception raised

vars == <<call, done, result>>

Init ==
  /\ call \in Calls
  /\ done = FALSE
  /\ result = Ok(NoNode)

\* get_jit_def(fn, def_name, self_name), the whole call in one step
GetJitDef ==
  /\ ~done
  /\ done' = TRUE
  /\ result' = get_jit_def(call.fn, call.def_name, call.self_name)
  /\ UNCHANGED call

Next == GetJitDef

Spec == Init /\ [][Next]_vars

=============================================================================
