--------------------------- MODULE ExprSemantics ---------------------------
(***************************************************************************)
(* Reference meanings against which the translation is checked, for the   *)
(* side-effect-free expressions over integer variables: PyEval evaluates  *)
(* a Python AST as CPython does, IREval evaluates a tree view as the       *)
(* TorchScript interpreter does.  Both return the value and the trace of  *)
(* variable reads, in order, so that an operand evaluated twice, or one   *)
(* evaluated although Python short-circuits past it, shows in the trace.  *)
(* Nothing here models frontend.py; these are the specifications.         *)
(***************************************************************************)
EXTENDS Integers, Sequences, SequencesExt

Digit(c) == CHOOSE d \in 0..9 : <<"0", "1", "2", "3", "4", "5", "6", "7", "8", "9">>[d + 1] = c

RECURSIVE DecimalValue(_)
DecimalValue(ds) ==
  IF ds = <<>> THEN 0 ELSE 10 * DecimalValue(Front(ds)) + Digit(Last(ds))

\* Python's comparison operators, by ast class name
PyRel(op, a, b) ==
  CASE op = "Lt"    -> a < b
    [] op = "LtE"   -> a <= b
    [] op = "Gt"    -> a > b
    [] op = "GtE"   -> a >= b
    [] op = "Eq"    -> a = b
    [] op = "NotEq" -> a # b
    [] op = "In"    -> \E i \in DOMAIN b : b[i] = a
    [] op = "NotIn" -> ~\E i \in DOMAIN b : b[i] = a

\* TorchScript's comparison operators, by tree-view token
IRRel(tok, a, b) ==
  CASE tok = "<"  -> a < b
    [] tok = "<=" -> a <= b
    [] tok = ">"  -> a > b
    [] tok = ">=" -> a >= b
    [] tok = "==" -> a = b
    [] tok = "!=" -> a # b
    [] tok = "in" -> \E i \in DOMAIN b : b[i] = a

Val(v, tr) == [val |-> v, tr |-> tr]

-----------------------------------------------------------------------------
(* Python: a chained comparison evaluates each operand once and stops at  *)
(* the first false link; and/or stop at the first deciding operand.       *)

RECURSIVE PyEval(_, _), PyEvalAll(_, _), PyChain(_, _, _, _, _), PyBool(_, _, _, _)

PyEvalAll(es, env) ==
  IF es = <<>> THEN Val(<<>>, <<>>)
  ELSE LET h == PyEval(Head(es), env)
           t == PyEvalAll(Tail(es), env)
       IN Val(<<h.val>> \o t.val, h.tr \o t.tr)

PyChain(ops, rest, prev, tr, env) ==
  IF ops = <<>> THEN Val(TRUE, tr)
  ELSE LET c == PyEval(Head(rest), env)
       IN IF ~PyRel(Head(ops), prev, c.val) THEN Val(FALSE, tr \o c.tr)
          ELSE PyChain(Tail(ops), Tail(rest), c.val, tr \o c.tr, env)

PyBool(op, es, tr, env) ==
  LET h == PyEval(Head(es), env)
  IN IF Len(es) = 1 \/ (op = "And" /\ ~h.val) \/ (op = "Or" /\ h.val)
     THEN Val(h.val, tr \o h.tr)
     ELSE PyBool(op, Tail(es), tr \o h.tr, env)

PyEval(e, env) ==
  CASE e.k = "Name"    -> Val(env[e.v], <<e.v>>)
    [] e.k = "Num"     -> Val(DecimalValue(e.v), <<>>)
    [] e.k = "List"    -> PyEvalAll(e.kids, env)
    [] e.k = "UnaryOp" ->
         LET s == PyEval(e.kids[1], env)
         IN Val(IF e.op = "Not" THEN ~s.val ELSE 0 - s.val, s.tr)
    [] e.k = "BinOp"   ->
         LET l == PyEval(e.kids[1], env)
             r == PyEval(e.kids[2], env)
         IN Val(IF e.op = "Add" THEN l.val + r.val ELSE l.val - r.val, l.tr \o r.tr)
    [] e.k = "BoolOp"  -> PyBool(e.op, e.kids, <<>>, env)
    [] e.k = "Compare" ->
         LET l == PyEval(e.kids[1], env)
         IN PyChain(e.v, Tail(e.kids), l.val, l.tr, env)
    [] e.k = "IfExp"   ->
         LET t == PyEval(e.kids[1], env)
             b == PyEval(e.kids[IF t.val THEN 2 ELSE 3], env)
         IN Val(b.val, t.tr \o b.tr)

-----------------------------------------------------------------------------
(* TorchScript: `and`/`or` short-circuit; every other node evaluates its  *)
(* operands left to right.                                                *)

RECURSIVE IREval(_, _), IREvalAll(_, _)

IREvalAll(irs, env) ==
  IF irs = <<>> THEN Val(<<>>, <<>>)
  ELSE LET h == IREval(Head(irs), env)
           t == IREvalAll(Tail(irs), env)
       IN Val(<<h.val>> \o t.val, h.tr \o t.tr)

IREval(ir, env) ==
  CASE ir.k = "Var"         -> Val(env[ir.v], <<ir.v>>)
    [] ir.k = "Const"       -> Val(DecimalValue(ir.v), <<>>)
    [] ir.k = "ListLiteral" -> IREvalAll(ir.kids, env)
    [] ir.k = "UnaryOp"     ->
         LET s == IREval(ir.kids[1], env)
         IN Val(IF ir.op = "not" THEN ~s.val ELSE 0 - s.val, s.tr)
    [] ir.k = "BinOp" /\ ir.op \in {"and", "or"} ->
         LET l == IREval(ir.kids[1], env)
             r == IREval(ir.kids[2], env)
         IN IF (ir.op = "and") = l.val THEN Val(r.val, l.tr \o r.tr) ELSE l
    [] ir.k = "BinOp"       ->
         LET l == IREval(ir.kids[1], env)
             r == IREval(ir.kids[2], env)
             v == CASE ir.op = "+" -> l.val + r.val
                    [] ir.op = "-" -> l.val - r.val
                    [] OTHER       -> IRRel(ir.op, l.val, r.val)
         IN Val(v, l.tr \o r.tr)
    [] ir.k = "TernaryIf"   ->
         LET t == IREval(ir.kids[1], env)
             b == IREval(ir.kids[IF t.val THEN 2 ELSE 3], env)
         IN Val(b.val, t.tr \o b.tr)

-----------------------------------------------------------------------------
(* The format the IR's call runs: TorchScript's aten::format (torch._C,  *)
(* register_prim_ops), not Python's str.format.  It finds each "{}" from *)
(* left to right and puts the next argument in its place, copies every    *)
(* other character, braces included, and fails with "Too few arguments   *)
(* for format string" when a "{}" is left without one.                    *)

RECURSIVE StrFormat(_, _, _)
StrFormat(t, args, out) ==
  CASE t = <<>> -> [ok |-> TRUE, out |-> out]
    [] Len(t) >= 2 /\ t[1] = "{" /\ t[2] = "}" ->
         IF args = <<>> THEN [ok |-> FALSE, out |-> out]
         ELSE StrFormat(Tail(Tail(t)), Tail(args), out \o Head(args))
    [] OTHER -> StrFormat(Tail(t), args, Append(out, t[1]))

\* The text Python's f-string produces: the literal parts (already
\* unescaped by the parser) and str() of each value, here the variable's
\* name standing for its printed form.
RECURSIVE FStringText(_)
FStringText(values) ==
  IF values = <<>> THEN <<>>
  ELSE (IF Head(values).k = "FormattedValue" THEN Head(values).kids[1].v ELSE Head(values).v)
       \o FStringText(Tail(values))

=============================================================================
