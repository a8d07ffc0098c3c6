--------------------------- MODULE MCSourceRanges ---------------------------
(***************************************************************************)
(* Model-checking instance of SourceRanges: a function, or a class with   *)
(* one method,                                                             *)
(*                                                                         *)
(*     @d ...                 @d ...        (no decorator, one, a          *)
(*     def f(<params>):       class C:       two-line one, two)            *)
(*         <body>                 def f():                                 *)
(*                                    <body>                               *)
(*                                                                         *)
(* at module level or indented by four, where <params> is empty, x, *a   *)
(* or **k, and <body> is `return <expr>`,                                 *)
(* <expr> an attribute x.y with or without parentheses around x and       *)
(* spaces around the dot, a number literal in one of its spellings, or    *)
(* [x for x in y]; or a body no handler takes: `global x`, `import x`, a  *)
(* nested `def g(): pass`, `return lambda: x`.  The AST positions are      *)
(* those ast.parse gives the dedented text under PyVersion.               *)
(***************************************************************************)
EXTENDS SourceRanges

DefOpen == <<"d", "e", "f", " ", "f", "(">>
ClassLine == <<"c", "l", "a", "s", "s", " ", "C", ":">>
Indent4 == <<" ", " ", " ", " ">>
ReturnPrefix == <<" ", " ", " ", " ", "r", "e", "t", "u", "r", "n", " ">>

\* Decorators, as the lines they take
OneLine == <<<<"@", "d">>>>
TwoLines == <<<<"@", "d", "(">>, <<")">>>>
Decorators == {<<>>, <<OneLine>>, <<TwoLines>>, <<OneLine, OneLine>>}

\* The value ast.parse gives a number spelling: hex, decimal with
\* underscores, or a float (integral mantissa, optional exponent)
Digits(cs) == FoldLeft(LAMBDA acc, c : acc * 10 + DigitValue(c), 0, SelectSeq(cs, LAMBDA c : c # "_"))
HexDigits(cs) == FoldLeft(LAMBDA acc, c : acc * 16 + DigitValue(c), 0, cs)
LiteralValue(sp) ==
  LET dot == SelectInSeq(sp, LAMBDA c : c = ".")
      ex == SelectInSeq(sp, LAMBDA c : c = "e")
      mantissa == SubSeq(sp, 1, IF dot > 0 THEN dot - 1 ELSE IF ex > 0 THEN ex - 1 ELSE Len(sp))
  IN CASE Len(sp) > 2 /\ sp[2] = "x" -> [float |-> FALSE, n |-> HexDigits(SubSeq(sp, 3, Len(sp)))]
       [] dot = 0 /\ ex = 0 -> [float |-> FALSE, n |-> Digits(sp)]
       [] OTHER -> [float |-> TRUE,
                    n |-> Digits(mantissa) * 10 ^ (IF ex > 0 THEN Digits(SubSeq(sp, ex + 1, Len(sp))) ELSE 0)]
Spellings == {<<"7">>, <<"0", "x", "1", "f">>, <<"1", "_", "0", "0">>, <<"2", ".">>, <<"1", "e", "3">>, <<"2", ".", "0">>}

Name(line, col, id) == [k |-> "Name", lineno |-> line, col_offset |-> col, id |-> id]

\* An expression, its characters, and its AST placed at (line, col)
\*   (x) . y with the parentheses and the spaces optional
AttrChars(p, g1, g2) ==
  (IF p THEN <<"(", "x", ")">> ELSE <<"x">>) \o g1 \o <<".">> \o g2 \o <<"y">>
AttrNode(p, g1, g2, line, col) ==
  [k |-> "Attribute", lineno |-> line, col_offset |-> col,
   value |-> Name(line, IF p THEN col + 1 ELSE col, <<"x">>), attr |-> <<"y">>,
   attr_at |-> At(line, col + Len(AttrChars(p, g1, g2)) - 1)]
\*   [x for x in y]
CompChars == <<"[", "x", " ", "f", "o", "r", " ", "x", " ", "i", "n", " ", "y", "]">>
CompNode(line, col) ==
  [k |-> "ListComp", lineno |-> line, col_offset |-> col, elt |-> Name(line, col + 1, <<"x">>),
   target |-> Name(line, col + 7, <<"x">>), iter |-> Name(line, col + 12, <<"y">>)]
NumNode(sp, line, col) == [k |-> "Num", lineno |-> line, col_offset |-> col, n |-> LiteralValue(sp)]
\*   'a', and '''a<newline>    b''' whose node before 3.8 (bpo-16806) carries
\*   the string's last line and column -1
StrNode(multi, line, col) ==
  [k |-> "Str", lineno |-> IF multi /\ PyVersion < 38 THEN line + 1 ELSE line,
   col_offset |-> IF multi /\ PyVersion < 38 THEN -1 ELSE col, at |-> At(line, col)]
MultiStrLines == <<<<"'", "'", "'", "a">>, Indent4 \o <<"b", "'", "'", "'">>>>
\*   [x], ..., None
ListNode(line, col) == [k |-> "List", lineno |-> line, col_offset |-> col, elts |-> <<Name(line, col + 1, <<"x">>)>>]
Leaf(kind, line, col) == [k |-> kind, lineno |-> line, col_offset |-> col, value |-> <<"N", "o", "n", "e">>]

\* The expressions: an attribute layout, a number spelling, the comprehension
Exprs ==
  {[k |-> "attr", p |-> p, g1 |-> g1, g2 |-> g2] : p \in BOOLEAN, g1 \in {<<>>, <<" ">>}, g2 \in {<<>>, <<" ">>}}
  \cup {[k |-> "num", sp |-> sp] : sp \in Spellings}
  \cup {[k |-> "comp"], [k |-> "str"], [k |-> "mstr"], [k |-> "list"], [k |-> "dots"], [k |-> "none"]}
ExprLines(e) ==
  CASE e.k = "attr" -> <<AttrChars(e.p, e.g1, e.g2)>> [] e.k = "num" -> <<e.sp>>
    [] e.k = "comp" -> <<CompChars>> [] e.k = "str" -> <<<<"'", "a", "'">>>>
    [] e.k = "mstr" -> MultiStrLines [] e.k = "list" -> <<<<"[", "x", "]">>>>
    [] e.k = "dots" -> <<<<".", ".", ".">>>> [] e.k = "none" -> <<<<"N", "o", "n", "e">>>>
ExprNode(e, l, c) ==
  CASE e.k = "attr" -> AttrNode(e.p, e.g1, e.g2, l, c) [] e.k = "num" -> NumNode(e.sp, l, c)
    [] e.k = "comp" -> CompNode(l, c) [] e.k \in {"str", "mstr"} -> StrNode(e.k = "mstr", l, c)
    [] e.k = "list" -> ListNode(l, c) [] e.k = "dots" -> Leaf("Ellipsis", l, c)
    [] e.k = "none" -> Leaf("NameConstant", l, c)

\* Bodies no handler takes, with their characters and AST placed at (line, col)
Refusals ==
  {[k |-> "Global", chars |-> <<"g", "l", "o", "b", "a", "l", " ", "x">>, dc |-> 0],
   [k |-> "Import", chars |-> <<"i", "m", "p", "o", "r", "t", " ", "x">>, dc |-> 0],
   [k |-> "FunctionDef", chars |-> <<"d", "e", "f", " ", "g", "(", ")", ":", " ", "p", "a", "s", "s">>, dc |-> 0],
   [k |-> "Lambda", chars |-> <<"r", "e", "t", "u", "r", "n", " ", "l", "a", "m", "b", "d", "a", ":", " ", "x">>, dc |-> 7]}
RefusalNode(b, line, col) == [k |-> b.k, lineno |-> line, col_offset |-> col + b.dc]

\* A body's lines (dedented), and its AST placed on the given line
BodyLines(b) ==
  IF b \in Refusals THEN <<Indent4 \o b.chars>>
  ELSE LET ls == ExprLines(b) IN [i \in DOMAIN ls |-> IF i = 1 THEN ReturnPrefix \o ls[1] ELSE ls[i]]
BodyNode(b, line) == IF b \in Refusals THEN RefusalNode(b, line, 4) ELSE ExprNode(b, line, Len(ReturnPrefix))
Bodies == Exprs \cup Refusals

\* Parameter lists: none, x, *a, **k; ast.arg places a parameter at its
\* name, after the stars, while the parameter's token starts at the first
ParamLists == {<<>>, <<"x">>, <<"*", "a">>, <<"*", "*", "k">>}
Stars(ps) == Len(SelectSeq(ps, LAMBDA c : c = "*"))
ArgNode(ps, line) ==
  [lineno |-> line, col_offset |-> Len(DefOpen) + Stars(ps), arg |-> SubSeq(ps, Stars(ps) + 1, Len(ps)),
   at |-> At(line, Len(DefOpen))]
DefLine(ps) == DefOpen \o ps \o <<")", ":">>

\* The header of a decorated def or class whose keyword is on line kwline:
\* before 3.8 ast.parse gives a decorated node the first decorator's line
Header(decs, kwline) ==
  [lineno |-> IF PyVersion >= 38 \/ decs = <<>> THEN kwline ELSE 1,
   col_offset |-> 0, decorators |-> Len(decs), at |-> At(kwline, 0)]

\* build_def's arguments: ordinary, *vararg, **kwarg
DefHeader(decs, ps, kwline) ==
  LET a == ArgNode(ps, kwline)
  IN Header(decs, kwline)
     @@ [args |-> IF ps # <<>> /\ Stars(ps) = 0 THEN <<a>> ELSE <<>>,
         vararg |-> IF Stars(ps) = 1 THEN {a} ELSE {},
         kwarg |-> IF Stars(ps) = 2 THEN {a} ELSE {}]

\* A function: decorators, the def line, the body line
FunctionUnit(decs, ps, b, k) ==
  LET dl == FlattenSeq(decs)
  IN [kind |-> "def", lines |-> dl \o <<DefLine(ps)>> \o BodyLines(b), indent |-> k,
      def |-> DefHeader(decs, ps, Len(dl) + 1), body |-> BodyNode(b, Len(dl) + 2)]

\* A class: decorators, the class line, its method; the method's own source
\* (inspect.getsource) is its two lines, four further in
ClassUnit(decs, b, k) ==
  LET dl == FlattenSeq(decs)
      method == FunctionUnit(<<>>, <<>>, b, k + 4)
  IN [kind |-> "class", indent |-> k,
      lines |-> dl \o <<ClassLine>> \o [i \in DOMAIN method.lines |-> Indent4 \o method.lines[i]],
      cls |-> Header(decs, Len(dl) + 1), method |-> method]

MCUnits ==
  {FunctionUnit(decs, ps, b, k) : decs \in Decorators, ps \in ParamLists, b \in Bodies, k \in {0, 4}}
  \cup {ClassUnit(decs, b, k) : decs \in Decorators, b \in Bodies, k \in {0, 4}}

-----------------------------------------------------------------------------
\* Every range translation produced is a non-empty sub-range of its source
\* text that starts at its token (spec section 8, and 4.1 for a refusal:
\* the node's start), for the ranges build_Name, build_Attribute,
\* build_Num, build_ListComp, build_def, build_class_def and
\* UnsupportedNodeError compute.
RangesAtTokens ==
  \A p \in ranges :
    /\ p.range.start = TokenOffset(p.ctx, p.at)
    /\ p.range.start < p.range.end
    /\ p.range.end <= Len(p.ctx.source)

=============================================================================
