---------------------------- MODULE SourceRanges ----------------------------
(***************************************************************************)
(* The source ranges torch/jit/frontend.py attaches to what it builds.     *)
(* get_jit_def joins the source lines, dedents them for ast.parse and     *)
(* remembers how much indentation it removed; SourceContext.make_range    *)
(* turns an AST (line, column) pair into raw offsets of the original      *)
(* text, and make_raw_range takes offsets as they are.  The handlers      *)
(* compute the columns: a name spans len(id); an attribute name is found  *)
(* by scanning the raw text from one past the base's end; a number spans  *)
(* len(str(n)); a list comprehension spans nothing; a string or list one *)
(* character, an ellipsis three, True or None its spelling; a def spans   *)
(* "def" on                                                                *)
(* line lineno + len(decorator_list); a class spans "class" on line      *)
(* lineno; a parameter spans its name, and a refused *args or **kwargs   *)
(* the name and one column before it; a node no handler takes spans its   *)
(* start token, or one                                                     *)
(* character (UnsupportedNodeError).  A class's methods are translated    *)
(* from their own source, so each range belongs to the context of its     *)
(* source text.                                                            *)
(*                                                                         *)
(* Text is a sequence of one-character strings; offsets are 0-based, as   *)
(* in the code, so the character at offset o is text[o + 1].  AST nodes    *)
(* are records carrying the lineno and col_offset ast.parse gives them;   *)
(* a token's place in the text (a record [line, col] in dedented          *)
(* coordinates) is the grammar's location the properties compare with.    *)
(***************************************************************************)
EXTENDS Integers, Sequences, SequencesExt

CONSTANTS
  PyVersion,   \* 37 or 38: where ast.parse puts a decorated def's lineno
  Units        \* the functions [kind |-> "def", lines, indent, def, body] and
               \* classes [kind |-> "class", lines, indent, cls, method] translated

ASSUME PyVersion \in {37, 38}

VARIABLES
  unit,        \* the function get_jit_def is called with
  ranges,      \* the ranges its translation produced: [ctx, range, at]
  done

vars == <<unit, ranges, done>>

-----------------------------------------------------------------------------
(* The source context (get_jit_def, lines 194-202).                        *)

\* string.whitespace, as far as TLA+ strings spell it (\x0b left out)
Whitespace == {" ", "\t", "\n", "\r", "\f"}

Spaces(k) == [i \in 1..k |-> " "]

\* ''.join(sourcelines): every line ends with a newline
Joined(lines) == FlattenSeq([i \in DOMAIN lines |-> lines[i] \o <<"\n">>])

\* textwrap.dedent: the longest run of spaces every non-blank line starts
\* with is removed from each line
LeadingSpaces(l) == LET i == SelectInSeq(l, LAMBDA c : c # " ") IN IF i = 0 THEN Len(l) ELSE i - 1
Margin(lines) ==
  Min({LeadingSpaces(lines[i]) : i \in {j \in DOMAIN lines : \E c \in Range(lines[j]) : c \notin Whitespace}})
dedent(lines) == [i \in DOMAIN lines |-> SubSeq(lines[i], Margin(lines) + 1, Len(lines[i]))]

\* The original lines of a unit: the dedented text indented by unit.indent
SourceLines(u) == [i \in DOMAIN u.lines |-> Spaces(u.indent) \o u.lines[i]]

\* SourceContext(source, ..., leading_whitespace_len): the first line's
\* length in the source minus its length after dedent
Context(u) ==
  LET src == SourceLines(u)
  IN [source |-> Joined(src), lw |-> Len(src[1]) - Len(dedent(src)[1])]

-----------------------------------------------------------------------------
(* SourceRangeFactory (torch._C): lines count from 1, columns are shifted *)
(* by the leading whitespace, a line the text does not have has no       *)
(* offset.                                                                 *)

NoRange == [start |-> -1, end |-> -1]
make_raw_range(s, e) == [start |-> s, end |-> e]

Newlines(text) == SetToSortSeq({o \in 1..Len(text) : text[o] = "\n"}, <)
LineStart(text, line) == IF line = 1 THEN 0 ELSE Newlines(text)[line - 1]
make_range(ctx, line, c0, c1) ==
  IF line < 1 \/ line - 1 > Len(Newlines(ctx.source)) THEN NoRange
  ELSE make_raw_range(LineStart(ctx.source, line) + ctx.lw + c0,
                      LineStart(ctx.source, line) + ctx.lw + c1)

\* The raw offset of a token the grammar places at (line, col)
TokenOffset(ctx, at) == LineStart(ctx.source, at.line) + ctx.lw + at.col

-----------------------------------------------------------------------------
(* str(n) of the value ast.parse gives a literal: decimal digits, and      *)
(* ".0" after an integral float.                                           *)

DigitChars == <<"0", "1", "2", "3", "4", "5", "6", "7", "8", "9", "a", "b", "c", "d", "e", "f">>
DigitValue(c) == SelectInSeq(DigitChars, LAMBDA d : d = c) - 1

RECURSIVE Decimal(_)
Decimal(n) == IF n < 10 THEN <<DigitChars[n + 1]>> ELSE Decimal(n \div 10) \o <<DigitChars[(n % 10) + 1]>>

\* str(expr.n)
PyStr(v) == IF v.float THEN Decimal(v.n) \o <<".", "0">> ELSE Decimal(v.n)

-----------------------------------------------------------------------------
(* The ranges of the handlers.                                             *)

\* A produced range, the context it is an offset into, and where the
\* grammar puts its token
Produced(ctx, r, at) == [ctx |-> ctx, range |-> r, at |-> at]
At(line, col) == [line |-> line, col |-> col]

\* build_Name: make_range(lineno, col_offset, col_offset + len(id))
NameRange(ctx, e) == make_range(ctx, e.lineno, e.col_offset, e.col_offset + Len(e.id))

\* build_Attribute: start_pos = base.range().end + 1, then skip the
\* whitespace get_char finds; a scan past the text raises IndexError
RECURSIVE SkipWhitespace(_, _)
SkipWhitespace(src, pos) ==
  IF pos >= Len(src) THEN -1
  ELSE IF src[pos + 1] \in Whitespace THEN SkipWhitespace(src, pos + 1) ELSE pos
AttributeNameRange(ctx, base, e) ==
  LET start_pos == SkipWhitespace(ctx.source, base.end + 1)
  IN IF base = NoRange \/ start_pos < 0 THEN NoRange
     ELSE make_raw_range(start_pos, start_pos + Len(e.attr))

\* build_Num: value = str(expr.n), sized by len(value)
NumRange(ctx, e) == make_range(ctx, e.lineno, e.col_offset, e.col_offset + Len(PyStr(e.n)))

\* build_Str, build_List: one character; build_Ellipsis: three;
\* build_NameConstant: len(str(value))
StrRange(ctx, e) == make_range(ctx, e.lineno, e.col_offset, e.col_offset + 1)
ListRange(ctx, e) == make_range(ctx, e.lineno, e.col_offset, e.col_offset + 1)
EllipsisRange(ctx, e) == make_range(ctx, e.lineno, e.col_offset, e.col_offset + 3)
NameConstantRange(ctx, e) == make_range(ctx, e.lineno, e.col_offset, e.col_offset + Len(e.value))

\* build_ListComp: make_range(lineno, col_offset, col_offset)
ListCompRange(ctx, e) == make_range(ctx, e.lineno, e.col_offset, e.col_offset)

\* build_def: "def" on line lineno + len(decorator_list)
DefRange(ctx, d) ==
  make_range(ctx, d.lineno + d.decorators, d.col_offset, d.col_offset + Len("def"))

\* build_param: the name's span
ParamRange(ctx, a) == make_range(ctx, a.lineno, a.col_offset, a.col_offset + Len(a.arg))

\* build_param_list's refusal of *args or **kwargs: from one column before
\* the name to its end
VarargRange(ctx, a) == make_range(ctx, a.lineno, a.col_offset - 1, a.col_offset + Len(a.arg))

\* The refused variadic parameter, if any: kwarg is tested before vararg
Variadic(d) == IF d.kwarg # {} THEN d.kwarg ELSE d.vararg

\* build_class_def: "class" on line lineno
ClassRange(ctx, c) == make_range(ctx, c.lineno, c.col_offset, c.col_offset + Len("class"))

\* node_start_tokens, and its update with the Python 3 nodes
start_tokens_base ==
  [FunctionDef |-> "def", For |-> "for", Delete |-> "del", ClassDef |-> "class",
   With |-> "with", Raise |-> "raise", Assert |-> "assert", Import |-> "import",
   ImportFrom |-> "from", Global |-> "global", Break |-> "break", Continue |-> "continue"]
start_tokens_update ==
  [AsyncFunctionDef |-> "async def", AsyncFor |-> "async for", AsyncWith |-> "async with",
   Try |-> "try", Nonlocal |-> "nonlocal"]
node_start_tokens == start_tokens_base @@ start_tokens_update

\* UnsupportedNodeError: len(node_start_tokens.get(node_type, ' '))
\* characters from the node's start
UnsupportedNodeRange(ctx, s) ==
  LET range_len == IF s.k \in DOMAIN node_start_tokens THEN Len(node_start_tokens[s.k]) ELSE 1
  IN make_range(ctx, s.lineno, s.col_offset, s.col_offset + range_len)

\* The ranges build_expr attaches to an expression and its children
RECURSIVE ExprRanges(_, _)
ExprRanges(ctx, e) ==
  CASE e.k = "Name" -> {Produced(ctx, NameRange(ctx, e), At(e.lineno, e.col_offset))}
    [] e.k = "Attribute" ->
         ExprRanges(ctx, e.value)
         \cup {Produced(ctx, AttributeNameRange(ctx, NameRange(ctx, e.value), e), e.attr_at)}
    [] e.k = "Num" -> {Produced(ctx, NumRange(ctx, e), At(e.lineno, e.col_offset))}
    [] e.k = "Str" -> {Produced(ctx, StrRange(ctx, e), e.at)}
    [] e.k = "List" -> {Produced(ctx, ListRange(ctx, e), At(e.lineno, e.col_offset))} \cup UNION {ExprRanges(ctx, e.elts[i]) : i \in DOMAIN e.elts}
    [] e.k = "Ellipsis" -> {Produced(ctx, EllipsisRange(ctx, e), At(e.lineno, e.col_offset))}
    [] e.k = "NameConstant" -> {Produced(ctx, NameConstantRange(ctx, e), At(e.lineno, e.col_offset))}
    [] e.k = "ListComp" ->
         {Produced(ctx, ListCompRange(ctx, e), At(e.lineno, e.col_offset))}
         \cup ExprRanges(ctx, e.elt) \cup ExprRanges(ctx, e.target) \cup ExprRanges(ctx, e.iter)

\* A body whose statement (or returned expression) no handler takes
Refused(b) == b.k \notin {"Name", "Attribute", "Num", "ListComp", "Str", "List", "Ellipsis", "NameConstant"}

\* get_jit_def then build_def: the context, the def's range, the
\* parameters, then the body; a refusal raises, and only the diagnostic's
\* range escapes
DefRanges(u) ==
  LET ctx == Context(u)
  IN CASE Variadic(u.def) # {} -> {Produced(ctx, VarargRange(ctx, a), a.at) : a \in Variadic(u.def)}
       [] Refused(u.body) -> {Produced(ctx, UnsupportedNodeRange(ctx, u.body), At(u.body.lineno, u.body.col_offset))}
       [] OTHER -> {Produced(ctx, DefRange(ctx, u.def), u.def.at)}
                   \cup {Produced(ctx, ParamRange(ctx, a), a.at) : a \in Range(u.def.args)}
                   \cup ExprRanges(ctx, u.body)

\* get_jit_class_def: the method first, from its own source (its failure
\* escapes), then the class's context and build_class_def's range
ClassRanges(u) ==
  IF Refused(u.method.body) THEN DefRanges(u.method)
  ELSE DefRanges(u.method) \cup {Produced(Context(u), ClassRange(Context(u), u.cls), u.cls.at)}

-----------------------------------------------------------------------------
Init ==
  /\ unit \in Units
  /\ ranges = {}
  /\ done = FALSE

\* get_jit_def or get_jit_class_def, whole
Translate ==
  /\ ~done
  /\ done' = TRUE
  /\ ranges' = IF unit.kind = "def" THEN DefRanges(unit) ELSE ClassRanges(unit)
  /\ UNCHANGED unit

Next == Translate

Spec == Init /\ [][Next]_vars

=============================================================================
