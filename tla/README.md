# TLA+ models of the TorchScript frontend (`torch/jit/frontend.py`)

The repository's one source file, `src/pytorch-frontend/torch/jit/frontend.py`,
translates the Python AST of a function or class into the TorchScript tree
view (the "IR"). It refuses constructs outside the compiled subset with a
diagnostic. This directory holds TLA+ models of that translator, the TLC
configurations that check them, and (in `PROJECT.json`) the map from every
modelled definition to the source lines it stands for.

## 1. Inventory

The translator is single-threaded and pure. It has no shared mutable state,
no I/O after the source has been fetched, and no concurrency, so the hard
behaviours are not interleavings. They are the order in which handlers build
children and check shapes, the desugarings, the text scans that recover
locations, and the exceptions that escape.

| Component | Source | State it keeps | Operations |
|---|---|---|---|
| Dispatcher | `Builder.__call__` (218-223), `UnsupportedNodeError` (104-114) | none | look up `build_<Kind>`; raise `UnsupportedNodeError` on a miss |
| ExpressionBuilder | `ExprBuilder` (440-754) | static tables `binop_map`, `unop_map`, `boolop_map`, `cmpop_map` | one `build_*` per expression kind |
| StatementBuilder | `StmtBuilder` (314-438), `build_stmts` (126-128), `WithItemBuilder` (302-311) | static `augassign_map` | one `build_*` per statement kind; docstrings dropped |
| ParamList / Decl | `build_param_list`, `build_param` (256-287) | none | refuse `*args`, `**kw` and defaulted keyword-only parameters; type `self` |
| DefBuilder | `get_jit_def` (179-215), `build_def` (232-249) | the parsed `FunctionDef`, rewritten in place for `@unused` functions | build one `Def` |
| ClassBuilder | `get_jit_class_def` (155-176), `get_class_properties` (131-152), `build_class_def` (226-229) | the lists of built methods and properties | select own non-static methods, build each, assemble a `ClassDef` |
| SourceContext / ranges | `make_range` calls throughout; `build_Attribute` scan (487-496); `find_before` (760-762) | the immutable source text and offsets | map line/column to ranges; scan the text for the attribute name and for `=` |
| Errors | `FrontendError` and its subclasses (87-118) | range and message | raised and propagated unchanged; the first aborts the unit |
| External | `get_source_lines_and_file`, `dedent`, `torch._C` tree views, `parse_type_comment`, `merge_type_from_type_comment`, `should_drop`, `is_static_fn` | - | outside this repository; only their use is modelled |

How the components interact. `get_jit_def` and `get_jit_class_def` fetch the
source, parse it, build a `SourceContext` and call `build_def` or
`build_class_def`. `build_def` calls the parameter builders and `build_expr`
for annotations, then `build_stmts` for the body. Statement handlers call
`build_expr` and, for nested blocks, `build_stmts`. Every handler is a direct
recursive call. An exception raised anywhere unwinds the whole unit, and a
class unwinds at its first failing member.

Hard behaviours, each listed with its line under `hazards` in
`PROJECT.json`:

- **Build order against checks.** Handlers build children first and check
  the node's own shape afterwards, except `BoolOp` and `ListComp`, which check
  first. `build_UnaryOp` uses `len(op_token)` before it checks for `None`.
- **Desugarings.** Comparison chains become and-chains. Here the middle
  operand is built once and used twice. and/or chains become left folds,
  `not in` becomes `not (in)`, and f-strings become `template.format(args)`.
- **Python `None` reaching `build_expr`.** This happens for a dict `**` key
  and for a bare `raise`. The error constructor itself then fails.
- **Text scans.** The attribute-name range, and the `=` of an unsupported
  augmented assignment (`find_before`).
- **Python-version dependence.** On 3.8, literals parse to `Constant`. The
  docstring test by class name `Str` then fails, and `FunctionDef.lineno`
  changes meaning.
- **The `@unused` rewrite.** It must happen before parameters are built, and
  it leaves `kw_defaults` and `returns` in place.
- **Class assembly.** Members are selected by `m.__name__`. The first failing
  member aborts the class.

Properties that make each component correct:

- ExpressionBuilder:
  - It accepts exactly the supported subset.
  - Every refusal is a `FrontendError`.
  - The IR means what the Python means, with the same value and the same
    evaluation of operands.
  - An f-string's template prints the same text.
- StatementBuilder:
  - Docstrings are dropped.
  - Refusals carry the promised ranges.
  - Nested blocks translate statement by statement.
- DefBuilder: an `@unused` function always translates, and the def range
  points at `def`.
- ClassBuilder: the class contains every own non-static method and every
  property, or nothing is returned.
- Ranges: every range is non-empty, lies inside the source, and starts at the
  token it names.

## 2. Plan

Modules, in the order they are built (the most important behaviour first):

1. `ExprBuilder` (done) holds the expression handlers and the dispatcher.
   `ExprSemantics` holds reference meanings: Python evaluation of the AST,
   TorchScript evaluation of the IR, and TorchScript's `format`
   (`aten::format`, which substitutes each `{}` in turn and copies every
   other character; it is in `torch._C`, so it is modelled from its
   behaviour, not from this repository). `MCExprBuilder` is the
   instance TLC checks.
2. `StmtBuilder` (done) extends `ExprBuilder` with the statement handlers,
   `build_stmts` and with-items. Runs:
   - docstrings are dropped (a violation on 3.8);
   - every refusal is a diagnostic (bare `raise`).
3. `DefBuilder` (done) covers `build_param_list`, `build_param`, `build_def` and the
   `@unused` rewrite of `get_jit_def`. It takes the Python version (3.7 or
   3.8) as a constant. `Frontend` makes `get_jit_def` a state machine and
   `MCFrontend` instantiates it. Runs:
   - an `@unused` function always translates;
   - the parameter list order and the `self` typing.
4. `ClassBuilder` (done) is a step-per-member state machine for `get_jit_class_def`.
   It is checked against `ClassTranslation`, an abstract one-step,
   all-or-nothing specification, by `INSTANCE ... WITH` a refinement mapping.
   It also checks that the selected methods are exactly the class's own
   non-static ones.
5. `SourceRanges` (done) holds a small function's source text generated
   together with its AST. It models `make_range`, the attribute scan, the
   literal range widths, the def and class range lines, the
   `UnsupportedNodeError` range and the per-method contexts of a class.
   It checks that ranges are
   non-empty, lie inside the text and start at their token.

## 3. What is modelled and checked so far

### `ExprBuilder` (expressions)

State: `expr` is the AST handed to `build_expr`. `done` records that it has
returned. `result` holds the tree view or the exception raised. `Init` picks
an AST. `Translate` is the whole recursive `build_expr(ctx, expr)` call. It
is one step because nothing else can run in between.

AST and IR nodes share one record shape `[k, op, v, kids]`. Identifiers and
literals are short character sequences. Every handler is an operator named
after its method (`build_Name`, `build_Compare`, ...). `BuildExpr` is
`Builder.__call__`. The helpers that recurse are `BuildAll` (the
`[build_expr(...) for ...]` lists, first error aborts), `BuildCall` and
`BuildKeywords`, `SubscriptOf`, `BuildSlice` and `BuildDims`
(`build_Subscript`), `BuildJoined` (`build_JoinedStr`) and `BuildListComp`.
Each keeps the source's order of building and checking. A failed result
carries the Python exception class. `TypeError`, `AttributeError`,
`AssertionError` and `ValueError` appear where the code lets one escape.
Ranges are not in this module.

The inputs (`MCExprBuilder`) are the ASTs that Python 3.7's `ast.parse` gives
for 381 sources:

- every comparison of two atoms (`x`, `y`, `1`) under `<`, `<=`, `==`, `!=`,
  and `in`/`not in` against a two-element list;
- every 3-operand chain under `<`/`==`;
- and/or chains of 2 and 3 comparisons;
- `not`, unary minus, `+`, `-`, and conditional expressions;
- at least one accepted and one refused instance of every other handler's
  shapes, with the reserved name `__jitx` in each built position;
- f-strings combining the literals `a`, `{`, `}`, `{}` with `{x}` fields.

Variables range over `0..2`. That is enough to make every comparison both
true and false and every chain short-circuit at each link.
`TrueDivision = TRUE` because `get_jit_def` always builds its context with
`True`. The class context, built with `False`, never translates an
expression, so the true-division `FrontendError` is unreachable from this
file.

| Run | cfg | Expect | What it shows |
|---|---|---|---|
| `expr_translation` | `MCExprBuilder.cfg` | pass | See below. |
| `compare_chain_trace` | `MCExpr_EvalTraceAgrees.cfg` | violation | `x == x == x` reads the middle `x` twice. `build_Compare` hands the same built operand to two comparisons, so TorchScript evaluates `f()` in `a < f() < c` twice. Python evaluates it once, and spec section 3 says every IR node has one parent. |
| `fstring_braces` | `MCExpr_FormatAgrees.cfg` | violation | `f"{{}}"` becomes `"{}".format()`. TorchScript's `format` substitutes every `{}` in turn, so this fails with "Too few arguments" where Python prints `{}`. Literal parts are copied into the template as they are. Lone braces are copied through and print right. |

The passing run `expr_translation` checks three properties:

- `TypeOK`: the result contains only tree-view nodes.
- `RejectsExactlyUnsupported`: the translator accepts an expression exactly
  when every construct in it is in the spec's subset. The subset is written
  independently in `Supported`.
- `ValueAgrees`: for the side-effect-free family, in every environment, the
  IR evaluates to Python's value.

Every property of the passing run has a mutant in `PROJECT.json` that TLC
catches:

- the reserved-prefix check dropped;
- AST children passed through untranslated;
- each comparison link compared against the first operand.

The escapes of `{**d}` and `+x` as Python errors are checked at function
level, by the run `errors_escape` of `MCFrontend` (below).

Fairness: `ExprBuilder`, `Frontend` and `SourceRanges` translate in one
step and assume none. `ClassBuilder` is the one module with fairness: its
refinement property carries the abstract specification's liveness (see its
section). `CHECK_DEADLOCK FALSE` is set everywhere, because the
translator really stops once it has returned.

### `StmtBuilder`, `DefBuilder`, `Frontend` (functions)

`StmtBuilder` has one operator per `StmtBuilder` method (`build_Expr` ...
`build_With`) and `build_withitem`. Each handler is split the way the code
splits it. The checks a handler makes before it builds anything are arms of
`BuildStmt`, in dispatch order:

- an unknown class raises `UnsupportedNodeError`;
- a docstring gives `None`;
- an `AnnAssign` without a value is refused;
- a `del` of several targets is refused;
- a while/else is refused with no range;
- `print >>f` is refused;
- `raise` builds `stmt.exc`, even when it is `None`.

Every other handler builds its fields in source order (`StmtParts`,
`BuildParts`) and then decides (`AfterParts`). `build_AugAssign` checks its
operator only after both sides are built. `StmtParts` follows the code:
`For` builds target, iterator and body and never its else list. `BuildStmts`
is `build_stmts`: the statements in order, the first exception aborting,
then the `None`s dropped (`DropNones`).

`DefBuilder` has `build_param` (annotation built; an unannotated `self` of a
method typed by its class; otherwise the sentinel) and `build_param_list`:
`**kw`, then `*a`, then the first non-`None` keyword-only default (built
first, so an error building it escapes), then positional and keyword-only
parameters. `build_def` builds, in order, the parameter list, the return
annotation, the declaration (a `MergedDecl` when a type comment exists) and
the body. `get_jit_def` raises unless the source is one `FunctionDef`. For a
function that `should_drop` marks `@unused`, it first applies the in-place
rewrite (`UnusedRewrite`). `Frontend` holds the call (`call`), `done` and
`result`. `GetJitDef` is the whole call in one step.

`Then` and `ThenAll` state how a handler uses a built child: an exception
propagates unchanged. They are written as operators applied to the result,
not as `LET`s, so that each recursive call occurs once in the text.

Inputs (`MCFrontend`): 9 parameter lists (plain, `self` plus an annotated
parameter, a reserved annotation, `*a`, `**a`, a keyword-only parameter with
no default, with `1`, with a reserved default and with `+x`), 3 return annotations
(none, `int`, reserved), and 22 bodies. Between them, the bodies contain:

- every statement kind, accepted and refused;
- docstrings at the top and in nested blocks;
- an error in a later statement and an error two blocks deep;
- `return +x` and `return {**y}`, whose refusals escape as Python errors.

Each function is also tried `@unused` or not, with or without a type
comment, and as a free function or a method. One non-`def` source (a lambda
line) is added. That gives 4,760 calls. `PyVersion = 37` except in the 3.8
run. Among the reference definitions, `DefSupported` (in `SubsetSpec`) is
the spec's subset of functions. `RefBlock` and `RefParams` give the
statement shape and parameter list the spec promises.

| Run | cfg | Expect | What it shows |
|---|---|---|---|
| `def_translation` | `MCFrontend.cfg` | pass | See below. |
| `py38_docstrings` | `MCFrontend_Py38Docstrings.cfg` | violation | On 3.8 a docstring is an `ast.Constant`. `build_Expr` tests the class name `Str`, so the docstring is kept as an `ExprStmt` (frontend.py:326). |
| `for_else_dropped` | `MCFrontend_ForElse.cfg` | violation | `for ...: ... else: return x` translates without its else branch and without a diagnostic (frontend.py:399). `while` refuses the same construct. |
| `unused_translates` | `MCFrontend_Unused.cfg` | violation | An `@unused` function with a reserved return annotation or keyword-only default is still refused. The rewrite keeps `returns` and `kw_defaults` (frontend.py:210). |
| `errors_escape` | `MCFrontend_ErrorsAreDiagnostics.cfg` | violation | Four refusals escape as Python errors instead of a diagnostic. A bare `raise` makes `build_Raise` call `build_expr(None)`, which raises `AttributeError` (frontend.py:365). `{**y}` hands the `None` key to `UnsupportedNodeError`, which reads `None.lineno` (frontend.py:111). `+x` raises `TypeError` from `len(None)` in `build_UnaryOp` (frontend.py:568). As a keyword-only default, `def f(x, *, k=+x)`, the same `TypeError` escapes, because `build_param_list` builds the default for its range before refusing it (frontend.py:270). Each was confirmed by restricting `Calls` to its body. |

The passing run `def_translation` checks three properties:

- `TypeOK`: a translated function is a `Def` made only of tree-view nodes.
- `RejectsExactlyUnsupported`: a function that is not `@unused` translates
  exactly when it is a single def in the spec's subset.
- `DefMatchesSource`: the `Def` has the requested name and the parameters in
  order, with their keyword-only flags and annotations. Its body has one
  statement per non-docstring source statement, with nested blocks in place.

Their mutants, all caught:

- an annotation passed through unbuilt;
- the keyword-only default check dropped;
- `if` body and else exchanged.

### `ClassBuilder`, `ClassTranslation` (classes)

`ClassBuilder` models `get_jit_class_def`, `get_class_properties` and
`build_class_def`. A class is a function from the attribute names
`MemberOrder` lists to what `getattr(cls, name)` finds. Each entry records:

- `kind`: nothing, a function, a staticmethod, a property or data;
- `own`: whether the name is in `cls.__dict__`;
- `fname`: the function's `__name__`;
- `fn`, and `fset`: the function or getter, and the setter.

`SelectedMethods` is `getmembers` with the code's predicate. That predicate
tests `is_static_fn` and `__dict__` membership on `m.__name__`, not on the
member's name. `ClassProperties` is `getmembers(cls, isinstance(m, property))`.

State:

- `call`: the class and `self_name`;
- `methods`: the method `Def`s built so far;
- `properties`: the `Property` nodes built so far;
- `done` and `result`.

Actions, in the order the code takes them:

- `TranslateMethod`: one element of the list comprehension of `get_jit_def`
  calls;
- `TranslateProperty`: one iteration of the property loop. The getter is
  built first, then the setter if there is one. The first exception ends
  the call.
- `BuildClassDef`: assembles the `ClassDef`.

`get_jit_def` is the `DefBuilder` operator. It is a pure function of its
arguments, so `JitDefTable` computes it once for every (function, def name,
self name) that some class asks for.

`ClassTranslation` is the abstract specification of a class translation. It
is one step, and its outcome is either the whole class (every introspected
method and property in order) or the error of some member that fails. There
is no partial class and no order in which failures are looked for.
`ClassBuilder` instantiates it with `Methods <- SelectedMethods`,
`Props <- ClassProperties` and `Translate <- JitDef`. `call`, `done` and
`result` map to themselves. The run checks `CT!Spec` as a property.

Fairness is `WF_vars` on each of the three actions. `get_jit_class_def` is
one sequential call with nothing to wait for, so the next step stays enabled
until it is taken. The abstract `Spec` has `WF_vars(Next)`, so checking
`CT!Spec` also checks that the step-by-step builder returns or raises.

Inputs (`MCClassBuilder`): three names `a < b < c`, in six layouts:

- an own def, a staticmethod, and a property without a setter;
- a property with a setter, an own def, and data;
- an inherited def, an own def, and an inherited property;
- an inherited def, an own alias of it, and an own def;
- an own def overriding the base's, and an inherited alias;
- an own def, an own alias of it, and a property with a setter.

Every slot holds one of four functions: one that translates, one refused
with `UnsupportedNodeError`, one refused with `NotSupportedError`, and an
`@unused` one. That gives 288 classes.

| Run | cfg | Expect | What it shows |
|---|---|---|---|
| `class_translation` | `MCClassBuilder.cfg` | pass | `TypeOK`; `ClassTranslationSpec`: the builder implements `ClassTranslation`. The first failing method, getter or setter aborts the class with its own error, and no partial class is returned. |
| `class_own_members` | `MCClassBuilder_OwnMembersOnly.cfg` | violation | `OwnMembersOnly`: the spec says the class holds its own non-static methods and its properties. The code skips `b = Base.a` (its `__name__` is not in the class's `__dict__`). It compiles an inherited `b = a` when the class overrides `a` (frontend.py:162). It compiles inherited properties (frontend.py:142). |

Mutants, all caught:

- a failed method kept in the list (caught by `TypeOK`);
- the setter's exception lost (caught by `ClassTranslationSpec`).

### `SourceRanges` (ranges)

`SourceRanges` models the context `get_jit_def` builds:

- the joined source lines;
- `dedent`;
- `leading_whitespace_len`, the first line's length before dedent minus its
  length after.

`make_range` and `make_raw_range` come from `SourceRangeFactory`, which is
in `torch._C` and not in this repository, so they are modelled from the
spec. Lines count from 1, columns are shifted by the leading whitespace, and
a line the text does not have gives no range.

The handlers' range arithmetic:

- `NameRange` (`build_Name`);
- `AttributeNameRange` with `SkipWhitespace` (`build_Attribute`): start one
  past the base's end, skip `string.whitespace`, and take `len(attr)`
  characters;
- `NumRange` (`build_Num`): the width of `str(n)`, computed by `PyStr`;
- `ListCompRange` (`build_ListComp`);
- `DefRange` (`build_def`): line `lineno + len(decorator_list)`;
- `ClassRange` (`build_class_def`): line `lineno`, five characters;
- `StrRange`, `ListRange`, `EllipsisRange` and `NameConstantRange`
  (`build_Str`, `build_List`, `build_Ellipsis`, `build_NameConstant`): one,
  one, three and `len(str(value))` characters from the node's column;
- `ParamRange` (`build_param`): the parameter's name;
- `VarargRange` (`build_param_list`): a refused `*args` or `**kwargs`, from
  one column before the name to its end. `Variadic` picks the refused
  parameter, testing kwarg before vararg as the code does;
- `UnsupportedNodeRange` (`UnsupportedNodeError`): from the node's start,
  `len(node_start_tokens.get(type, ' '))` characters, with the table and its
  Python 3 update (`start_tokens_base`, `start_tokens_update`).

`Translate` is the whole call of `get_jit_def` or `get_jit_class_def`.
- For a function (`DefRanges`), it produces the def's range, the
  parameters' ranges, and the ranges of the body expression and its
  children. A variadic parameter is refused before the body is built. A body no handler takes
  (`Refused`, `Builder.__call__`) raises instead, and only the diagnostic's
  range escapes.
- For a class (`ClassRanges`), it first translates the method from the
  method's own source, with its own context and leading whitespace. Then it
  builds the class's context and `build_class_def`'s range. A refused method
  body ends the call before the class range exists.

Each range is paired with the context it is an offset into and the place
where the grammar puts its token.

Inputs (`MCSourceRanges`): a function `@... def f(<params>): <body>`, or a
class `@... class C:` whose one method is `def f(): <body>`, in 760
variants:

- no decorator, one, a two-line one, or two;
- `<params>` empty, `x`, `*a` or `**k`. As `ast.parse` does (checked on
  CPython), the argument node is placed at the name, after the stars;
- at module level or indented by four;
- `<body>` one of `global x`, `import x`, a nested `def g(): pass`,
  `return lambda: x` (all refused; the lambda gets the one-character
  default width), or `return <expr>` with `<expr>` one of:
  - `x.y` with optional parentheses around `x` and optional spaces on
    either side of the dot;
  - a number spelled `7`, `0x1f`, `1_00`, `2.`, `1e3` or `2.0`;
  - `[x for x in y]`;
  - `'a'`, `[x]`, `...`, `None`;
  - a triple-quoted string opened on the `return` line and closed on the
    next. Before 3.8, `ast.parse` gives such a string its last line and
    column -1 (CPython bpo-16806, fixed in 3.8).

The AST positions are the ones `ast.parse` gives for `PyVersion`, so a
decorated def's `lineno` is the first decorator's line on 3.7 and the `def`
line on 3.8.

| Run | cfg | Expect | What it shows |
|---|---|---|---|
| `source_ranges` | `MCSourceRanges.cfg` | violation | See below. |

`RangesAtTokens` states spec section 8: every range is non-empty, lies in
the text, and starts at its token. It fails in seven independent ways. Each
was confirmed by restricting `Units` to one kind of input:

- `x .y` and `(x).y`: the name range covers the `.` (frontend.py:492).
- `return 1e3` at the end of the source: the range is sized by `1000.0`
  and runs past the text (frontend.py:689).
- `[x for x in y]`: the range is empty (frontend.py:738).
- A two-line decorator: the def range lands on a later line, not on
  `def`. With `PyVersion = 38`, any decorator does this (frontend.py:234).
- `def f(**k)`: the refusal's range is `*k`. It starts on the second star
  of `**`, so it is neither the parameter nor the name span spec 7 names
  (frontend.py:259). `*a` gets `*a`, which is right.
- A multi-line string on 3.7: `build_Str` trusts the node's position, so
  its range is the newline that ends the `return` line, not the opening
  quote (frontend.py:712). The one-line forms of strings, lists, ellipses
  and `None` are right on both versions.
- A decorated class on 3.7: `build_class_def` uses `lineno`, which is the
  first decorator's line, so the range covers `@d` and not `class`
  (frontend.py:227). On 3.8 class ranges are right, so this is the mirror
  image of the def error.

The refusal ranges hold for all four refused bodies on both versions. A
method's ranges hold when it is computed in the method's own context,
whatever the class's indentation. Indentation alone is handled correctly: the methods' ranges agree with the
free functions' once `leading_whitespace_len` is added.

## 4. What is not modelled, and why

- The external collaborators: source fetching and `dedent`, the `torch._C`
  tree-view constructors, the type-comment parser and merger, `should_drop`
  and `is_static_fn`. They are not in this repository. Their results enter
  the models as inputs.
- Error messages and `ErrorReport` text are formatting. Only the exception
  class is kept.
- `get_default_args` is a reflection helper with no control worth checking.
- `is_reserved_name` (frontend.py:30-31) is never called in this file, so
  nothing it decides reaches a translation.
- Some fixed-width ranges are not modelled:
  - The statement keyword spans start at the statement's own column, where
    `ast.parse` puts the keyword. They are right by construction.
  - The operand-gap error ranges of `build_BinOp`, `build_BoolOp` and
    `build_Compare` are the gap the spec defines.
  - Tuple, dict, starred and f-string-part ranges. The 3.7 positions of
    parenthesized tuples and f-string parts differ from 3.8's, and only
    one CPython version was at hand to confirm them, so the inputs would
    rest on guesses.
- Non-ASCII text is not modelled: there `build_Attribute` mixes byte
  offsets and characters.
- The Python 2 paths (`starargs`, `Print`, the Ellipsis slice) are kept in
  the handlers but not generated as inputs, because Python 3 never produces
  them.
