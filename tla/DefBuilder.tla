----------------------------- MODULE DefBuilder -----------------------------
(***************************************************************************)
(* get_jit_def, build_def, build_param_list and build_param of            *)
(* torch/jit/frontend.py: the translation of one parsed function into a   *)
(* Def.  get_jit_def checks that the source parsed to one FunctionDef,    *)
(* rewrites it in place when the function is marked @unused              *)
(* (should_drop), and calls build_def, which builds the parameter list,   *)
(* the return annotation, the declaration (merged with a type comment if  *)
(* the source has one) and the body, in that order.                       *)
(*                                                                         *)
(* The inputs of get_jit_def that come from outside this file are fields *)
(* of the function record: tree (the statements ast.parse returned for    *)
(* the dedented source), drop (should_drop(fn)) and type_line (whether    *)
(* get_type_line found a type comment).  A name is a character sequence; *)
(* NoSelf stands for self_name None.                                      *)
(***************************************************************************)
EXTENDS StmtBuilder

CONSTANT
  PyVersion      \* 37 or 38: the classes ast.parse produces for literals

NoSelf == <<>>

\* ast.parse of a string literal
StrLit(cs) == IF PyVersion >= 38 THEN Leaf("Constant", "str", cs) ELSE Leaf("Str", "", cs)

\* ast.parse("def unused_fn(self: Any):\n\traise RuntimeError(...)"): the
\* annotation of its parameter and its body
unused_annotation == Leaf("Name", "", <<"A", "n", "y">>)
unused_body ==
  <<Node("Raise", "", <<>>,
         <<Node("Call", "", <<>>, <<Leaf("Name", "", <<"R", "u", "n", "t", "i", "m", "e",
                                                      "E", "r", "r", "o", "r">>),
                                    StrLit(<<"m", "s", "g">>)>>)>>)>>

\* The @unused rewrite: the body replaced by the stub's, vararg and kwarg
\* cleared, every positional and keyword-only annotation replaced by Any.
\* kw_defaults and the return annotation are left as they were.
UnusedRewrite(d) ==
  LET a == d.kids[1]
      any(as) == Node("Args", "", <<>>,
                      [i \in DOMAIN as.kids |-> Node("arg", "", as.kids[i].v, <<unused_annotation>>)])
      args == Node("arguments", "", <<>>, <<any(a.kids[1]), NoNode, NoNode, any(a.kids[4]), a.kids[5]>>)
  IN Node(d.k, d.op, d.v, <<args, Node("Block", "", <<>>, unused_body), d.kids[3]>>)

\* Mutation: an explicit annotation passed on without being built.
build_param_unbuilt(ctx, p, self_name, kwarg_only) ==
  LET ann == CASE p.kids[1].k # "NoneType" -> Ok(p.kids[1])
                [] self_name # NoSelf /\ p.v = <<"s", "e", "l", "f">> ->
                     Ok(Leaf("Var", "", self_name))
                [] OTHER -> Ok(Leaf("EmptyTypeAnnotation", "", <<>>))
  IN Ok(Node("Param", IF kwarg_only THEN "kwarg_only" ELSE "", p.v, <<ann.ir>>))

\* build_param: an explicit annotation is built; an unannotated `self` of a
\* method is typed by the class; any other parameter gets the sentinel.
build_param(ctx, p, self_name, kwarg_only) ==
  Then(CASE p.kids[1].k # "NoneType" -> BuildExpr(ctx, p.kids[1])
         [] self_name # NoSelf /\ p.v = <<"s", "e", "l", "f">> ->
              Ok(Leaf("Var", "", self_name))
         [] OTHER -> Ok(Leaf("EmptyTypeAnnotation", "", <<>>)),
       LAMBDA ann : Ok(Node("Param", IF kwarg_only THEN "kwarg_only" ELSE "", p.v, <<ann>>)))

\* [build_param(ctx, arg, self_name, kwarg_only) for arg in args]
BuildParams(ctx, ps, self_name, kwarg_only) ==
  AllOf([i \in DOMAIN ps |-> build_param(ctx, ps[i], self_name, kwarg_only)])

\* `result = [positional...]; result.extend([keyword-only...])`
ParamsThen(pos, kwo) ==
  CASE ~pos.ok -> pos
    [] ~kwo.ok -> kwo
    [] OTHER   -> OkSeq(pos.irs \o kwo.irs)

\* A keyword-only default is refused once it is built for its range.
KwDefaultRefused(r) == FailSeq(IF r.ok THEN Fail("NotSupportedError", "kw-only default").err ELSE r.err)

\* Mutation: the keyword-only default check dropped.
build_param_list_nokwdefaults(ctx, a, self_name) ==
  CASE a.kids[3].k # "NoneType" -> FailSeq(Fail("NotSupportedError", "kwarg").err)
    [] a.kids[2].k # "NoneType" -> FailSeq(Fail("NotSupportedError", "vararg").err)
    [] OTHER -> ParamsThen(BuildParams(ctx, a.kids[1].kids, self_name, FALSE),
                           BuildParams(ctx, a.kids[4].kids, self_name, TRUE))

\* build_param_list: **kwargs, then *args, then the first keyword-only
\* default (built first, for its range: an exception building it escapes
\* instead), then the positional and keyword-only parameters.
build_param_list(ctx, a, self_name) ==
  LET defaults == SelectSeq(a.kids[5].kids, LAMBDA x : x.k # "NoneType")
  IN CASE a.kids[3].k # "NoneType" -> FailSeq(Fail("NotSupportedError", "kwarg").err)
       [] a.kids[2].k # "NoneType" -> FailSeq(Fail("NotSupportedError", "vararg").err)
       [] defaults # <<>> -> KwDefaultRefused(BuildExpr(ctx, Head(defaults)))
       [] OTHER -> ParamsThen(BuildParams(ctx, a.kids[1].kids, self_name, FALSE),
                              BuildParams(ctx, a.kids[4].kids, self_name, TRUE))

\* build_def: parameters, return annotation, declaration, body.  With a
\* type comment the declaration is what merge_type_from_type_comment
\* returns; the merge rule it applies depends on is_method.
\* The Def from the built parameter list, return annotation and body
DefOf(pl, rt, body, type_line, def_name, self_name) ==
  LET decl == Node("Decl", "", <<>>, <<ListView(pl.irs), rt.ir>>)
      merged == IF type_line
                THEN Node("MergedDecl", IF self_name # NoSelf THEN "method" ELSE "function",
                          <<>>, <<decl>>)
                ELSE decl
  IN CASE ~pl.ok   -> Raise(pl.err)
       [] ~rt.ok   -> rt
       [] ~body.ok -> Raise(body.err)
       [] OTHER    -> Ok(Node("Def", "", def_name, <<merged, ListView(body.irs)>>))
build_def(ctx, d, type_line, def_name, self_name) ==
  DefOf(build_param_list(ctx, d.kids[1], self_name),
        IF d.kids[3].k = "NoneType" THEN Ok(NoNode) ELSE BuildExpr(ctx, d.kids[3]),
        BuildStmts(ctx, d.kids[2].kids), type_line, def_name, self_name)

\* get_jit_def always builds its SourceContext with true division on.
JitDefCtx == [uses_true_division |-> TRUE]

get_jit_def(fn, def_name, self_name) ==
  IF Len(fn.tree) # 1 \/ fn.tree[1].k # "FunctionDef"
  THEN Fail("RuntimeError", "expected a single top-level function")
  ELSE build_def(JitDefCtx, IF fn.drop THEN UnusedRewrite(fn.tree[1]) ELSE fn.tree[1],
                 fn.type_line, def_name, self_name)

=============================================================================
