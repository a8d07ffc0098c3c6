----------------------------- MODULE SubsetSpec -----------------------------
(***************************************************************************)
(* The translatable subset as the specification states it (spec 4.2-4.4), *)
(* written independently of the handlers: what each kind requires of its *)
(* parts, and the tree-view classes a translation may produce.  The       *)
(* model instances check the handlers against these definitions.          *)
(***************************************************************************)
EXTENDS ExprBuilder

-----------------------------------------------------------------------------
(* Expressions (spec 4.3).                                                 *)

RECURSIVE Supported(_), AllSupported(_)
AllSupported(es) == \A i \in DOMAIN es : Supported(es[i])

SliceOk(sl) ==
  CASE sl.k = "Index" -> Supported(sl.kids[1])
    [] sl.k = "Slice" -> \A i \in 1..3 : sl.kids[i].k = "NoneType" \/ Supported(sl.kids[i])
    [] OTHER -> FALSE

Supported(e) ==
  CASE e.k = "Name" -> ~IsPrefix(<<"_", "_", "j", "i", "t">>, e.v)
    [] e.k \in {"Num", "Str", "Ellipsis", "NameConstant"} -> TRUE
    [] e.k = "Constant" -> e.op \in {"NoneType", "bool", "int", "float", "str", "ellipsis"}
    [] e.k = "UnaryOp" -> e.op \in {"Not", "USub", "Invert"} /\ AllSupported(e.kids)
    [] e.k = "BinOp" -> (e.op # "Div" \/ TrueDivision) /\ AllSupported(e.kids)
    [] e.k = "Call" ->
         \A i \in DOMAIN e.kids :
           IF e.kids[i].k = "keyword"
           THEN e.kids[i].v # <<>> /\ Supported(e.kids[i].kids[1])
           ELSE Supported(e.kids[i])
    [] e.k = "Subscript" ->
         /\ Supported(e.kids[1])
         /\ IF e.kids[2].k = "ExtSlice"
            THEN \A i \in DOMAIN e.kids[2].kids :
                   LET d == e.kids[2].kids[i]
                   IN SliceOk(d) /\ (d.k = "Index" => d.kids[1].k \notin {"Tuple", "List"})
            ELSE SliceOk(e.kids[2])
    [] e.k = "JoinedStr" ->
         \A i \in DOMAIN e.kids :
           e.kids[i].k = "Str" \/ (e.kids[i].k = "Constant" /\ e.kids[i].op = "str")
           \/ /\ e.kids[i].k = "FormattedValue" /\ e.kids[i].op = "-1"
              /\ e.kids[i].kids[2].k = "NoneType" /\ Supported(e.kids[i].kids[1])
    [] e.k = "ListComp" ->
         Len(e.kids) = 2 /\ Len(e.kids[2].kids) = 2
         /\ AllSupported(<<e.kids[1]>> \o e.kids[2].kids)
    [] e.k = "Dict" -> AllSupported(e.kids)
    [] e.k \in {"List", "Tuple", "Starred", "IfExp", "BoolOp", "Compare", "Attribute"} ->
         AllSupported(e.kids)
    [] OTHER -> FALSE

\* The tree-view classes build_expr may return (List is the List<...>
\* wrapper, NoneType an absent Maybe<Expr> of a SliceExpr).
TreeViewKinds ==
  {"Var", "TrueLiteral", "FalseLiteral", "NoneLiteral", "Const", "StringLiteral",
   "Dots", "BinOp", "UnaryOp", "TernaryIf", "ListLiteral", "TupleLiteral",
   "DictLiteral", "Starred", "Select", "Apply", "Attribute", "Subscript",
   "SliceExpr", "ListComp", "List", "NoneType"}

\* The statement and declaration classes of the tree view (WithItem,
\* Param, Decl, Def, Property, ClassDef; MergedDecl is what
\* merge_type_from_type_comment returns)
StmtTreeViewKinds ==
  {"ExprStmt", "Assign", "Delete", "Return", "Raise", "Assert", "AugAssign",
   "While", "For", "If", "Pass", "Break", "Continue", "With", "WithItem",
   "EmptyTypeAnnotation", "Param", "Decl", "MergedDecl", "Def", "Property", "ClassDef"}

RECURSIVE IsTreeView(_)
IsTreeView(ir) == ir.k \in TreeViewKinds \cup StmtTreeViewKinds /\ \A i \in DOMAIN ir.kids : IsTreeView(ir.kids[i])

-----------------------------------------------------------------------------
(* Statements (spec 4.2) and definitions (spec 4.4).                       *)

\* An optional field: absent, or a supported expression
OptSupported(e) == e.k = "NoneType" \/ Supported(e)

RECURSIVE StmtSupported(_)
BlockSupported(b) == \A i \in DOMAIN b.kids : StmtSupported(b.kids[i])

StmtSupported(s) ==
  CASE s.k \in {"Expr", "Assign"} -> AllSupported(s.kids)
    [] s.k = "AnnAssign" -> s.kids[3].k # "NoneType" /\ AllSupported(s.kids)
    [] s.k = "Delete"    -> Len(s.kids) = 1 /\ Supported(s.kids[1])
    [] s.k = "Return"    -> OptSupported(s.kids[1])
    [] s.k = "Raise"     -> Supported(s.kids[1])
    [] s.k = "Assert"    -> Supported(s.kids[1]) /\ OptSupported(s.kids[2])
    [] s.k = "AugAssign" -> s.op \in {"Add", "Sub", "Mult", "Div", "Mod"} /\ AllSupported(s.kids)
    [] s.k = "While"     -> s.kids[3].kids = <<>> /\ Supported(s.kids[1]) /\ BlockSupported(s.kids[2])
    [] s.k = "For"       -> AllSupported(SubSeq(s.kids, 1, 2)) /\ BlockSupported(s.kids[3])
    [] s.k = "If"        -> Supported(s.kids[1]) /\ BlockSupported(s.kids[2]) /\ BlockSupported(s.kids[3])
    [] s.k = "Print"     -> s.op # "dest" /\ AllSupported(s.kids)
    [] s.k \in {"Pass", "Break", "Continue"} -> TRUE
    [] s.k = "With"      ->
         /\ \A i \in DOMAIN s.kids[1].kids :
              Supported(s.kids[1].kids[i].kids[1]) /\ OptSupported(s.kids[1].kids[i].kids[2])
         /\ BlockSupported(s.kids[2])
    [] OTHER -> FALSE

\* No *args, no **kwargs, no keyword-only default; every annotation, the
\* return annotation and the body supported.
DefSupported(d) ==
  LET a == d.kids[1]
      params == a.kids[1].kids \o a.kids[4].kids
  IN /\ a.kids[2].k = "NoneType" /\ a.kids[3].k = "NoneType"
     /\ \A i \in DOMAIN a.kids[5].kids : a.kids[5].kids[i].k = "NoneType"
     /\ \A i \in DOMAIN params : OptSupported(params[i].kids[1])
     /\ OptSupported(d.kids[3])
     /\ BlockSupported(d.kids[2])

=============================================================================
