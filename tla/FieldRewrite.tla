---------------------------- MODULE FieldRewrite ----------------------------
(***************************************************************************)
(* GraphQLCodegenPlugin._rewrite_field (src/tools/graphql_codegen/         *)
(* plugin.py): the rewrite of one pydantic field `target: annotation =     *)
(* value` of a generated class, as a pure operator over a small grammar of *)
(* the fields ariadne-codegen generates.                                   *)
(*                                                                         *)
(* An annotation is a name (GQLId, str, a class X or Y) or a subscript     *)
(* head[inner] with head Typename, Literal or Union; Literal's inner is a  *)
(* type name, Union's is a tuple.  A value is absent, a Field(...) call    *)
(* with a set of keyword names, or a string constant (a type name).        *)
(***************************************************************************)
EXTENDS Sequences

NoValue == [k |-> "none"]
NoTypename == "none"                \* gql_typename = None

TypeNames == {"A", "B"}

Name(n) == [k |-> "name", n |-> n]
Sub(head, inner) == [k |-> "sub", head |-> head, inner |-> inner]
FieldCall(kws) == [k |-> "Field", kws |-> kws]
Const(c) == [k |-> "const", c |-> c]

\* ast.Subscript(ast.Name(head)) whatever its slice.
IsSub(a, head) == a.k = "sub" /\ a.head = head

Annotations ==
  {Name("GQLId"), Name("str"), Name("X")}
  \cup {Sub("Literal", t) : t \in TypeNames}
  \cup {Sub("Typename", Sub("Literal", t)) : t \in TypeNames}
  \cup {Sub("Union", <<Name("X")>>), Sub("Union", <<Name("X"), Name("Y")>>)}

Values ==
  {NoValue, FieldCall({"alias"}), FieldCall({"alias", "discriminator"})}
  \cup {Const(t) : t \in TypeNames}

\* ariadne-codegen annotates typename__ with Literal[...] (Typename[...]
\* once rewritten); other fields may carry any annotation.
GeneratedFields ==
  [target : {"typename__"},
   ann : {a \in Annotations : IsSub(a, "Literal") \/ IsSub(a, "Typename")},
   value : Values]
  \cup [target : {"id", "node"}, ann : Annotations, value : Values]

\* generate_ann_assign(target, annotation, value=None)
AnnAssign(target, ann, value) == [target |-> target, ann |-> ann, value |-> value]

RewriteFieldTypenameFirst(f, g) ==
  CASE f.ann = Name("GQLId") /\ f.value.k = "Field" ->
         AnnAssign(f.target, Name("str"), FieldCall(f.value.kws \cup {"frozen", "repr"}))
    [] f.target = "typename__" /\ IsSub(f.ann, "Typename") -> f
    [] f.target = "typename__" /\ g # NoTypename ->
         AnnAssign(f.target, Sub("Typename", Sub("Literal", g)), Const(g))
    [] f.target = "typename__" -> AnnAssign(f.target, Sub("Typename", f.ann), NoValue)
    [] IsSub(f.ann, "Union") /\ Len(f.ann.inner) = 1 /\ f.value.k = "Field" ->
         AnnAssign(f.target, f.ann.inner[1], NoValue)
    [] OTHER -> f
\* _rewrite_field(node, gql_typename): the first case of the match that
\* fits, in the code's order.
\*  1. `GQLId = Field(**kws)` becomes `str = Field(**kws, frozen=True,
\*     repr=False)` (make_pydantic_field).
\*  2. typename__ with a gql_typename: Typename[Literal[g]] = g.
\*  3. typename__ already annotated Typename[...]: unchanged.
\*  4. other typename__: Typename[annotation], the value dropped.
\*  5. Union[T,] = Field(...): T, the value dropped.
\*  6. anything else: unchanged.
RewriteField(f, g) ==
  CASE f.ann = Name("GQLId") /\ f.value.k = "Field" ->
         AnnAssign(f.target, Name("str"), FieldCall(f.value.kws \cup {"frozen", "repr"}))
    [] f.target = "typename__" /\ g # NoTypename ->
         AnnAssign(f.target, Sub("Typename", Sub("Literal", g)), Const(g))
    [] f.target = "typename__" /\ IsSub(f.ann, "Typename") -> f
    [] f.target = "typename__" -> AnnAssign(f.target, Sub("Typename", f.ann), NoValue)
    [] IsSub(f.ann, "Union") /\ Len(f.ann.inner) = 1 /\ f.value.k = "Field" ->
         AnnAssign(f.target, f.ann.inner[1], NoValue)
    [] OTHER -> f

=============================================================================
