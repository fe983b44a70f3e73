-------------------------- MODULE RedundantClasses --------------------------
(***************************************************************************)
(* GraphQLCodegenPlugin._replace_redundant_classes (src/tools/             *)
(* graphql_codegen/plugin.py) with is_redundant_subclass_def and           *)
(* base_class_names (plugin_utils.py) and RedundantClassReplacer: a class  *)
(* with one base and a body of only `pass`, or of only a `typename__`      *)
(* annotation when the base is not GQLResult, is removed, and every Name   *)
(* node naming it is renamed to its base.                                  *)
(*                                                                         *)
(* A class statement is abstracted to its base names, the shape of its    *)
(* body ("pass", "typename": a lone typename__ annotation, "fields":       *)
(* anything else) and the class names its body's annotations reference.   *)
(* The rewrite is a pure function; every input module within the bounds   *)
(* is an initial state.                                                    *)
(***************************************************************************)
EXTENDS Naturals, Sequences, SequencesExt, FiniteSets

CONSTANTS
  ClassNames,     \* names the module's classes may have
  GQLResult,      \* the custom result base class (GQL_RESULT_CLASS_NAME)
  ExternalBases,  \* other base names not defined in the module
  MaxBases,       \* bound on the number of bases of one class
  Chains          \* may a redundant class's base be a redundant class?

ASSUME GQLResult \in ExternalBases /\ ClassNames \cap ExternalBases = {}
ASSUME MaxBases \in Nat \ {0} /\ Chains \in BOOLEAN

VARIABLES
  module   \* the class statements: name -> [bases, body, refs]

vars == <<module>>

Names == ClassNames \cup ExternalBases
Bodies == {"pass", "typename", "fields"}

BaseLists ==
  {s \in UNION {[1 .. n -> Names] : n \in 1 .. MaxBases} :
     \A i, j \in DOMAIN s : i # j => s[i] # s[j]}

ClassStmts ==
  [bases : BaseLists, body : {"pass", "typename"}, refs : {{}}]
  \cup [bases : BaseLists, body : {"fields"}, refs : SUBSET ClassNames]

ModuleFunctions == UNION {[D -> ClassStmts] : D \in SUBSET ClassNames}

-----------------------------------------------------------------------------
(* The rewrite                                                             *)

\* is_redundant_subclass_def
IsRedundant(stmt) ==
  /\ Len(stmt.bases) = 1
  /\ \/ stmt.body = "pass"
     \/ stmt.bases[1] # GQLResult /\ stmt.body = "typename"

\* class_name_replacements: redundant subclass -> base_class_names(...)[0]
Replacements(m) ==
  [c \in {d \in DOMAIN m : IsRedundant(m[d])} |-> m[c].bases[1]]

RenameNothing(r, n) == n
\* visit_Name: one lookup in the replacement map, or the name unchanged.
Rename(r, n) == IF n \in DOMAIN r THEN r[n] ELSE n

\* RedundantClassReplacer(...).visit(module): visit_ClassDef drops the
\* redundant classes, visit_Name renames the Names of every other class.
Replace(m) ==
  LET r == Replacements(m) IN
  [c \in DOMAIN m \ DOMAIN r |->
     [bases |-> [i \in DOMAIN m[c].bases |-> Rename(r, m[c].bases[i])],
      body |-> m[c].body,
      refs |-> {Rename(r, n) : n \in m[c].refs}]]

-----------------------------------------------------------------------------

Inherits(m, c) == {b \in ToSet(m[c].bases) : b \in DOMAIN m}

RECURSIVE Ancestors(_, _, _)
Ancestors(m, c, seen) ==
  IF c \in seen THEN seen
  ELSE UNION {Ancestors(m, b, seen \cup {c}) : b \in Inherits(m, c)} \cup (seen \cup {c})

\* Python rejects a cyclic class hierarchy before the plugin sees it.
Acyclic(m) == \A c \in DOMAIN m : \A b \in Inherits(m, c) : c \notin Ancestors(m, b, {})

NoChain(m) ==
  \A c \in DOMAIN Replacements(m) : Replacements(m)[c] \notin DOMAIN Replacements(m)

Init ==
  /\ module \in ModuleFunctions
  /\ \A c \in DOMAIN module : c \notin ToSet(module[c].bases)
  /\ Acyclic(module)
  /\ Chains \/ NoChain(module)

\* The rewrite is applied to a fixed input; the state never changes.
Next == UNCHANGED vars

Spec == Init /\ [][Next]_vars

-----------------------------------------------------------------------------
(* Properties                                                              *)

TypeOK == module \in ModuleFunctions

References(m) == UNION {ToSet(m[c].bases) \cup m[c].refs : c \in DOMAIN m}

\* Every class of the input module that the rewritten module still names,
\* as a base or in an annotation, is still defined in it.
NoDanglingReference ==
  \A n \in References(Replace(module)) \cap DOMAIN module :
    n \in DOMAIN Replace(module)

=============================================================================
