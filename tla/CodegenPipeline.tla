-------------------------- MODULE CodegenPipeline --------------------------
(***************************************************************************)
(* GraphQLCodegenPlugin (src/tools/graphql_codegen/plugin.py) across the   *)
(* hooks ariadne-codegen calls: each generated module (fragments, result   *)
(* types, ...) passes through _rewrite_generated_module, whose             *)
(* _replace_redundant_classes (RedundantClasses) removes redundant classes *)
(* and records them in the shared set classes_to_drop; then                *)
(* generate_init_module rewrites the __init__ imports with                 *)
(* _cleanup_init_module; last, generate_init_code removes the files of     *)
(* modules_to_drop.                                                        *)
(*                                                                         *)
(* A generated module is a RedundantClasses module function over its own  *)
(* class names; a result module's class may derive from a class of the    *)
(* fragments module, which it imports by name (`from .fragments import`). *)
(* Annotations are left out (refs = {}): bases decide redundancy.          *)
(***************************************************************************)
EXTENDS Naturals, FiniteSets, Sequences, SequencesExt

CONSTANTS
  Fragments,       \* the fragments module
  Results,         \* the result-types modules
  DroppedModules,  \* modules_to_drop (client, base_model, exceptions, ...)
  ClassNames,      \* names the generated classes may have
  GQLResult,       \* GQL_RESULT_CLASS_NAME
  ExternalBases,   \* base names defined outside the generated modules
  MaxBases         \* bound on the number of bases of one class

Modules == {Fragments} \cup Results

ASSUME Fragments \notin Results /\ DroppedModules \cap Modules = {}

VARIABLES
  src,            \* the module each hook receives: module -> class statements
  out,            \* the module each hook returned (src until it ran)
  pending,        \* the modules whose hook has not run yet
  classesToDrop,  \* self.classes_to_drop
  init,           \* the rewritten __init__ imports ({} before the hook ran:
                  \* it keeps one import per generated module)
  exports,        \* the names of the rewritten `__all__ = [...]`
  files,          \* the module files of the generated package
  removed         \* generate_init_code has run

vars == <<src, out, pending, classesToDrop, init, exports, files, removed>>

RC == INSTANCE RedundantClasses WITH module <- [c \in {} |-> {}], Chains <- TRUE
FR == INSTANCE FieldRewrite

\* The generated classes a module may name as bases: its own, the fragment
\* classes for a result module, and the external bases.
Visible(s, m) ==
  DOMAIN s[m] \cup (IF m \in Results THEN DOMAIN s[Fragments] ELSE {}) \cup ExternalBases

\* Generated modules: each class in one module, based on names it can see,
\* and (Python rejects the rest) not on itself.
WellFormed(s) ==
  \A m \in Modules : \A c \in DOMAIN s[m] :
    /\ ToSet(s[m][c].bases) \subseteq Visible(s, m) \ {c}
    /\ RC!Acyclic(s[m])

\* `from .fragments import ...` of a result module: the fragment classes
\* its classes name.
Imports(s, m) ==
  IF m = Fragments THEN {}
  ELSE UNION {ToSet(s[m][c].bases) : c \in DOMAIN s[m]} \cap DOMAIN s[Fragments]

\* The __init__ module ariadne-codegen generates: one `from .m import ...`
\* per generated module, with all of its classes, and imports from the
\* modules of modules_to_drop.
InitImports ==
  {[module |-> m, names |-> DOMAIN src[m]] : m \in Modules}
  \cup {[module |-> d, names |-> ExternalBases] : d \in DroppedModules}

-----------------------------------------------------------------------------

Init ==
  /\ \E owner \in [ClassNames -> Modules \cup {"none"}],
       st \in [ClassNames -> [bases : RC!BaseLists, body : RC!Bodies, refs : {{}}]] :
       src = [m \in Modules |-> [c \in {d \in ClassNames : owner[d] = m} |-> st[c]]]
  /\ WellFormed(src)
  /\ out = src
  /\ pending = Modules
  /\ classesToDrop = {}
  /\ init = {}
  /\ exports = {}
  /\ files = Modules \cup DroppedModules
  /\ removed = FALSE

\* generate_fragments_module / generate_result_types_module / ...:
\* _rewrite_generated_module, whose _replace_redundant_classes adds the
\* module's redundant classes to classes_to_drop and rewrites the module.
GenerateModule(m) ==
  /\ m \in pending
  /\ out' = [out EXCEPT ![m] = RC!Replace(src[m])]
  /\ classesToDrop' = classesToDrop \cup DOMAIN RC!Replacements(src[m])
  /\ pending' = pending \ {m}
  /\ UNCHANGED <<src, init, exports, files, removed>>

CleanupKeepingDroppedNames(imps) ==
  {[module |-> i.module, names |-> i.names] :
     i \in {j \in imps : j.module \notin DroppedModules}}
CleanupKeepingDroppedModules(imps) ==
  {[module |-> i.module, names |-> i.names \ classesToDrop] : i \in imps}
\* _cleanup_init_module: the imports from modules not in modules_to_drop,
\* each without the names in classes_to_drop; __all__ lists what is left.
CleanupInitModule(imps) ==
  {[module |-> i.module, names |-> i.names \ classesToDrop] :
     i \in {j \in imps : j.module \notin DroppedModules}}

\* collect_imported_names / make_all_assignment: __all__ lists the names
\* the kept imports import (imported_names of each).
CollectImportedNames(imps) == UNION {i.names : i \in imps}

\* generate_init_module, which ariadne-codegen calls once every other
\* module has been generated.
GenerateInitModule ==
  /\ pending = {}
  /\ init = {}
  /\ init' = CleanupInitModule(InitImports)
  /\ exports' = CollectImportedNames(init')
  /\ UNCHANGED <<src, out, pending, classesToDrop, files, removed>>

\* remove_module_files(root, names): unlink each <name>.py, missing_ok.
RemoveModuleFiles(fs, names) == fs \ names

\* generate_init_code, the last hook: remove_module_files(modules_to_drop),
\* then ruff.
GenerateInitCode ==
  /\ init # {}
  /\ ~removed
  /\ files' = RemoveModuleFiles(files, DroppedModules)
  /\ removed' = TRUE
  /\ UNCHANGED <<src, out, pending, classesToDrop, init, exports>>

Next ==
  \/ \E m \in Modules : GenerateModule(m)
  \/ GenerateInitModule
  \/ GenerateInitCode

Spec == Init /\ [][Next]_vars

-----------------------------------------------------------------------------
(* Properties                                                              *)

TypeOK ==
  /\ \A m \in Modules : DOMAIN out[m] \subseteq DOMAIN src[m]
  /\ init \subseteq [module : Modules, names : SUBSET ClassNames]
  /\ pending \subseteq Modules
  /\ classesToDrop \subseteq ClassNames
  /\ exports \subseteq ClassNames
  /\ files \subseteq Modules \cup DroppedModules
  /\ removed \in BOOLEAN

\* Once generation ends, the package imports: __init__ imports from each
\* generated module exactly the classes that module still defines, only
\* from module files the package still has (none that generate_init_code
\* removed), and __all__ exports exactly what it imports.
InitMatchesModules ==
  removed =>
    /\ \A i \in init : i.module \in files /\ i.names = DOMAIN out[i.module]
    /\ \A m \in Modules : \E i \in init : i.module = m
    /\ exports = UNION {DOMAIN out[m] : m \in Modules}

\* Once every module hook has run, each name a result module imports from
\* the fragments module is still a class of the rewritten fragments module.
ModuleImportsResolve ==
  pending = {} =>
    \A m \in Results : Imports(src, m) \subseteq DOMAIN out[Fragments]

\* A fragment class goes through _rewrite_class twice: generate_result_class
\* rewrites its fields with no gql_typename, then generate_fragments_module
\* rewrites them again with the fragment's type name.  The two passes give
\* every field what one pass with the fragment's type name gives: its
\* typename__ is pinned to Typename[Literal[type]] = type.  Checked once
\* generation has ended.
FragmentFieldsRewriteOnce ==
  removed =>
  \A f \in FR!GeneratedFields, g \in FR!TypeNames :
    FR!RewriteField(FR!RewriteField(f, FR!NoTypename), g) = FR!RewriteField(f, g)

=============================================================================
