# TLA+ models of the W&B public artifacts API and the GraphQL codegen plugin

This directory holds TLA+ specifications of the code under `src/`, with TLC
configurations that check them. The code has three parts:

* `src/wandb/apis/public/artifacts.py`: the public-API objects for artifacts.
  - Five cursor-paginated listings: `ArtifactTypes`, `ArtifactCollections`,
    `Artifacts`, `RunArtifacts` and `ArtifactFiles`. They subclass
    `Paginator` or `SizedPaginator` from `wandb/apis/paginator.py`, which is not
    under `src/`.
  - The `ArtifactType` handle.
  - The mutable `ArtifactCollection` handle.
* `src/tools/graphql_codegen/plugin.py`: two ariadne-codegen plugins.
  - `FixFragmentOrder` orders the generated fragment classes.
  - `GraphQLCodegenPlugin` rewrites the generated modules: it removes redundant
    subclasses and cleans up the `__init__` module.
* `src/tools/graphql_codegen/plugin_utils.py`: the plugins' AST predicates and
  constructors, plus file and ruff helpers.

## Inventory

### Paginated listings (artifacts.py + Paginator base)

* **State**
  - `last_response`: the last page.
  - `variables["cursor"]`.
  - `objects`: the cache of converted objects.
  - `index`: the iterator position.
* **Operations** (from spec.md 4.2 and the subclass hooks)
  - `__iter__` resets `index`.
  - `__next__` increments `index`. It then returns the cached object, or runs
    `_load_page`: `update_variables`, `_update_response`, then
    `objects.extend(convert_objects())`. It raises `StopIteration` when `more`
    is false or when the loaded page adds nothing at `index`.
  - `__getitem__` loads pages while the position is past the cache and `more`
    holds.
  - `__len__` (`_length`) loads the first page if none is held, then reads
    `total_count`.
* **Interactions**: each load is a `client.execute` round trip, and it may
  raise: the transport fails, or the response lacks the
  project/type/collection/connection.
* **What is hard**
  - The index is advanced before a load that may raise.
  - `convert_objects` filters: a tag filter or null nodes can empty a page that
    is not the last.
  - The cursor is bound before the query that may fail.
  - `len()` counts `total_count`, not what iteration yields.

### ArtifactCollection (artifacts.py 377-673)

* **State**
  - Staged fields: `_name`, `_description`, `_type`, `_tags`.
  - Saved snapshots: `_saved_name`, `_saved_type`, `_saved_tags`.
  - `_is_sequence`.
  - On the server: the collection's name, description, type and tags.
* **Operations**
  - The setters. The `type` setter raises on a non-sequence.
  - `save()`:
    1. Validates a type change, both the new and the saved type.
    2. `_update_collection` (by id), which then sets `_saved_name`.
    3. `_update_collection_type` (only for a sequence whose type changed),
       which then sets `_saved_type`.
    4. `_add_tags` and `_delete_tags`, both addressed by `_saved_name`.
    5. Sets `_saved_tags = copy(_tags)`, only at the end.
  - `change_type()` (deprecated).
  - `delete()`.
  - `load()`.
* **What is hard**: any mutation may raise after earlier ones were applied, and
  what the handle records afterwards decides what the next `save()` sends.

### FixFragmentOrder (plugin.py 50-117)

* `generate_fragments_module` groups the statements: imports, classes and
  `model_rebuild()` calls.
* It orders the classes with `_sorted_class_defs`:
  1. Sort by name.
  2. Build a `graphlib.TopologicalSorter` of `{name: base names}`.
  3. Order by position in `static_order()`.
* It then regenerates the `model_rebuild()` calls in that order.
* Hard: the order `static_order()` gives to classes that do not depend on each
  other.

### GraphQLCodegenPlugin (plugin.py 129-404, plugin_utils.py)

* The hooks rewrite each generated class (`_rewrite_class`, `_rewrite_field`).
* Each module then passes through `_rewrite_generated_module`.
  `_replace_redundant_classes` drops each class that `is_redundant_subclass_def`
  accepts and adds its name to `classes_to_drop`. `RedundantClassReplacer`
  renames each `Name` naming a dropped class to the dropped class's first base.
* `generate_init_module` (`_cleanup_init_module`) removes the dropped names
  from the `__init__` imports.
* Hard:
  - Redundant classes whose base is redundant (the rename is not transitive).
  - The order in which the hooks run relative to `classes_to_drop`.

## Modules

| Module | Models | State | Actions / operators |
|---|---|---|---|
| `Paginator` | The paginator protocol, with the `Artifacts` hooks and the base class's `__iter__`/`__next__`/`__getitem__`/`__len__` | `lastResponse`, `cursorVar`, `objects`, `index`. Server: `total`, `kept`. History: `status`, `yielded`, `got`, `failures` | `Iter`, `NextObject` (five outcomes), `GetItem(i)`, `Length`. Hooks: `more`, `cursor`, `UpdateVariables`, `ConvertObjects`, `LoadStep`, `FailedLoad` |
| `ArtifactCollection` | One handle and the server's collection | `srv`, `coll`, `synced`, `failures`, `lastLoad`, `unknown` | `SetName`, `SetDescription`, `SetTags`, `SetType`, `Save`, `ChangeType`, `Delete`, `Load`, `TypeCollection` (`ArtifactType(t).collection(n)`: a new handle through `load()`); another client's `OtherTags`, `OtherDescription`. `Attempt` enumerates every way a sequence of mutations can end |
| `FragmentOrder` | `_sorted_class_defs`, with graphlib's `static_order` as an operator | The input module: `classes`, `bases` | Pure: `Init` enumerates inputs and `Next` stutters |
| `RedundantClasses` | `_replace_redundant_classes`, `is_redundant_subclass_def`, `RedundantClassReplacer` | The input module | Pure: `Replace(m)` |
| `LazyList` | What a listing promises, without pages or cursors (abstract) | `list`, `cache`, `yielded`, `done` | `Fetch`, `Yield`, `Stop`, `Restart` |
| `FieldRewrite` | `_rewrite_field` over the field shapes ariadne-codegen generates | none | Pure: `RewriteField(f, gql_typename)` |
| `CodegenPipeline` | `GraphQLCodegenPlugin` across ariadne-codegen's hooks, composing `RedundantClasses` per module | `src`, `out`, `pending`, `classesToDrop`, `init`, `exports` (`__all__`), `files` (the package's module files), `removed` | `GenerateModule(m)`, `GenerateInitModule` (`_cleanup_init_module`, `collect_imported_names`), `GenerateInitCode` (`remove_module_files`) |

The model's page state is a record (`Pager`). A page load of `__next__`,
`__getitem__` or `__len__` is one step that composes `UpdateVariables`, the
query and the extend, as one handler of the code does. `paginator.py` is not
under `src/`, so `Iter`, `NextObject`, `GetItem` and their helpers are modelled
from spec.md 4.2. PROJECT.json marks them `spec_modelled`.

`Paginator` is shown to implement `LazyList`: `LL == INSTANCE LazyList WITH
list <- AllObjects, cache <- objects, done <- (status = "stopped")`, and the
`paginator` run checks `LL!LiveSpec` as a property. A failed load, a
`paginator[i]` or `len()` is a `Fetch` or a stutter; `__iter__` is `Restart`.

With `ConvertMayRaise`, a load of `ArtifactCollections` may raise inside
`convert_objects` (each `ArtifactCollection` it builds runs `load()`), after
`_update_response` has stored the new page (`ConvertRaised`).

`ArtifactCollection.Load` is `load()` on an existing handle: it queries by
`_saved_type` and `_saved_name` and records found or "Could not find".

`ArtifactCollection` has two more switches. `LegacyAttrs` lets `Init` build
the handle from caller-supplied attrs: any description and a subset of the
server's tags. `OtherWriter` lets another client add or remove a tag or set
the description. `unknown` is a history variable: the server tags the
handle's snapshot never held and its user has not staged since.

In `CodegenPipeline`, a module is a `RedundantClasses` module over its own
class names; a result module's class may be based on a fragment class, which
it imports by name. The `__init__` imports are one import per generated module
with all its classes, plus imports from `modules_to_drop`. The hooks run in
ariadne-codegen's order: every module hook, then `generate_init_module`, then
`generate_init_code` (the comment at plugin.py 187 relies on this). A
fragment class is rewritten by `generate_result_class` (no `gql_typename`),
then again by `generate_fragments_module` (with its type name).

Abstractions:
* Edges are numbers 1..total.
* The cursor of page k is k.
* `kept` is the set of edges `convert_objects` keeps.
* A class statement is its base names, a body shape (`pass`, a lone
  `typename__`, or fields) and the classes its annotations reference.

In `Attempt`, each mutation of `save()` can end in one of four ways:
* it succeeds;
* the server rejects it: the collection was deleted, or a tag mutation names a
  collection the server does not hold;
* it raises without being applied;
* with `LostResponses`, it raises after being applied.

## Runs

| Run | Expect | What it shows |
|---|---|---|
| `paginator` | pass | The cache is always the converted pages 1..k. A `for` loop yields the listing in order. `StopIteration` means exhausted. `paginator[i]` agrees with the listing. The paginator implements `LazyList`, its liveness (a loop ends) included. |
| `paginator_empty_page` | violation | A non-final page that converts empty (the `tags` filter of `Artifacts`) stops iteration early. |
| `paginator_convert_raises` | violation | A `convert_objects` that raises after the page was stored loses that page: the loop never yields its objects. |
| `collection` | pass | With legacy-attrs handles and another client editing tags and description: `_saved_name`/`_saved_type` track the server across raising mutations. Tags the handle never knew survive its saves (`save()` sends only its own diff). A returned `save()` syncs the name, description and type. `load()` finds every live collection. No move touches a reserved type or a non-sequence. |
| `collection_tags` | violation | A `save()` whose `_delete_tags` raised leaves `_saved_tags` stale. A later `save()` that returns leaves the server's tags different from the handle's. |
| `collection_lost_response` | violation | A type move applied on the server whose answer was lost leaves `_saved_type` stale; `load()` then reports the live collection as missing. |
| `fragment_order` | pass | Every class appears once, after each of its in-module bases. |
| `fragment_ties` | violation | The order is not the name-ordered topological sort that spec.md 4.1 states. |
| `redundant_classes` | pass | Without chains, no reference to a removed class is left. |
| `redundant_chain` | violation | A chain of redundant classes leaves a reference to a removed class. |
| `codegen_pipeline` | pass | After the hooks, `__init__` imports exactly the classes each generated module still defines, only from module files the package still has, and `__all__` exports exactly those names. A fragment class's two `_rewrite_field` passes give what one pass with the fragment's type name gives. |
| `codegen_cross_import` | violation | A redundant fragment class is removed while a result module still imports it. |

Setting `RetryNextAfterError = TRUE` in `MC_Paginator.cfg` (a caller calling
`next()` again on an iterator that raised) makes `YieldedInOrder` fail: the
object at the advanced index is skipped. It is a documented hazard, not a run.

The findings in PROJECT.json give each violation's counterexample and what it
means. Each property of a passing run has a mutant, a plausible bug in the
definition it is about, and TLC finds the property broken under that mutant.

### Bounds

* **Paginator**: `PerPage = 2`, up to 5 edges (so up to 3 pages), and up to 2
  raising loads.
  - This covers a final partial page and an empty listing.
  - It covers a failure before, between and after pages.
  - It covers `paginator[i]` for every i from -1 to 5.
* **ArtifactCollection**:
  - 2 names, 2 descriptions and 2 tags, as model values under symmetry.
  - Types: `dataset`, `model` and the reserved `wandbHistory`.
  - Up to 2 raising mutations.
  - This is enough for a rename, a type move and a tag add plus delete in one
    `save()`, with a raise at any position.
* **FragmentOrder**: up to 3 classes with 1 or 2 bases each, drawn from the
  classes and 2 external names. Every acyclic module is checked.
  - With 4 classes the run takes about 15 minutes, so 3 is the bound.
  - The tie counterexample needs only 2 classes.
* **CodegenPipeline**: one fragments module, one result module, one dropped
  module; 3 class names, each in either module or absent, with one base drawn
  from the visible classes, `GQLResult` and one external base, and any body
  shape. A cross-module import of a redundant class needs 2 classes.
* **FieldRewrite**: every field over targets `typename__`, `id` and `node`.
  - Annotations: `GQLId`, `str`, a class, `Literal[t]`, `Typename[Literal[t]]`,
    and unions of one and of two members.
  - Values: none, `Field(...)` with one or two keywords, and a constant.
  - Two type names.
  - `typename__` is only annotated `Literal[...]` or `Typename[...]`, as
    ariadne-codegen generates it.
* **RedundantClasses**: up to 3 classes with one base each, over the classes,
  `GQLResult` and one more external base. All three body shapes and any set of
  referenced classes are covered. A chain needs 3 classes.

### Fairness

`Paginator` assumes weak fairness of `NextObject` and `Iter`. A `for` loop
calls `next()` until `StopIteration`. A caller whose loop raised runs a new
loop (`__iter__`). Raising loads are bounded by `MaxFailures`, so they cannot
starve progress. Under this fairness the refinement's `LL!Ends` (a loop that
has not ended eventually ends) holds. `LazyList` states its liveness as that
leads-to property rather than as fairness of its own actions, because TLC
cannot evaluate `ENABLED` through the refinement mapping. The other modules
need no fairness: they check safety only.

## Not modelled

1. `ArtifactCollection`:
   - Another client renaming or moving the collection. The handle then
     addresses a name or type the server no longer has. That is by design of
     the API, so no document promises otherwise.
   - The lost update of the description: `save()` always sends
     `_description`, overwriting another client's. This is last-writer-wins,
     and nothing states otherwise, so no run checks it.
2. The paginator variants. `ArtifactTypes`, `ArtifactCollections`,
   `Artifacts`, `RunArtifacts` and `ArtifactFiles` have identical `more` and
   `cursor` hooks. They differ only in:
   - the query text;
   - the cursor variable's name (`fileCursor`/`fileLimit` for
     `ArtifactFiles`);
   - which edges `convert_objects` drops, which `kept` abstracts;
   - what `_length` reads: `total_count`, the artifact's `file_count`, or
     None for `ArtifactTypes`.

   `Paginator` therefore models them all with the `Artifacts` hooks. The
   raise of `ArtifactCollections.convert_objects` has its own switch.
3. `len()` against the number of objects iteration yields. `total_count`
   counts edges that `convert_objects` drops. The docstring promises "the
   total number of artifacts in the collection", which `total_count` is, so
   this is a hazard (artifacts.py:763) with a note, not a finding.
   `paginator[-1]` indexes the loaded objects, like a Python list; that is
   the base class's documented behaviour, not a hazard of this code.
4. `_fix_typing_imports`, the `BaseModel` to `GQLResult` base rename of
   `generate_result_class`, and the statement-grouping check of
   `FixFragmentOrder` (ariadne-codegen always emits imports, classes and
   `model_rebuild()` calls). Each is a single AST edit with nothing to check.
5. The server-version check (`server_supports_artifact_collections_gql_edges`)
   only picks query text. `apply_ruff` formats files in a subprocess. The
   `make_*` and `ast_to_cst` helpers only build syntax nodes. None of them has
   state that TLC could explore.
