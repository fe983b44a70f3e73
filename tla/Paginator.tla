----------------------------- MODULE Paginator -----------------------------
(***************************************************************************)
(* The cursor-paginated collections of src/wandb/apis/public/artifacts.py *)
(* (ArtifactTypes, ArtifactCollections, Artifacts, RunArtifacts,          *)
(* ArtifactFiles) together with the Paginator / SizedPaginator base class *)
(* (wandb/apis/paginator.py, not under src/, modelled from spec.md 4.2).   *)
(*                                                                         *)
(* The server holds `total` edges, numbered 1..total, served PerPage at a *)
(* time; the cursor of page k is k and a query with cursor c answers page *)
(* c+1.  convert_objects keeps the edges in `kept`: the others have a null *)
(* node, a null artifact_sequence, or (Artifacts) lack a required tag.     *)
(* The caller is a Python `for` loop over the paginator plus arbitrary     *)
(* paginator[i] and len(paginator) calls.                                  *)
(***************************************************************************)
EXTENDS Naturals, Integers, Sequences, SequencesExt

CONSTANTS
  PerPage,             \* per_page: edges per page
  MaxItems,            \* bound on the number of edges on the server
  MaxFailures,         \* bound on page fetches that raise, per behaviour
  EmptyPagesPossible,  \* may a whole page convert to no objects?
  RetryNextAfterError, \* does the caller call next() again after it raised?
  ConvertMayRaise      \* may convert_objects raise (ArtifactCollections)?

ASSUME PerPage \in Nat \ {0} /\ MaxItems \in Nat /\ MaxFailures \in Nat
ASSUME EmptyPagesPossible \in BOOLEAN /\ RetryNextAfterError \in BOOLEAN
ASSUME ConvertMayRaise \in BOOLEAN

VARIABLES
  total,         \* server: number of edges in the remote collection
  kept,          \* server: the edges convert_objects turns into objects
  lastResponse,  \* last_response: None, or the number of the page it holds
  cursorVar,     \* self.variables["cursor"], sent with the next query
  objects,       \* self.objects: every object converted so far
  index,         \* self.index: position of the object __next__ returned last
  status,        \* caller: "ready", "error" (last next() raised), "stopped"
  yielded,       \* history: the objects next() returned since __iter__
  got,           \* history: the outcome of the last paginator[i]
  failures       \* number of page fetches that raised so far

server == <<total, kept>>
pager == <<lastResponse, cursorVar, objects>>
vars == <<server, pager, index, status, yielded, got, failures>>

None == 0          \* last_response = None, cursor = None
MaxIndex == MaxItems + 1
GetIndexes == -1 .. MaxItems

-----------------------------------------------------------------------------
(* The server                                                              *)

NumPages == IF total = 0 THEN 1 ELSE (total + PerPage - 1) \div PerPage

PageSize(k) ==
  IF k > NumPages THEN 0
  ELSE IF total - (k - 1) * PerPage < PerPage THEN total - (k - 1) * PerPage
  ELSE PerPage

PageEdges(k) == [j \in 1 .. PageSize(k) |-> (k - 1) * PerPage + j]

HasNextPage(k) == k < NumPages    \* page_info.has_next_page of page k
EndCursor(k) == k                 \* page_info.end_cursor of page k
Answer(c) == c + 1                \* the page a query with cursor c returns

\* Every object a full listing of the collection holds, in server order.
AllObjects == SelectSeq([e \in 1 .. total |-> e], LAMBDA e : e \in kept)

NoEmptyPage ==
  \A k \in 1 .. NumPages :
    PageSize(k) > 0 => \E j \in 1 .. PageSize(k) : PageEdges(k)[j] \in kept

-----------------------------------------------------------------------------
(* The subclass hooks, per artifacts.py                                    *)

moreWithoutNextPage(lr) == lr = None
morePastLastPage(lr) == lr = None \/ lr <= NumPages
\* more: True before the first page, then page_info.has_next_page.
more(lr) == lr = None \/ HasNextPage(lr)

cursorAlwaysNone(lr) == None
\* cursor: None before the first page, then page_info.end_cursor.
cursor(lr) == IF lr = None THEN None ELSE EndCursor(lr)

\* convert_objects: the converted edges of the page last_response holds.
ConvertObjects(k) == SelectSeq(PageEdges(k), LAMBDA e : e \in kept)

\* A paginator's page state as a record, so that several page loads can be
\* composed within the one handler that performs them.
Pager == [lr |-> lastResponse, cv |-> cursorVar, objs |-> objects]

SetPager(st) ==
  /\ lastResponse' = st.lr
  /\ cursorVar' = st.cv
  /\ objects' = st.objs

\* Paginator.update_variables, which Artifacts inherits:
\* variables.update({"perPage": self.per_page, "cursor": self.cursor}).
\* perPage never changes, so only the cursor binding is state.
UpdateVariables(st) == [st EXCEPT !.cv = cursor(st.lr)]

LoadStepNoExtend(st) ==
  LET u == UpdateVariables(st) IN [u EXCEPT !.lr = Answer(u.cv)]
\* One successful _load_page: update_variables binds the cursor, then
\* _update_response stores the validated page the query returned, then
\* objects.extend(convert_objects()).
LoadStep(st) ==
  LET u == UpdateVariables(st) IN
  [u EXCEPT !.lr = Answer(u.cv), !.objs = @ \o ConvertObjects(Answer(u.cv))]

\* A _load_page whose _update_response raised (execute failed, or the
\* project/type/collection/connection was missing from the response):
\* update_variables already ran, last_response and objects are unchanged.
FailedLoad(st) == UpdateVariables(st)

\* A _load_page whose convert_objects raised: ArtifactCollections builds
\* each ArtifactCollection without attrs, so its __init__ runs load(), one
\* more query per object, which raises when that collection is not found.
\* _update_response already stored the new page; objects is not extended.
ConvertRaised(st) ==
  LET u == UpdateVariables(st) IN [u EXCEPT !.lr = Answer(u.cv)]

\* Every way one _load_page can raise.
FailedLoads(st) ==
  {FailedLoad(st)} \cup (IF ConvertMayRaise THEN {ConvertRaised(st)} ELSE {})

RECURSIVE Loads(_, _)
Loads(st, n) == IF n = 0 THEN st ELSE Loads(LoadStep(st), n - 1)

RECURSIVE LoadsNeededOffByOne(_, _)
LoadsNeededOffByOne(st, stop) ==
  IF stop > Len(st.objs) /\ more(st.lr)
  THEN 1 + LoadsNeededOffByOne(LoadStep(st), stop) ELSE 0
\* The number of pages __getitem__'s loop loads to reach position stop.
RECURSIVE LoadsNeeded(_, _)
LoadsNeeded(st, stop) ==
  IF stop > Len(st.objs) - 1 /\ more(st.lr)
  THEN 1 + LoadsNeeded(LoadStep(st), stop) ELSE 0

-----------------------------------------------------------------------------
(* The caller's operations                                                 *)

Init ==
  /\ total \in 0 .. MaxItems
  /\ kept \in SUBSET (1 .. total)
  /\ EmptyPagesPossible \/ NoEmptyPage
  /\ lastResponse = None
  /\ cursorVar = None
  /\ objects = <<>>
  /\ index = -1
  /\ status = "ready"
  /\ yielded = <<>>
  /\ got = [kind |-> "none", idx |-> -1, val |-> 0]
  /\ failures = 0

IterKeepIndex ==
  /\ status \in {"error", "stopped"}
  /\ index' = index
  /\ yielded' = <<>>
  /\ status' = "ready"
  /\ UNCHANGED <<server, pager, got, failures>>
\* __iter__: a new `for` loop, after the previous one raised or ended.
Iter ==
  /\ status \in {"error", "stopped"}
  /\ index' = -1
  /\ yielded' = <<>>
  /\ status' = "ready"
  /\ UNCHANGED <<server, pager, got, failures>>

\* __next__: index += 1 first; then the cached object, or one _load_page.
NextObject ==
  LET i == index + 1 IN
  /\ \/ status \in {"ready", "stopped"}
     \/ status = "error" /\ RetryNextAfterError
  /\ i <= MaxIndex
  /\ index' = i
  /\ \/ /\ Len(objects) > i
        /\ yielded' = Append(yielded, objects[i + 1])
        /\ status' = "ready"
        /\ UNCHANGED <<pager, failures>>
     \/ /\ Len(objects) <= i
        /\ ~more(lastResponse)
        /\ status' = "stopped"
        /\ UNCHANGED <<pager, yielded, failures>>
     \/ /\ Len(objects) <= i
        /\ more(lastResponse)
        /\ LET st == LoadStep(Pager) IN
             /\ SetPager(st)
             /\ Len(st.objs) > i
             /\ yielded' = Append(yielded, st.objs[i + 1])
             /\ status' = "ready"
        /\ UNCHANGED failures
     \/ /\ Len(objects) <= i
        /\ more(lastResponse)
        /\ LET st == LoadStep(Pager) IN
             /\ SetPager(st)
             /\ Len(st.objs) <= i
        /\ status' = "stopped"
        /\ UNCHANGED <<yielded, failures>>
     \/ /\ Len(objects) <= i
        /\ more(lastResponse)
        /\ failures < MaxFailures
        /\ \E st \in FailedLoads(Pager) : SetPager(st)
        /\ failures' = failures + 1
        /\ status' = "error"
        /\ UNCHANGED yielded
  /\ UNCHANGED <<server, got>>

\* Python's objects[i] on the loaded list, including i = -1.
Lookup(objs, i) ==
  IF i >= 0 /\ i < Len(objs) THEN [kind |-> "ok", idx |-> i, val |-> objs[i + 1]]
  ELSE IF i < 0 /\ Len(objs) > 0 THEN [kind |-> "ok", idx |-> i, val |-> objs[Len(objs) + 1 + i]]
  ELSE [kind |-> "IndexError", idx |-> i, val |-> 0]

\* __getitem__(i): load pages while stop > len(objects) - 1 and a load
\* happened, then index the loaded objects; a raising load ends the call.
GetItem(i) ==
  LET n == LoadsNeeded(Pager, i) IN
  /\ \/ /\ SetPager(Loads(Pager, n))
        /\ got' = Lookup(Loads(Pager, n).objs, i)
        /\ UNCHANGED failures
     \/ /\ failures < MaxFailures
        /\ \E j \in 0 .. n - 1 : \E st \in FailedLoads(Loads(Pager, j)) : SetPager(st)
        /\ got' = [kind |-> "Error", idx |-> i, val |-> 0]
        /\ failures' = failures + 1
  /\ UNCHANGED <<server, index, status, yielded>>

\* __len__ -> _length: the first page is loaded if none is, then the
\* server's total_count is returned (a pure read once a page is held).
Length ==
  /\ lastResponse = None
  /\ \/ /\ SetPager(LoadStep(Pager))
        /\ UNCHANGED failures
     \/ /\ failures < MaxFailures
        /\ \E st \in FailedLoads(Pager) : SetPager(st)
        /\ failures' = failures + 1
  /\ UNCHANGED <<server, index, status, yielded, got>>

Next ==
  \/ Iter
  \/ NextObject
  \/ \E i \in GetIndexes : GetItem(i)
  \/ Length

\* A `for` loop keeps calling next() and a failed loop is run again.
Fairness == WF_vars(NextObject) /\ WF_vars(Iter)

Spec == Init /\ [][Next]_vars /\ Fairness

-----------------------------------------------------------------------------
(* Properties                                                              *)

TypeOK ==
  /\ total \in 0 .. MaxItems
  /\ kept \subseteq 1 .. total
  /\ lastResponse \in 0 .. NumPages
  /\ cursorVar \in 0 .. NumPages
  /\ objects \in Seq(1 .. total)
  /\ index \in -1 .. MaxIndex
  /\ status \in {"ready", "error", "stopped"}
  /\ yielded \in Seq(1 .. total)
  /\ got \in [kind : {"none", "ok", "IndexError", "Error"},
              idx : GetIndexes, val : 0 .. MaxItems]
  /\ failures \in 0 .. MaxFailures

\* The cache of _load_page is exactly the converted pages 1..k, each once
\* and in order, where k is the page last_response holds, whatever
\* failures hit update_variables/_update_response in between.
CacheIsServerPrefix ==
  objects = FlattenSeq([k \in 1 .. lastResponse |-> ConvertObjects(k)])

\* The objects a `for` loop receives from __next__ are the listing's
\* objects, in order, none skipped and none repeated.
YieldedInOrder == IsPrefix(yielded, AllObjects)

\* __next__ raises StopIteration only when the loop has received every
\* object of the collection.
StopMeansExhausted == status = "stopped" => yielded = AllObjects

\* paginator[i] (i >= 0) returns the i-th object of the listing, and raises
\* IndexError only when the listing has no i-th object.
GetItemAgrees ==
  got.idx >= 0 =>
    /\ got.kind = "ok" => got.idx < Len(AllObjects) /\ got.val = AllObjects[got.idx + 1]
    /\ got.kind = "IndexError" => got.idx >= Len(AllObjects)

\* The paginator implements the lazy list of LazyList: its cache only grows,
\* as a prefix of the listing; a `for` loop receives the listing's objects
\* in order, StopIteration comes only once it has received all of them,
\* and a loop (re-run after failures) eventually ends.
LL == INSTANCE LazyList
        WITH list <- AllObjects, cache <- objects, yielded <- yielded,
             done <- (status = "stopped")

ImplementsLazyList == LL!LiveSpec

=============================================================================
