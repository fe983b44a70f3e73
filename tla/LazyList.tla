------------------------------ MODULE LazyList ------------------------------
(***************************************************************************)
(* What a paginated listing of src/wandb/apis/public/artifacts.py promises *)
(* its caller, with pages and cursors abstracted away: a fixed list of     *)
(* objects, a cache that only ever grows as a prefix of that list, and a   *)
(* `for` loop that receives the list's objects one by one, in order, and   *)
(* is told it is done only once it has received all of them.              *)
(***************************************************************************)
EXTENDS Naturals, Sequences, SequencesExt

VARIABLES
  list,     \* the objects a full listing of the collection holds
  cache,    \* the objects fetched so far
  yielded,  \* the objects the current loop has received
  done      \* the current loop has ended (StopIteration)

vars == <<list, cache, yielded, done>>

\* A cache c2 after a cache c: the same, or a longer prefix of the list.
Grown(c, c2) == IsPrefix(c, c2) /\ IsPrefix(c2, list)

Init ==
  /\ cache = <<>>
  /\ yielded = <<>>
  /\ done = FALSE

\* Pages are fetched without the loop moving (paginator[i], len()).
Fetch ==
  /\ Grown(cache, cache')
  /\ cache' # cache
  /\ UNCHANGED <<list, yielded, done>>

\* The loop receives the next object of the list, fetching it if need be.
Yield ==
  /\ ~done
  /\ Len(yielded) < Len(list)
  /\ yielded' = Append(yielded, list[Len(yielded) + 1])
  /\ Grown(cache, cache')
  /\ Len(cache') >= Len(yielded')
  /\ UNCHANGED <<list, done>>

\* The loop ends, having received the whole list.
Stop ==
  /\ yielded = list
  /\ done' = TRUE
  /\ Grown(cache, cache')
  /\ UNCHANGED <<list, yielded>>

\* A new loop starts over the same listing.
Restart ==
  /\ yielded' = <<>>
  /\ done' = FALSE
  /\ UNCHANGED <<list, cache>>

Next == Fetch \/ Yield \/ Stop \/ Restart

Spec == Init /\ [][Next]_vars

\* A loop that has not ended keeps receiving objects until it ends: the
\* liveness a `for` loop, re-run after failures, is owed.
Ends == ~done ~> done

LiveSpec == Spec /\ Ends

=============================================================================
