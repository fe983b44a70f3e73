------------------------- MODULE ArtifactCollection -------------------------
(***************************************************************************)
(* One ArtifactCollection handle (src/wandb/apis/public/artifacts.py) and  *)
(* the server's copy of the collection it edits.  Setters stage name,      *)
(* description, type and tags locally; save() validates the type change,   *)
(* then issues update, move, add-tags and delete-tags mutations in that    *)
(* order, each of which may raise; change_type() and delete() mutate the   *)
(* server directly.  A mutation that raises either did not reach the       *)
(* server, or (LostResponses) was applied and its answer was lost.         *)
(***************************************************************************)
EXTENDS Naturals, Sequences

CONSTANTS
  Names,          \* valid collection names (validate_artifact_name passes)
  Descriptions,   \* descriptions
  Types,          \* artifact type names
  Reserved,       \* the types validate_artifact_type rejects
  Tags,           \* valid tag names (validate_tags passes)
  MaxFailures,    \* bound on raising mutations per behaviour
  LostResponses,  \* may a raising mutation have been applied by the server?
  LegacyAttrs,    \* may the handle be built from caller-supplied attrs?
  OtherWriter     \* does another client edit the collection's tags and description?

ASSUME /\ Reserved \subseteq Types /\ MaxFailures \in Nat
       /\ {LostResponses, LegacyAttrs, OtherWriter} \subseteq BOOLEAN

VARIABLES
  srv,       \* server: [exists, name, description, type, tags]
  coll,      \* the handle: _name, _saved_name, _type, _saved_type,
             \* _description, _tags, _saved_tags, _is_sequence
  synced,    \* history: the last save() returned and nothing was staged since
  failures,  \* number of mutations that raised so far
  lastLoad,  \* history: outcome of the last load(): "none", "ok", "notFound"
  unknown    \* history: server tags the handle's snapshot never held and
             \* its user has not staged since

vars == <<srv, coll, synced, failures, lastLoad, unknown>>

ServerRecords ==
  [exists : BOOLEAN, name : Names, description : Descriptions,
   type : Types, tags : SUBSET Tags]

HandleRecords ==
  [name : Names, savedName : Names, type : Types, savedType : Types,
   description : Descriptions, tags : SUBSET Tags, savedTags : SUBSET Tags,
   isSequence : BOOLEAN]

-----------------------------------------------------------------------------
(* The mutations, as the code composes them and the server applies them   *)

ServerApplySavedName(call, s, c) ==
  CASE call = "update" -> [s EXCEPT !.name = c.savedName, !.description = c.description]
    [] call = "move"   -> [s EXCEPT !.type = c.type]
    [] call = "add"    -> [s EXCEPT !.tags = @ \cup (c.tags \ c.savedTags)]
    [] call = "delete" -> [s EXCEPT !.tags = @ \ (c.savedTags \ c.tags)]
ServerApplyDeleteUnstaged(call, s, c) ==
  CASE call = "update" -> [s EXCEPT !.name = c.name, !.description = c.description]
    [] call = "move"   -> [s EXCEPT !.type = c.type]
    [] call = "add"    -> [s EXCEPT !.tags = @ \cup (c.tags \ c.savedTags)]
    [] call = "delete" -> [s EXCEPT !.tags = @ \cap c.tags]
\* _update_collection sends (id, _name, _description); _update_collection_type
\* sends (id, _type); _add_tags / _delete_tags send the tag diff for the
\* collection named _saved_name.  Tag assignment is a set operation.
ServerApply(call, s, c) ==
  CASE call = "update" -> [s EXCEPT !.name = c.name, !.description = c.description]
    [] call = "move"   -> [s EXCEPT !.type = c.type]
    [] call = "add"    -> [s EXCEPT !.tags = @ \cup (c.tags \ c.savedTags)]
    [] call = "delete" -> [s EXCEPT !.tags = @ \ (c.savedTags \ c.tags)]

\* The server rejects a mutation on a deleted collection, and a tag
\* mutation for a collection name it does not hold.
Accepts(call, s, c) ==
  /\ s.exists
  /\ call \in {"add", "delete"} => s.name = c.savedName

ClientAfterNoSavedType(call, c) ==
  CASE call = "update" -> [c EXCEPT !.savedName = c.name]
    [] OTHER -> c
\* What the handle records once a mutation returned.
ClientAfter(call, c) ==
  CASE call = "update" -> [c EXCEPT !.savedName = c.name]
    [] call = "move"   -> [c EXCEPT !.savedType = c.type]
    [] OTHER -> c

\* The mutations save() issues, in order.
Calls(c) ==
  <<"update">>
  \o (IF c.isSequence /\ c.savedType # c.type THEN <<"move">> ELSE <<>>)
  \o (IF c.tags \ c.savedTags # {} THEN <<"add">> ELSE <<>>)
  \o (IF c.savedTags \ c.tags # {} THEN <<"delete">> ELSE <<>>)

Outcome(s, c, raised, f) == [srv |-> s, coll |-> c, raised |-> raised, failures |-> f]

\* Every way the remaining calls can end: all return, the server rejects
\* one, or one raises (applied or not).
RECURSIVE Attempt(_, _, _, _)
Attempt(s, c, calls, f) ==
  IF calls = <<>> THEN {Outcome(s, c, FALSE, f)}
  ELSE LET call == Head(calls) IN
    IF ~Accepts(call, s, c) THEN {Outcome(s, c, TRUE, f)}
    ELSE Attempt(ServerApply(call, s, c), ClientAfter(call, c), Tail(calls), f)
         \cup (IF f < MaxFailures THEN {Outcome(s, c, TRUE, f + 1)} ELSE {})
         \cup (IF f < MaxFailures /\ LostResponses
               THEN {Outcome(ServerApply(call, s, c), c, TRUE, f + 1)} ELSE {})

SaveValidatesNewOnly(c) == c.savedType # c.type => c.type \notin Reserved
\* save()'s checks: a changed type must not be, nor replace, a reserved type.
SaveValidates(c) ==
  c.savedType # c.type => c.type \notin Reserved /\ c.savedType \notin Reserved

\* change_type()'s checks: the saved type (if it changes) and the new type
\* are not reserved, and the collection is a sequence.
ChangeTypeValidates(c, t) ==
  /\ c.savedType # t => c.savedType \notin Reserved
  /\ t \notin Reserved
  /\ c.isSequence

-----------------------------------------------------------------------------
(* Operations                                                              *)

\* ArtifactCollection(...): _name/_saved_name and _type/_saved_type from the
\* arguments (the server's), then _description, _tags and _saved_tags from
\* _attrs.  Without attrs (or is_sequence), load() reads _attrs from the
\* server; with both (LegacyAttrs), _attrs is the caller's possibly
\* incomplete fragment: any description, and a subset of the server's tags.
Init ==
  /\ srv \in {r \in ServerRecords : r.exists}
  /\ \E isSeq \in BOOLEAN, legacy \in {FALSE, LegacyAttrs},
       d \in Descriptions, ts \in SUBSET srv.tags :
       LET attrs == IF legacy THEN [description |-> d, tags |-> ts]
                    ELSE [description |-> srv.description, tags |-> srv.tags]
       IN /\ coll = [name |-> srv.name, savedName |-> srv.name, type |-> srv.type,
                     savedType |-> srv.type, description |-> attrs.description,
                     tags |-> attrs.tags, savedTags |-> attrs.tags,
                     isSequence |-> isSeq]
          /\ synced = ~legacy
          /\ unknown = srv.tags \ attrs.tags
  /\ failures = 0
  /\ lastLoad = "none"

\* The name, description and tags setters (validation passes on the model's
\* values).
SetName(n) ==
  /\ coll' = [coll EXCEPT !.name = n]
  /\ synced' = FALSE
  /\ UNCHANGED <<srv, failures, lastLoad, unknown>>

SetDescription(d) ==
  /\ coll' = [coll EXCEPT !.description = d]
  /\ synced' = FALSE
  /\ UNCHANGED <<srv, failures, lastLoad, unknown>>

SetTags(ts) ==
  /\ coll' = [coll EXCEPT !.tags = ts]
  /\ synced' = FALSE
  /\ unknown' = unknown \ ts
  /\ UNCHANGED <<srv, failures, lastLoad>>

\* The type setter raises unless the collection is a sequence.
SetType(t) ==
  /\ coll.isSequence
  /\ coll' = [coll EXCEPT !.type = t]
  /\ synced' = FALSE
  /\ UNCHANGED <<srv, failures, lastLoad, unknown>>

\* save(): the validation, then the calls of Calls in order, then
\* _saved_tags = copy(_tags) once all of them returned.
Save ==
  /\ SaveValidates(coll)
  /\ \E o \in Attempt(srv, coll, Calls(coll), failures) :
       /\ srv' = o.srv
       /\ coll' = IF o.raised THEN o.coll
                  ELSE [o.coll EXCEPT !.savedTags = o.coll.tags]
       /\ failures' = o.failures
       /\ synced' = ~o.raised
  /\ UNCHANGED <<lastLoad, unknown>>

\* change_type(t): the checks, one move mutation to t, then _saved_type and
\* _type both become t; a raise leaves the handle as it was.
ChangeType(t) ==
  /\ ChangeTypeValidates(coll, t)
  /\ \E o \in Attempt(srv, [coll EXCEPT !.type = t], <<"move">>, failures) :
       /\ srv' = o.srv
       /\ coll' = IF o.raised THEN coll ELSE o.coll
       /\ failures' = o.failures
       /\ synced' = (synced /\ ~o.raised)
  /\ UNCHANGED <<lastLoad, unknown>>

\* delete(): the collection is removed on the server.
Delete ==
  /\ srv.exists
  /\ srv' = [srv EXCEPT !.exists = FALSE]
  /\ synced' = FALSE
  /\ UNCHANGED <<coll, failures, lastLoad, unknown>>

LoadByName ==
  /\ lastLoad' = IF srv.exists /\ srv.name = coll.name /\ srv.type = coll.savedType
                 THEN "ok" ELSE "notFound"
  /\ UNCHANGED <<srv, coll, synced, failures, unknown>>
\* load(): queries the collection named _saved_name of type _saved_type and
\* raises "Could not find" when the server has no such collection; on
\* success only _attrs and _is_sequence (fixed here) are refreshed.
Load ==
  /\ lastLoad' = IF srv.exists /\ srv.name = coll.savedName /\ srv.type = coll.savedType
                 THEN "ok" ELSE "notFound"
  /\ UNCHANGED <<srv, coll, synced, failures, unknown>>

\* ArtifactType(t).collection(n): ArtifactType's __init__ runs its load()
\* (the types of the model all exist), then ArtifactCollection(..., n, t)
\* builds a new handle through load(), which raises unless the server
\* holds collection n of type t.  The new handle replaces the old one: its
\* fields and snapshots are the server's.
TypeCollection(t, n) ==
  /\ srv.exists /\ srv.name = n /\ srv.type = t
  /\ coll' = [coll EXCEPT !.name = n, !.savedName = n, !.type = t, !.savedType = t,
                          !.description = srv.description,
                          !.tags = srv.tags, !.savedTags = srv.tags]
  /\ synced' = TRUE
  /\ unknown' = {}
  /\ UNCHANGED <<srv, failures, lastLoad>>

\* Another client (the UI, another run) adds or removes one tag, or sets
\* the description, of the live collection.  A tag it adds that the
\* handle neither holds nor staged is unknown to the handle.
OtherTags ==
  /\ OtherWriter /\ srv.exists
  /\ \E t \in Tags :
       \/ /\ srv' = [srv EXCEPT !.tags = @ \cup {t}]
          /\ unknown' = unknown \cup ({t} \ (coll.tags \cup coll.savedTags \cup srv.tags))
       \/ /\ srv' = [srv EXCEPT !.tags = @ \ {t}]
          /\ unknown' = unknown \ {t}
  /\ synced' = FALSE
  /\ UNCHANGED <<coll, failures, lastLoad>>

OtherDescription ==
  /\ OtherWriter /\ srv.exists
  /\ \E d \in Descriptions : srv' = [srv EXCEPT !.description = d]
  /\ synced' = FALSE
  /\ UNCHANGED <<coll, failures, lastLoad, unknown>>

Next ==
  \/ \E n \in Names : SetName(n)
  \/ \E d \in Descriptions : SetDescription(d)
  \/ \E ts \in SUBSET Tags : SetTags(ts)
  \/ \E t \in Types : SetType(t)
  \/ Save
  \/ \E t \in Types : ChangeType(t)
  \/ Delete
  \/ Load
  \/ \E t \in Types, n \in Names : TypeCollection(t, n)
  \/ OtherTags
  \/ OtherDescription

Spec == Init /\ [][Next]_vars

-----------------------------------------------------------------------------
(* Properties                                                              *)

TypeOK ==
  /\ srv \in ServerRecords
  /\ coll \in HandleRecords
  /\ synced \in BOOLEAN
  /\ failures \in 0 .. MaxFailures
  /\ lastLoad \in {"none", "ok", "notFound"}
  /\ unknown \subseteq Tags

\* The saved name and type, which load(), artifacts() and the tag mutations
\* use to address the collection, are the server's name and type, across
\* any mutation of save() or change_type() that raised.
SavedMatchesServer ==
  srv.exists => coll.savedName = srv.name /\ coll.savedType = srv.type

\* Once save() has returned, the server holds the handle's name,
\* description and type.
SyncedFieldsMatch ==
  synced =>
    /\ srv.name = coll.name
    /\ srv.description = coll.description
    /\ srv.type = coll.type

\* Once save() has returned, the server's tags are the handle's tags.
SyncedTagsMatch == synced => srv.tags = coll.tags

\* load() (and artifacts(), which addresses the collection by the same
\* _saved_name and _saved_type) finds the collection whenever the server
\* still has it, whatever save() and change_type() calls raised before.
LoadFindsLiveCollection == lastLoad = "notFound" => ~srv.exists

\* save() sends only the diff of _tags against _saved_tags, so a tag the
\* handle's snapshot never held (left out of legacy attrs, or added by
\* another client after load(), which does not refresh _tags) stays on the
\* server until the handle's user stages it, whatever save() raised.
UnknownTagsKept == unknown \subseteq srv.tags

\* The server's type changes only for a sequence, and never from or to a
\* reserved type, whether through save() or change_type().
TypeMoveGuarded ==
  [][srv.type' # srv.type =>
       /\ coll.isSequence
       /\ srv.type \notin Reserved
       /\ srv.type' \notin Reserved]_vars

=============================================================================
