---------------------------- MODULE FragmentOrder ----------------------------
(***************************************************************************)
(* FixFragmentOrder.generate_fragments_module and _sorted_class_defs      *)
(* (src/tools/graphql_codegen/plugin.py): the class definitions of the     *)
(* generated fragments module are pre-sorted by name, fed to               *)
(* graphlib.TopologicalSorter as {class name: base class names}, and put   *)
(* in the order of its static_order(); one model_rebuild() per class       *)
(* follows in the same order.                                              *)
(*                                                                         *)
(* Class names are numbers, so that < is the name order of the pre-sort;   *)
(* ExternalBases are the bases defined outside the module (GQLResult,      *)
(* imported fragment types).  static_order() is modelled after CPython's   *)
(* graphlib: nodes are registered in the order add() meets them, the first *)
(* ready group is the registered nodes without predecessors, and each      *)
(* group is the nodes that done() of the previous group made ready, in the *)
(* order it made them ready.  The hook is a pure function; every input     *)
(* module within the bounds is an initial state.                           *)
(***************************************************************************)
EXTENDS Naturals, Sequences, SequencesExt, FiniteSets, Relation

CONSTANTS
  ClassNames,     \* names the module's classes may have, ordered by <
  ExternalBases,  \* base names that are not classes of the module
  MaxBases        \* bound on the number of bases of one class

ASSUME ClassNames \cap ExternalBases = {} /\ MaxBases \in Nat \ {0}

VARIABLES
  classes,  \* the names of the ClassDef statements of the module
  bases     \* bases[c]: base_class_names of class c, in order

vars == <<classes, bases>>

Names == ClassNames \cup ExternalBases

BaseLists ==
  {s \in UNION {[1 .. n -> Names] : n \in 1 .. MaxBases} :
     \A i, j \in DOMAIN s : i # j => s[i] # s[j]}

\* Python rejects a class hierarchy with a cycle before codegen sees it.
Inherits == [p \in classes \X classes |-> p[2] \in ToSet(bases[p[1]])]
Acyclic == IsIrreflexive(TransitiveClosure(Inherits, classes), classes)

-----------------------------------------------------------------------------
(* graphlib.TopologicalSorter(graph).static_order()                         *)

\* sorted(class_defs, key=lambda c: c.name)
ByName == SetToSortSeq(classes, <)

AddNode(seq, n) == IF n \in ToSet(seq) THEN seq ELSE Append(seq, n)
AddClass(seq, c) == FoldLeft(AddNode, AddNode(seq, c), bases[c])
\* _node2info's insertion order: each class, then its not yet seen bases.
NodeOrder == FoldLeft(AddClass, <<>>, ByName)

NPredecessors(n) == IF n \in classes THEN Len(bases[n]) ELSE 0

\* successors[n]: the classes whose add() named n as a base, in add order.
Successors(n) == SelectSeq(ByName, LAMBDA c : n \in ToSet(bases[c]))

\* done(node) for one successor: it loses a predecessor and may become ready.
Release(st, s) ==
  LET left == st.cnt[s] - 1 IN
  [st EXCEPT !.cnt[s] = left,
             !.ready = IF left = 0 THEN Append(@, s) ELSE @]

Done(st, n) == FoldLeft(Release, st, Successors(n))

\* while is_active(): group = get_ready(); yield from group; done(*group)
RECURSIVE Rounds(_)
Rounds(st) ==
  IF st.ready = <<>> THEN st.out
  ELSE LET group == st.ready IN
       Rounds(FoldLeft(Done, [st EXCEPT !.ready = <<>>, !.out = @ \o group], group))

StaticOrder ==
  Rounds([cnt |-> [n \in Names |-> NPredecessors(n)],
          ready |-> SelectSeq(NodeOrder, LAMBDA n : NPredecessors(n) = 0),
          out |-> <<>>])

SortedClassDefsByName == ByName
\* sorted(ordered, key=lambda c: name2idx[c.name]): the module's classes in
\* static order; the model_rebuild() statements follow the same order.
SortedClassDefs == SelectSeq(StaticOrder, LAMBDA n : n \in classes)

-----------------------------------------------------------------------------

Init ==
  /\ classes \in SUBSET ClassNames \ {{}}
  /\ bases \in [classes -> BaseLists]
  /\ \A c \in classes : c \notin ToSet(bases[c])
  /\ Acyclic

\* The hook is applied to a fixed input; the state never changes.
Next == UNCHANGED vars

Spec == Init /\ [][Next]_vars

-----------------------------------------------------------------------------
(* Properties                                                              *)

TypeOK ==
  /\ classes \subseteq ClassNames
  /\ bases \in [classes -> BaseLists]

Position(c) == CHOOSE i \in DOMAIN SortedClassDefs : SortedClassDefs[i] = c

\* The rewritten module defines every class exactly once, and every class
\* after each of its bases that the module itself defines (spec.md 8).
ParentsFirst ==
  /\ Len(SortedClassDefs) = Cardinality(classes)
  /\ ToSet(SortedClassDefs) = classes
  /\ \A c \in classes :
       \A b \in ToSet(bases[c]) \cap classes : Position(b) < Position(c)

\* The topological sort breaking ties by class name, as spec.md 4.1 states
\* it: each next class is the first by name of those whose bases are placed.
RECURSIVE LeastByName(_, _)
LeastByName(placed, rest) ==
  IF rest = {} THEN placed
  ELSE LET free == {c \in rest : ToSet(bases[c]) \cap classes \subseteq ToSet(placed)}
           first == CHOOSE c \in free : \A d \in free : c <= d
       IN LeastByName(Append(placed, first), rest \ {first})

\* _sorted_class_defs yields the name-ordered topological sort.
TiesBrokenByName == SortedClassDefs = LeastByName(<<>>, classes)

=============================================================================
