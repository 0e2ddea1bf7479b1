-------------------------- MODULE DependencyCycle --------------------------
(***************************************************************************)
(* The depth-first search of hasDependencyCycle in task-store.mjs, call by *)
(* call, against the definition of a cycle that the other modules use.     *)
(*                                                                         *)
(* The search shares one `path' and one `visited' set over all its calls   *)
(* and stops at the first cycle.  Its result must not depend on the order  *)
(* of the dependency arrays, so they are sequences here.                   *)
(***************************************************************************)
EXTENDS TaskState, Sequences, Functions

\* The searches begun, each [dependencies, root]: the dependency array of every
\* task of the snapshot, and the task asked about, which is one of them.  An
\* array may repeat an id, and name one the snapshot does not have.
CONSTANT Searches

ASSUME SearchesAssumption ==
  \A begun \in Searches : \E known \in SUBSET Tasks :
    begun.root \in known /\ begun.dependencies \in [known -> Seq(Tasks)]

VARIABLES
  dependencies,  \* the dependency array of every task there is
  search         \* the root, the calls under way, the two sets and the verdict

cycleVars == <<dependencies, search>>

\* A call that is in its loop: its task, and the dependencies still to be
\* looked at.
CallFor(t) == [id |-> t, left |-> dependencies[t]]

CycleInit ==
  \E begun \in Searches :
    /\ dependencies = begun.dependencies
    /\ search = [root |-> begun.root, path |-> {begun.root}, visited |-> {},
                 calls |-> <<CallFor(begun.root)>>, verdict |-> "searching"]

-----------------------------------------------------------------------------

Deepest == search.calls[Len(search.calls)]

\* The deepest call has a dependency to look at next.
Looking == search.verdict = "searching" /\ Deepest.left # <<>>

\* The calls once that dependency has been taken from the array.
Looked == [search.calls EXCEPT ![Len(search.calls)].left = Tail(@)]

\* True, which every call hands up at once.
FindsCycle ==
  /\ Looking /\ Head(Deepest.left) \in search.path
  /\ search' = [search EXCEPT !.verdict = "cycle"]
  /\ UNCHANGED dependencies

\* False: searched before, or there is no such task.
PassesOver ==
  /\ Looking
  /\ LET d == Head(Deepest.left) IN
       /\ d \notin search.path
       /\ d \in search.visited \/ d \notin DOMAIN dependencies
  /\ search' = [search EXCEPT !.calls = Looked]
  /\ UNCHANGED dependencies

GoesDeeper ==
  /\ Looking
  /\ LET d == Head(Deepest.left) IN
       /\ d \in DOMAIN dependencies \ (search.path \cup search.visited)
       /\ search' = [search EXCEPT !.calls = Append(Looked, CallFor(d)),
                                   !.path = @ \cup {d}]
  /\ UNCHANGED dependencies

\* Slip: the path is not cleared on the way back, so a task reached twice by
\* different ways looks like a cycle.
Finished_KeepsPath(left) ==
  [search EXCEPT !.visited = @ \cup {Deepest.id}, !.calls = left,
                 !.verdict = IF left = <<>> THEN "none" ELSE @]

\* False from the deepest call, with these calls left; from the first one it is
\* the answer.
Finished(left) ==
  [search EXCEPT !.path = @ \ {Deepest.id}, !.visited = @ \cup {Deepest.id},
                 !.calls = left, !.verdict = IF left = <<>> THEN "none" ELSE @]

GoesBack ==
  /\ search.verdict = "searching" /\ Deepest.left = <<>>
  /\ search' = Finished(SubSeq(search.calls, 1, Len(search.calls) - 1))
  /\ UNCHANGED dependencies

CycleNext == FindsCycle \/ PassesOver \/ GoesDeeper \/ GoesBack

CycleSpec == CycleInit /\ [][CycleNext]_cycleVars

-----------------------------------------------------------------------------

\* The snapshot with these dependencies, as far as the definition looks at it.
Snapshot ==
  [tasks |-> [t \in Tasks |->
     [dependencies |-> IF t \in DOMAIN dependencies THEN Range(dependencies[t])
                       ELSE {}]]]

\* From every root, in every graph and array order, the search finds a cycle
\* exactly when one can be reached: a shared visited set hides none, and a
\* task that two others depend on is not taken for one.
SearchFindsCycles ==
  search.verdict # "searching" =>
    (search.verdict = "cycle" <=> HasDependencyCycle(Snapshot, search.root))
=============================================================================
