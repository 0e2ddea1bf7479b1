-------------------------- MODULE TaskQueueProofs --------------------------
(***************************************************************************)
(* Proofs about the task queue for any tasks, workers, operations, refs,   *)
(* recipes and bounds.  What a single command does to a snapshot is proved *)
(* in TaskStateProofs; here the commands are put in sequence.              *)
(***************************************************************************)
EXTENDS TaskQueue, TaskCheck, TaskStateProofs, SequenceTheorems

USE DEF NoLease, NoResult, NoRecovery

-----------------------------------------------------------------------------
(* Every step is a command on the queue, or leaves the queue alone. *)

\* A commit adds a version to what the command wrote.
Committed(n) == queue' = [n EXCEPT !.version = queue.version + 1]

LEMMA WritesCommits ==
  ASSUME NEW nexts, Writes(nexts)
  PROVE  refs' = refs /\ clock' = clock /\ \E n \in nexts : Committed(n)
BY DEF Writes, Commit, Committed

LEMMA CommittedKeeps ==
  ASSUME NEW n \in State, Committed(n)
  PROVE  /\ queue'.tasks = n.tasks
         /\ queue'.operations = n.operations
         /\ queue'.intents = n.intents
BY DEF Committed, State

\* What an action that is neither Apply nor Complete does.
Quiet ==
  \/ queue' = queue
  \/ /\ refs' = refs /\ clock' = clock
     /\ \E n : QuietCommand(queue, n, clock) /\ Committed(n)

LEMMA NextQuiet ==
  ASSUME TypeOK, [Next]_vars, ~Apply, ~Complete
  PROVE  Quiet
<1>t. \A at \in Times : at \in 0..clock  BY DEF Times
<1>e. \A t \in Tasks : /\ queue.tasks[t].epoch \in Nat
                       /\ queue.tasks[t].status \in Statuses
                       /\ queue.tasks[t].laneRecipe \in Recipes \cup {NoRecipe}
  BY TaskOf DEF Task, TypeOK
<1>r. 1..MaxRevision \subseteq Nat  BY BoundsAssumption
<1>w. ASSUME NEW nexts, Writes(nexts),
             \A n \in nexts : QuietCommand(queue, n, clock)
      PROVE  Quiet
  BY <1>w, WritesCommits DEF Quiet
<1>1. CASE AddTask
  BY <1>1, <1>w, Zenon DEF AddTask, QuietCommand, Adds
<1>2. CASE MarkTaskReady
  BY <1>2, <1>w, Zenon DEF MarkTaskReady, QuietCommand, MarksReady
<1>3. CASE EditTask
  BY <1>3, <1>w, Zenon DEF EditTask, QuietCommand, Edits
<1>4. CASE ClaimTask
  BY <1>4, <1>t, <1>w, Zenon DEF ClaimTask, QuietCommand, ClaimsNamed
<1>5. CASE ClaimReadyTask
  BY <1>5, <1>t, <1>w, Zenon DEF ClaimReadyTask, QuietCommand, ClaimsReady
<1>6. CASE RenewTaskClaim
  BY <1>6, <1>t, <1>e, <1>w, Zenon DEF RenewTaskClaim, QuietCommand, Renews
<1>7. CASE TakeoverTask
  BY <1>7, <1>t, <1>e, <1>w, Zenon DEF TakeoverTask, QuietCommand, TakesOver
<1>8. CASE CommentTask
  BY <1>8, <1>e, <1>w, Zenon DEF CommentTask, QuietCommand, Comments
<1>9. CASE CloseTask
  <2>1. NoRecipe \in Recipes \cup {NoRecipe}  OBVIOUS
  <2> QED
    BY <1>9, <2>1, <1>e, <1>w, Zenon DEF CloseTask, QuietCommand, Closes
<1>10. CASE CloseTaskWithProof
  <2>1. TRUE \in BOOLEAN  OBVIOUS
  <2> QED
    BY <1>10, <2>1, <1>e, <1>w, Zenon
       DEF CloseTaskWithProof, QuietCommand, Closes
<1>11. CASE ReopenTask
  BY <1>11, <1>w, Zenon DEF ReopenTask, QuietCommand, Reopens
<1>12. CASE ResumeTask
  BY <1>12, <1>e, <1>w, Zenon DEF ResumeTask, QuietCommand, Resumes
<1>13. CASE ReleaseTask
  BY <1>13, <1>e, <1>w, Zenon DEF ReleaseTask, QuietCommand, Releases
<1>14. CASE RecordTaskFailure
  BY <1>14, <1>e, <1>w, Zenon DEF RecordTaskFailure, QuietCommand,
     RecordsFailure
<1>15. CASE SetIntent
  <2>1. \A i \in Intents : queue.intents[i] \in Nat  BY DEF State, TypeOK
  <2> QED
    BY <1>15, <2>1, <1>r, <1>w, Zenon DEF SetIntent, QuietCommand, SetsIntent
<1>16. CASE Prepare
  <2>1. PICK o \in Operations, t \in Tasks, w \in Workers, r \in EffectRefs,
             x \in Objects, y \in Objects \cup {NoObject}, i \in Intents,
             rev \in 1..MaxRevision :
          Writes(PrepareOperation(queue, o, t, w, queue.tasks[t].epoch, r, x,
                                  y, i, rev))
    BY <1>16 DEF Prepare
  <2>2. rev \in Nat  BY <1>r
  <2>3. \A n \in PrepareOperation(queue, o, t, w, queue.tasks[t].epoch, r, x,
                                  y, i, rev) : Prepares(queue, n)
    BY <2>2, <1>e DEF Prepares
  <2> QED  BY <2>1, <2>3, <1>w DEF QuietCommand
<1>17. CASE MoveRef  BY <1>17 DEF MoveRef, Quiet
<1>18. CASE Tick  BY <1>18 DEF Tick, Quiet
<1>19. CASE UNCHANGED vars  BY <1>19 DEF vars, Quiet
<1> QED
  BY <1>1, <1>2, <1>3, <1>4, <1>5, <1>6, <1>7, <1>8, <1>9, <1>10, <1>11,
     <1>12, <1>13, <1>14, <1>15, <1>16, <1>17, <1>18, <1>19 DEF Next

\* Apply and Complete observe one operation; only Apply moves a ref.
Observing(o) ==
  LET operation == queue.operations[o] IN
  /\ \E w \in Workers, e \in Nat, at \in Nat :
       \E n \in ObserveOperation(queue, o, w, e, at) : Committed(n)
  /\ operation.ref \in EffectRefs
  /\ refs'[operation.ref] = operation.object
  /\ refs' # refs => refs[operation.ref] = operation.expected
  /\ \A r \in EffectRefs \ {operation.ref} : refs'[r] = refs[r]
  /\ clock' = clock

LEMMA NextObserving ==
  ASSUME TypeOK, Apply \/ Complete
  PROVE  \E o \in Operations : Observing(o) /\ refs' \in [EffectRefs -> Objects \cup {NoObject}]
<1>1. PICK o \in Operations, w \in Workers, at \in Times :
        LET operation == queue.operations[o]
            epoch == queue.tasks[operation.task].epoch
        IN /\ operation.status = "prepared"
           /\ queue' \in Commit(queue, ObserveOperation(queue, o, w, epoch, at))
           /\ \/ /\ refs[operation.ref] = operation.expected
                 /\ refs' = [refs EXCEPT ![operation.ref] = operation.object]
              \/ /\ refs[operation.ref] = operation.object
                 /\ refs' = refs
           /\ clock' = clock
  BY DEF Apply, Complete, Writes
<1> DEFINE operation == queue.operations[o]
           epoch == queue.tasks[operation.task].epoch
<1>2. operation \in RecordedOperation
  BY <1>1, PreparedIsRecorded DEF TypeOK
<1>3. operation.ref \in EffectRefs /\ operation.object \in Objects
        /\ operation.task \in Tasks
  BY <1>2 DEF RecordedOperation
<1>4. epoch \in Nat /\ at \in Nat  BY <1>3, TaskOf DEF TypeOK, Task, Times
<1>5. \E n \in ObserveOperation(queue, o, w, epoch, at) : Committed(n)
  BY <1>1 DEF Commit, Committed
<1>6. /\ refs'[operation.ref] = operation.object
      /\ refs' # refs => refs[operation.ref] = operation.expected
      /\ \A r \in EffectRefs \ {operation.ref} : refs'[r] = refs[r]
      /\ refs' \in [EffectRefs -> Objects \cup {NoObject}]
  BY <1>1, <1>3 DEF TypeOK
<1> QED  BY <1>1, <1>3, <1>4, <1>5, <1>6 DEF Observing

LEMMA NextCommand ==
  ASSUME TypeOK, [Next]_vars, queue' # queue
  PROVE  \E n \in State : Command(queue, n, clock) /\ Committed(n)
<1>1. CASE Apply \/ Complete
  BY <1>1, NextObserving, CommandType DEF Observing, Observes, Command, TypeOK
<1>2. CASE ~Apply /\ ~Complete
  BY <1>2, NextQuiet, CommandType DEF Quiet, Command, TypeOK
<1> QED  BY <1>1, <1>2

-----------------------------------------------------------------------------
(* Type correctness. *)

LEMMA InitType == Init => TypeOK
<1> SUFFICES ASSUME Init  PROVE TypeOK
  OBVIOUS
<1>1. EmptyState \in State
  BY DEF EmptyState, State, NoTask, Task, Lease, Result, Statuses, Operation
<1>2. \A s \in Imports : s \in State
  BY ImportsAssumption DEF Importable
<1>3. queue \in State  BY <1>1, <1>2 DEF Init
<1> QED  BY <1>3 DEF Init, TypeOK

LEMMA NextType == TypeOK /\ [Next]_vars => TypeOK'
<1> SUFFICES ASSUME TypeOK, [Next]_vars
             PROVE  TypeOK'
  OBVIOUS
<1>1. queue' \in State
  BY NextCommand DEF TypeOK, Committed, State
<1>2. CASE Apply \/ Complete
  BY <1>1, <1>2, NextObserving DEF Observing, TypeOK
<1>3. CASE MoveRef  BY <1>1, <1>3 DEF MoveRef, TypeOK
<1>4. CASE Tick  BY <1>1, <1>4 DEF Tick, TypeOK
<1>5. CASE UNCHANGED vars  BY <1>1, <1>5 DEF vars, TypeOK
<1>6. CASE refs' = refs /\ clock' = clock  BY <1>1, <1>6 DEF TypeOK
<1>7. \/ Apply \/ Complete \/ MoveRef \/ Tick \/ UNCHANGED vars
      \/ refs' = refs /\ clock' = clock
  BY DEF Next, AddTask, MarkTaskReady, EditTask, ClaimTask, ClaimReadyTask,
         RenewTaskClaim, TakeoverTask, CommentTask, CloseTask,
         CloseTaskWithProof, ReopenTask, ResumeTask, ReleaseTask,
         RecordTaskFailure, SetIntent, Prepare, Writes
<1> QED  BY <1>1, <1>2, <1>3, <1>4, <1>5, <1>6, <1>7

\* Whatever the commands and their order, the queue keeps the shape that every
\* command (and parseSnapshot) relies on when it reads it.
THEOREM TypeCorrect == Spec => []TypeOK
BY InitType, NextType, PTL DEF Spec
-----------------------------------------------------------------------------
(* Claims. *)

\* An id that is not in use has the task that add starts from.
UnusedIds == \A t \in Tasks : ~Exists(queue, t) => queue.tasks[t] = NoTask

ClaimInv == TypeOK /\ ClaimsWellFormed /\ UnusedIds

LEMMA NextSteps ==
  ASSUME ClaimInv, [Next]_vars
  PROVE  ClaimSteps(queue, queue', clock)
<1>1. queue \in State /\ clock \in Nat /\ WellFormed(queue) /\ Unused(queue)
  BY DEF ClaimInv, TypeOK, ClaimsWellFormed, WellFormed, UnusedIds, Unused
<1>2. CASE queue' = queue  BY <1>1, <1>2, SameTasksSteps
<1>3. CASE queue' # queue
  <2>1. PICK n \in State : Command(queue, n, clock) /\ Committed(n)
    BY <1>3, NextCommand DEF ClaimInv
  <2>2. ClaimSteps(queue, n, clock)  BY <1>1, <2>1, CommandClaims
  <2> QED  BY <2>1, <2>2, CommittedKeeps DEF ClaimSteps
<1> QED  BY <1>2, <1>3

LEMMA InitClaims == Init => ClaimInv
<1> SUFFICES ASSUME Init  PROVE ClaimInv
  OBVIOUS
<1>1. CASE queue = EmptyState
  <2>1. \A t \in Tasks : queue.tasks[t] = NoTask
    BY <1>1 DEF EmptyState
  <2>2. ClaimWellFormed(NoTask)  BY DEF ClaimWellFormed, NoTask
  <2> QED
    BY <2>1, <2>2, InitType DEF ClaimInv, ClaimsWellFormed, UnusedIds
<1>2. CASE queue \in Imports
  BY <1>2, ImportsAssumption, InitType
     DEF Importable, ClaimInv, ClaimsWellFormed, UnusedIds
<1> QED  BY <1>1, <1>2 DEF Init

LEMMA NextClaims == ClaimInv /\ [Next]_vars => ClaimInv'
<1> SUFFICES ASSUME ClaimInv, [Next]_vars  PROVE ClaimInv'
  OBVIOUS
<1>1. TypeOK'  BY NextType DEF ClaimInv
<1>2. \A t \in Tasks : ClaimStep(queue.tasks[t], queue'.tasks[t], clock)
  BY NextSteps DEF ClaimSteps
<1>3. ClaimsWellFormed'  BY <1>2 DEF ClaimStep, ClaimsWellFormed
<1>4. UnusedIds'  BY <1>2 DEF ClaimInv, ClaimStep, UnusedIds, Exists
<1> QED  BY <1>1, <1>3, <1>4 DEF ClaimInv

-----------------------------------------------------------------------------
(* Theorems. *)

\* A task has an owner and a lease exactly while it is claimed, and both name
\* its current generation, after every sequence of commands.
THEOREM ClaimsAreWellFormed == Spec => []ClaimsWellFormed
<1>1. ClaimInv => ClaimsWellFormed  BY DEF ClaimInv
<1> QED  BY <1>1, InitClaims, NextClaims, PTL DEF Spec

\* A new owner always gets a new generation, so the generation a worker was
\* told at its claim can never become valid for someone else.
THEOREM GenerationsOwned == Spec => GenerationsNameOneOwner
<1> DEFINE Owned ==
      \A t \in Tasks :
        /\ queue'.tasks[t].epoch >= queue.tasks[t].epoch
        /\ queue'.tasks[t].owner \notin {queue.tasks[t].owner, NoWorker}
             => queue'.tasks[t].epoch > queue.tasks[t].epoch
<1>1. ClaimInv /\ [Next]_vars => Owned
  BY NextSteps DEF ClaimSteps, ClaimStep
<1>2. ClaimInv /\ [Next]_vars => [Owned]_vars  BY <1>1
<1> QED
  BY <1>2, InitClaims, NextClaims, PTL DEF Spec, GenerationsNameOneOwner

\* No command takes a task from a worker whose lease still runs, whatever the
\* time of day the command was started at.
THEOREM LiveClaimsAreKept == Spec => LiveClaimsKept
<1> DEFINE Kept ==
      \A t \in Tasks :
        (/\ queue.tasks[t].status = "claimed"
         /\ ~LeaseExpired(queue.tasks[t].lease, clock)
         /\ queue'.tasks[t].status = "claimed")
          => /\ queue'.tasks[t].owner = queue.tasks[t].owner
             /\ queue'.tasks[t].epoch = queue.tasks[t].epoch
<1>1. ClaimInv /\ [Next]_vars => Kept
  BY NextSteps DEF ClaimSteps, ClaimStep
<1>2. ClaimInv /\ [Next]_vars => [Kept]_vars  BY <1>1
<1> QED  BY <1>2, InitClaims, NextClaims, PTL DEF Spec, LiveClaimsKept
-----------------------------------------------------------------------------
(* Operations. *)

LEMMA NextOperations ==
  ASSUME TypeOK, [Next]_vars
  PROVE  OperationSteps(queue, queue')
<1>1. CASE queue' = queue  BY <1>1 DEF OperationSteps
<1>2. CASE queue' # queue
  <2>1. PICK n \in State : Command(queue, n, clock) /\ Committed(n)
    BY <1>2, NextCommand
  <2>2. OperationSteps(queue, n)  BY <2>1, CommandOperations DEF TypeOK
  <2> QED
    BY <2>1, <2>2, CommittedKeeps
       DEF OperationSteps, PreparedStep, RecoveredStep, ObservedStep
<1> QED  BY <1>1, <1>2

\* What NextObserving says of the operations.
LEMMA ObservingStep ==
  ASSUME TypeOK, NEW o \in Operations, Observing(o)
  PROVE  /\ ObservedStep(queue, queue', o)
         /\ \A p \in Operations \ {o} :
              queue'.operations[p] = queue.operations[p]
<1>1. PICK w \in Workers, e \in Nat, at \in Nat :
        \E n \in ObserveOperation(queue, o, w, e, at) : Committed(n)
  BY DEF Observing
<1>2. PICK n \in ObserveOperation(queue, o, w, e, at) : Committed(n)
  BY <1>1
<1>3. n \in State  BY ObserveOperationType DEF TypeOK
<1>4. /\ ObservedStep(queue, n, o)
      /\ \A p \in Operations \ {o} : n.operations[p] = queue.operations[p]
  BY ObserveOperationStep DEF TypeOK
<1> QED  BY <1>2, <1>3, <1>4, CommittedKeeps DEF ObservedStep

LEMMA QuietStep ==
  ASSUME TypeOK, [Next]_vars, ~Apply, ~Complete
  PROVE  QuietSteps(queue, queue') /\ (refs' = refs \/ queue' = queue)
<1>1. CASE queue' = queue  BY <1>1 DEF QuietSteps
<1>2. CASE queue' # queue
  <2>1. PICK n : QuietCommand(queue, n, clock) /\ Committed(n) /\ refs' = refs
    BY <1>2, NextQuiet DEF Quiet
  <2>2. n \in State  BY <2>1, CommandType DEF Command, TypeOK
  <2>3. QuietSteps(queue, n)  BY <2>1, QuietCommandSteps DEF TypeOK
  <2> QED
    BY <2>1, <2>2, <2>3, CommittedKeeps
       DEF QuietSteps, PreparedStep, RecoveredStep
<1> QED  BY <1>1, <1>2

-----------------------------------------------------------------------------
(* Fences. *)

\* OperationsFenced, for one operation and its task.
Fenced(operation, task) ==
  operation.status # "absent" =>
    /\ task.status # "absent"
    /\ operation.epoch <= task.epoch
    /\ operation.recovery.epoch <= task.epoch
    /\ (task.status = "claimed" /\ operation.epoch = task.epoch)
         => task.owner = operation.owner
    /\ (task.status = "claimed" /\ operation.recovery.epoch = task.epoch)
         => task.owner = operation.recovery.worker

LEMMA FencedEach ==
  OperationsFenced <=>
    \A o \in Operations :
      Fenced(queue.operations[o], queue.tasks[queue.operations[o].task])
BY DEF OperationsFenced, Fenced, Exists

\* A task that takes a claim step stays behind the fence: either it keeps its
\* generation and with it its owner, or it gets ahead of the operation.
LEMMA ClaimStepKeepsFence ==
  ASSUME NEW operation \in RecordedOperation, NEW a \in Task, NEW b \in Task,
         NEW now, ClaimWellFormed(a), ClaimStep(a, b, now),
         Fenced(operation, a)
  PROVE  Fenced(operation, b)
<1>1. a.epoch \in Nat /\ b.epoch \in Nat /\ operation.epoch \in Nat
        /\ operation.recovery.epoch \in Nat
        /\ operation.status # "absent"
  BY DEF Task, RecordedOperation, Recovery
<1>2. b.status # "absent"  BY <1>1 DEF ClaimStep, Fenced
<1>3. /\ operation.epoch <= a.epoch
      /\ operation.recovery.epoch <= a.epoch
      /\ a.epoch <= b.epoch
  BY <1>1 DEF Fenced, ClaimStep
<1>4. ASSUME b.status = "claimed", a.epoch = b.epoch
      PROVE  a.status = "claimed" /\ b.owner = a.owner
  <2>1. b.owner # NoWorker
    BY <1>4, ConstantsAssumption DEF ClaimStep, ClaimWellFormed
  <2>2. b.owner = a.owner  BY <1>1, <1>4, <2>1 DEF ClaimStep
  <2> QED  BY <2>1, <2>2 DEF ClaimWellFormed
<1>5. ASSUME b.status = "claimed", operation.epoch = b.epoch
      PROVE  b.owner = operation.owner
  <2>1. a.epoch = b.epoch /\ operation.epoch = a.epoch  BY <1>1, <1>3, <1>5
  <2> QED  BY <1>1, <1>4, <1>5, <2>1 DEF Fenced
<1>6. ASSUME b.status = "claimed", operation.recovery.epoch = b.epoch
      PROVE  b.owner = operation.recovery.worker
  <2>1. a.epoch = b.epoch /\ operation.recovery.epoch = a.epoch
    BY <1>1, <1>3, <1>6
  <2> QED  BY <1>1, <1>4, <1>6, <2>1 DEF Fenced
<1>7. operation.epoch <= b.epoch /\ operation.recovery.epoch <= b.epoch
  BY <1>1, <1>3
<1> QED  BY <1>2, <1>5, <1>6, <1>7 DEF Fenced

LEMMA NextFenced ==
  ASSUME ClaimInv, OperationsFenced, [Next]_vars
  PROVE  OperationsFenced'
<1>q. queue \in State /\ queue' \in State
  BY NextType DEF ClaimInv, TypeOK
<1>c. \A t \in Tasks : /\ ClaimWellFormed(queue.tasks[t])
                       /\ ClaimWellFormed(queue'.tasks[t])
                       /\ ClaimStep(queue.tasks[t], queue'.tasks[t], clock)
  BY NextSteps DEF ClaimInv, ClaimsWellFormed, ClaimSteps, ClaimStep
<1> SUFFICES ASSUME NEW o \in Operations,
                    queue'.operations[o].status # "absent"
             PROVE  Fenced(queue'.operations[o],
                           queue'.tasks[queue'.operations[o].task])
  BY DEF OperationsFenced, Fenced, Exists
<1> DEFINE p == queue.operations[o]
           q == queue'.operations[o]
           a == queue.tasks[q.task]
           b == queue'.tasks[q.task]
<1>1. q \in RecordedOperation /\ q.task \in Tasks
  BY <1>q, PreparedIsRecorded DEF RecordedOperation
<1>2. a \in Task /\ b \in Task  BY <1>1, <1>q, TaskOf
\* An operation recorded before the step was fenced, and stays so.
<1>3. ASSUME p.status # "absent", p.task = q.task
      PROVE  Fenced(p, b) /\ p \in RecordedOperation
  <2>1. p \in RecordedOperation  BY <1>3, <1>q, PreparedIsRecorded
  <2>2. Fenced(p, a)  BY <1>3 DEF OperationsFenced, Fenced, Exists
  <2> QED  BY <1>1, <1>2, <1>c, <2>1, <2>2, ClaimStepKeepsFence
<1>4. CASE q = p  BY <1>3, <1>4
<1>5. CASE PreparedStep(queue, queue', o)
  <2>1. /\ q.recovery = NoRecovery
        /\ a.status = "claimed" /\ a.owner = q.owner /\ a.epoch = q.epoch
        /\ b = a
    BY <1>5 DEF PreparedStep, HoldsClaim
  <2>2. a.epoch \in Nat /\ a.epoch >= 1
    BY <1>1, <1>2, <1>c, <2>1 DEF ClaimWellFormed, Task
  <2>3. q.recovery.epoch = 0  BY <2>1 DEF NoRecovery
  <2> QED  BY <2>1, <2>2, <2>3 DEF Fenced
<1>6. CASE RecoveredStep(queue, queue', o)
  <2>1. p.status = "prepared"  BY <1>6 DEF RecoveredStep
  <2>2. p \in RecordedOperation  BY <1>q, <2>1, PreparedIsRecorded
  <2> DEFINE r == [worker |-> queue'.tasks[p.task].owner,
                   epoch |-> queue'.tasks[p.task].epoch]
  <2>3. q = [p EXCEPT !.recovery = r]  BY <1>6 DEF RecoveredStep
  <2> HIDE DEF r
  <2>4. /\ q.task = p.task /\ q.owner = p.owner /\ q.epoch = p.epoch
        /\ q.recovery = r
    BY <2>2, <2>3 DEF RecordedOperation
  <2>5. r.worker = b.owner /\ r.epoch = b.epoch  BY <2>4 DEF r
  <2>6. Fenced(p, b)  BY <1>3, <2>1, <2>4
  <2>7. b.epoch \in Nat  BY <1>2 DEF Task
  <2> QED  BY <2>1, <2>4, <2>5, <2>6, <2>7 DEF Fenced
<1>7. CASE ObservedStep(queue, queue', o)
  <2>1. p.status = "prepared"  BY <1>7 DEF ObservedStep
  <2>2. p \in RecordedOperation  BY <1>q, <2>1, PreparedIsRecorded
  <2>3. q = [p EXCEPT !.status = "observed"]  BY <1>7 DEF ObservedStep
  <2>4. /\ q.task = p.task /\ q.owner = p.owner /\ q.epoch = p.epoch
        /\ q.recovery = p.recovery
    BY <2>2, <2>3 DEF RecordedOperation
  <2>5. Fenced(p, b)  BY <1>3, <2>1, <2>4
  <2> QED  BY <2>1, <2>4, <2>5 DEF Fenced
<1>8. OperationSteps(queue, queue')  BY NextOperations DEF ClaimInv
<1> QED  BY <1>4, <1>5, <1>6, <1>7, <1>8 DEF OperationSteps

LEMMA InitFenced == Init => OperationsFenced
<1> SUFFICES ASSUME Init, NEW o \in Operations
             PROVE  queue.operations[o].status = "absent"
  BY DEF OperationsFenced
<1>1. queue.operations = EmptyState.operations
  BY ImportsAssumption DEF Init, Importable
<1> QED  BY <1>1 DEF EmptyState, AbsentOperation

-----------------------------------------------------------------------------
(* Theorems. *)

\* Whoever holds a task under a generation that may run an operation is the
\* worker who prepared the operation or the one a takeover handed it to, and
\* no operation is ahead of its task.
THEOREM OperationsAreFenced == Spec => []OperationsFenced
<1> DEFINE Inv == ClaimInv /\ OperationsFenced
<1>1. Init => Inv  BY InitClaims, InitFenced
<1>2. Inv /\ [Next]_vars => Inv'  BY NextClaims, NextFenced
<1>3. Inv => OperationsFenced  OBVIOUS
<1> QED  BY <1>1, <1>2, <1>3, PTL DEF Spec

\* The effect of an operation is applied at most once, only while the current
\* generation and intent allow it, and together with the queue.
THEOREM EffectsAreExactlyOnce == Spec => EffectsExactlyOnce
<1> DEFINE Once ==
      /\ \A o \in Operations :
           queue.operations[o].status = "observed"
             => queue'.operations[o] = queue.operations[o]
      /\ \A o \in NewlyObserved :
           LET operation == queue.operations[o]
               task == queue.tasks[operation.task]
           IN /\ refs'[operation.ref] = operation.object
              /\ task.status = "claimed"
              /\ task.epoch \in {operation.epoch, operation.recovery.epoch}
              /\ queue.intents[operation.intent] = operation.revision
      /\ refs' # refs /\ queue' # queue =>
           \E o \in NewlyObserved :
             LET ref == queue.operations[o].ref IN
             /\ NewlyObserved = {o}
             /\ refs[ref] = queue.operations[o].expected
             /\ \A r \in EffectRefs \ {ref} : refs'[r] = refs[r]
<1>1. ASSUME TypeOK, [Next]_vars  PROVE Once
  <2>1. CASE Apply \/ Complete
    <3>0. PICK o \in Operations : Observing(o)
      BY <1>1, <2>1, NextObserving
    <3>1. LET operation == queue.operations[o] IN
            /\ ObservedStep(queue, queue', o)
            /\ \A p \in Operations \ {o} :
                 queue'.operations[p] = queue.operations[p]
            /\ refs'[operation.ref] = operation.object
            /\ refs' # refs => refs[operation.ref] = operation.expected
            /\ \A r \in EffectRefs \ {operation.ref} : refs'[r] = refs[r]
      BY <1>1, <3>0, ObservingStep DEF Observing
    <3>2. /\ queue.operations[o].status = "prepared"
          /\ queue'.operations[o] = [queue.operations[o]
                                       EXCEPT !.status = "observed"]
      BY <3>1 DEF ObservedStep
    <3>3. queue.operations[o] \in RecordedOperation
      BY <1>1, <3>2, PreparedIsRecorded DEF TypeOK
    <3>4. queue'.operations[o].status = "observed"
      BY <3>2, <3>3 DEF RecordedOperation
    <3>5. NewlyObserved = {o}  BY <3>1, <3>2, <3>4 DEF NewlyObserved
    <3>6. \A p \in Operations :
            queue.operations[p].status = "observed"
              => queue'.operations[p] = queue.operations[p]
      BY <3>1, <3>2
    <3> QED  BY <3>1, <3>5, <3>6 DEF ObservedStep
  <2>2. CASE ~Apply /\ ~Complete
    <3>1. QuietSteps(queue, queue') /\ (refs' = refs \/ queue' = queue)
      BY <1>1, <2>2, QuietStep
    <3>2. ASSUME NEW o \in Operations, queue.operations[o].status = "prepared"
          PROVE  queue'.operations[o].status = "prepared"
      <4>1. queue.operations[o] \in RecordedOperation
        BY <1>1, <3>2, PreparedIsRecorded DEF TypeOK
      <4> QED
        BY <3>1, <3>2, <4>1
           DEF QuietSteps, PreparedStep, RecoveredStep, RecordedOperation
    <3>3. NewlyObserved = {}  BY <3>2 DEF NewlyObserved
    <3>4. \A o \in Operations :
            queue.operations[o].status = "observed"
              => queue'.operations[o] = queue.operations[o]
      BY <3>1 DEF QuietSteps, PreparedStep, RecoveredStep
    <3> QED  BY <3>1, <3>3, <3>4
  <2> QED  BY <2>1, <2>2
<1>2. TypeOK /\ [Next]_vars => [Once]_vars  BY <1>1
<1> QED  BY <1>2, InitType, NextType, PTL DEF Spec, EffectsExactlyOnce
-----------------------------------------------------------------------------
(* What `krn task check' asks, and what stands before a status. *)

LEMMA InitSound == Init => StoreChecks
<1> SUFFICES ASSUME Init  PROVE NoTaskStoreErrors(queue)
  BY DEF StoreChecks
<1>1. CASE queue = EmptyState
  <2>1. \A t \in Tasks : ~Exists(queue, t)
    BY <1>1 DEF Exists, EmptyState, NoTask
  <2> QED  BY <2>1, SoundEach
<1>2. CASE queue \in Imports
  BY <1>2, ImportsAssumption DEF Importable
<1> QED  BY <1>1, <1>2 DEF Init

\* A commit adds nothing to what the command wrote but a version.
LEMMA CommittedSound ==
  ASSUME NEW n \in State, Committed(n), NoTaskStoreErrors(n)
  PROVE  StoreChecks'
<1>1. queue'.tasks = n.tasks /\ queue'.operations = n.operations
  BY CommittedKeeps
<1>2. NoTaskStoreErrors(queue')
  BY <1>1, SameTasksSound DEF OperationSteps
<1> QED  BY <1>2 DEF StoreChecks

LEMMA NextSound == ClaimInv /\ StoreChecks /\ [Next]_vars => StoreChecks'
<1> SUFFICES ASSUME ClaimInv, StoreChecks, [Next]_vars
             PROVE  StoreChecks'
  OBVIOUS
<1>1. queue \in State /\ clock \in Nat /\ Unused(queue)
  BY DEF ClaimInv, TypeOK, UnusedIds, Unused
<1>2. CASE queue' = queue  BY <1>2 DEF StoreChecks
<1>3. CASE queue' # queue
  <2>1. PICK n \in State : Command(queue, n, clock) /\ Committed(n)
    BY <1>3, NextCommand DEF ClaimInv
  <2>2. NoTaskStoreErrors(n)  BY <1>1, <2>1, CommandSound DEF StoreChecks
  <2> QED  BY <2>1, <2>2, CommittedSound
<1> QED  BY <1>2, <1>3

\* Whatever is added, edited, closed, reopened or failed, `krn task check' of
\* the queue finds nothing: no unknown dependency, no cycle, no lane task
\* without a recipe or done without the observed operation it names.
THEOREM QueuesAreSound == Spec => []StoreChecks
<1> DEFINE Inv == ClaimInv /\ StoreChecks
<1>1. Init => Inv  BY InitClaims, InitSound
<1>2. Inv /\ [Next]_vars => Inv'  BY NextClaims, NextSound
<1>3. Inv => StoreChecks  OBVIOUS
<1> QED  BY <1>1, <1>2, <1>3, PTL DEF Spec

LEMMA NextEarned ==
  ASSUME ClaimInv, [Next]_vars, NEW t \in Tasks
  PROVE  Earned(queue, queue', t)
<1>1. queue \in State /\ clock \in Nat /\ Unused(queue)
  BY DEF ClaimInv, TypeOK, UnusedIds, Unused
<1>2. CASE queue' = queue  BY <1>1, <1>2, SameTaskEarned
<1>3. CASE queue' # queue
  <2>1. PICK n \in State : Command(queue, n, clock) /\ Committed(n)
    BY <1>3, NextCommand DEF ClaimInv
  <2>2. Earned(queue, n, t)  BY <1>1, <2>1, CommandEarned
  <2> QED
    BY <2>1, <2>2, CommittedKeeps DEF Earned, DependenciesDone, ProvenBy
<1> QED  BY <1>2, <1>3

\* A ready task is claimed only when its dependencies are done, a lane task is
\* done only by one of its operations, an external gate keeps a parked task
\* parked, and a spent failure budget blocks: in every step of every history.
THEOREM StatusesAreEarned == Spec => StatusesEarned
<1> DEFINE Earns == \A t \in Tasks : /\ ClaimUnblocked(t)
                                     /\ LaneProven(t)
                                     /\ ExternalGateHolds(t)
                                     /\ BudgetSpent(t)
<1>1. ASSUME ClaimInv, [Next]_vars, NEW t \in Tasks
      PROVE  /\ ClaimUnblocked(t) /\ LaneProven(t)
             /\ ExternalGateHolds(t) /\ BudgetSpent(t)
  <2>1. Earned(queue, queue', t)  BY <1>1, NextEarned
  <2>2. ClaimUnblocked(t)  BY <2>1 DEF Earned, ClaimUnblocked
  <2>3. LaneProven(t)
    BY <2>1 DEF Earned, ProvenBy, LaneProven, NewlyObserved
  <2>4. ExternalGateHolds(t)
    BY <2>1 DEF Earned, GateHolds, ExternalGateHolds
  <2>5. BudgetSpent(t)  BY <2>1 DEF Earned, BudgetHolds, BudgetSpent
  <2> QED  BY <2>2, <2>3, <2>4, <2>5
<1>2. ClaimInv /\ [Next]_vars => Earns  BY <1>1
<1>3. ClaimInv /\ [Next]_vars => [Earns]_vars  BY <1>2
<1> QED  BY <1>3, InitClaims, NextClaims, PTL DEF Spec, StatusesEarned

-----------------------------------------------------------------------------
(***************************************************************************)
(* What withholds an offer (TaskCheck): a failure that came again, a       *)
(* history that was left, an operation that landed elsewhere or a careless *)
(* recipe, and nothing else that a command does.                           *)
(***************************************************************************)

\* No operation is new, and none lands another object.
NothingPrepared(s, n) ==
  \A o \in Operations :
    n.operations[o].status # "absent" =>
      /\ s.operations[o].status # "absent"
      /\ n.operations[o].object = s.operations[o].object

\* What a command that neither fails nor closes a task leaves of its counts, and
\* of whoever is done or blocked afterwards.
Calm(s, n) ==
  \A u \in Tasks :
    LET a == s.tasks[u]  b == n.tasks[u] IN
    /\ b.attempts = a.attempts /\ b.gates = a.gates
    /\ b.status \in {"done", "blocked"} =>
         /\ b.status = a.status /\ b.proofRequired = a.proofRequired
         /\ b.result = a.result

LEMMA CalmTask ==
  ASSUME NEW s \in State, NEW t \in Tasks, NEW b,
         b.attempts = s.tasks[t].attempts, b.gates = s.tasks[t].gates,
         b.status \notin {"done", "blocked"}
  PROVE  Calm(s, WithTask(s, t, b))
<1> SUFFICES ASSUME NEW u \in Tasks, u # t
             PROVE  WithTask(s, t, b).tasks[u] = s.tasks[u]
  BY DEF Calm, WithTask, State
<1> QED  BY DEF WithTask, State

LEMMA CalmCommands ==
  ASSUME NEW s \in State, NEW t \in Tasks, NEW n,
         \/ n \in MarkReady(s, t, FALSE)
         \/ \E w, at, dur : n \in Claim(s, t, w, at, dur)
         \/ n \in Reopen(s, t)
         \/ \E st, e : n \in Resume(s, t, st, e)
         \/ \E w, e : n \in Release(s, t, w, e)
         \/ \E w, e, at, dur : n \in Takeover(s, t, w, e, at, dur)
         \/ \E d, lane, r : n \in Edit(s, t, d, lane, r, FALSE)
  PROVE  Calm(s, n) /\ NothingPrepared(s, n)
<1> DEFINE a == s.tasks[t]
<1>0. a \in Task  BY TaskOf
<1>p. \A b : NothingPrepared(s, WithTask(s, t, b))
  BY DEF NothingPrepared, WithTask, State
<1>1. CASE n \in MarkReady(s, t, FALSE)
  <2> DEFINE b == [a EXCEPT !.status = "ready"]
  <2>1. n = WithTask(s, t, b)  BY <1>1 DEF MarkReady
  <2>2. b.attempts = a.attempts /\ b.gates = a.gates /\ b.status = "ready"
    BY <1>0 DEF Task
  <2> HIDE DEF b
  <2> QED  BY <2>1, <2>2, CalmTask, <1>p
<1>2. CASE \E w, at, dur : n \in Claim(s, t, w, at, dur)
  <2>1. PICK w, at, dur : n = WithTask(s, t, Granted(a, w, at, dur))
    BY <1>2 DEF Claim
  <2>2. LET b == Granted(a, w, at, dur) IN
          b.attempts = a.attempts /\ b.gates = a.gates /\ b.status = "claimed"
    BY <1>0 DEF Granted, Task
  <2> QED  BY <2>1, <2>2, CalmTask, <1>p
<1>3. CASE n \in Reopen(s, t) \/ \E st, e : n \in Resume(s, t, st, e)
  <2>1. n = WithTask(s, t, Ended(a, "open"))
    BY <1>3 DEF Reopen, Resume
  <2>2. LET b == Ended(a, "open") IN
          b.attempts = a.attempts /\ b.gates = a.gates /\ b.status = "open"
    BY <1>0 DEF Ended, Task
  <2> QED  BY <2>1, <2>2, CalmTask, <1>p
<1>4. CASE \E d, lane, r : n \in Edit(s, t, d, lane, r, FALSE)
  <2>1. PICK d, lane, r : n \in Edit(s, t, d, lane, r, FALSE)  BY <1>4
  <2> DEFINE b == [a EXCEPT !.dependencies = d, !.lane = a.lane \/ lane,
                            !.laneRecipe = r]
             c == [b EXCEPT !.status = "open"]
  <2>2. a.status \in {"open", "ready"}
        /\ (n = WithTask(s, t, b) \/ n = WithTask(s, t, c))
    BY <2>1, Zenon DEF Edit
  <2>3. /\ b.attempts = a.attempts /\ b.gates = a.gates /\ b.status = a.status
        /\ c.attempts = a.attempts /\ c.gates = a.gates /\ c.status = "open"
    BY <1>0 DEF Task
  <2> HIDE DEF b, c
  <2> QED  BY <2>2, <2>3, CalmTask, <1>p
<1>5. CASE \E w, e : n \in Release(s, t, w, e)
  <2>1. n = WithTask(s, t, Ended(a, "abandoned"))
    BY <1>5, Zenon DEF Release
  <2>2. LET b == Ended(a, "abandoned") IN
          b.attempts = a.attempts /\ b.gates = a.gates /\ b.status = "abandoned"
    BY <1>0 DEF Ended, Task
  <2> QED  BY <2>1, <2>2, CalmTask, <1>p
<1>6. CASE \E w, e, at, dur : n \in Takeover(s, t, w, e, at, dur)
  <2>1. PICK w, e, at, dur : n \in Takeover(s, t, w, e, at, dur)  BY <1>6
  <2> DEFINE b == Granted(a, w, at, dur)
             m == WithTask(s, t, b)
             operations == [o \in Operations |->
               IF s.operations[o].status = "prepared" /\ s.operations[o].task = t
               THEN [s.operations[o] EXCEPT
                       !.recovery = [worker |-> w, epoch |-> b.epoch]]
               ELSE s.operations[o]]
  <2>2. n = [m EXCEPT !.operations = operations]
    BY <2>1, Zenon DEF Takeover
  <2>3. b.attempts = a.attempts /\ b.gates = a.gates /\ b.status = "claimed"
    BY <1>0 DEF Granted, Task
  <2> HIDE DEF b
  <2>4. Calm(s, m)  BY <2>3, CalmTask
  <2>5. \A o \in Operations :
          /\ operations[o].status = s.operations[o].status
          /\ operations[o].object = s.operations[o].object
    <3> SUFFICES ASSUME NEW o \in Operations
                 PROVE  /\ operations[o].status = s.operations[o].status
                        /\ operations[o].object = s.operations[o].object
      OBVIOUS
    <3>1. CASE s.operations[o].status = "prepared"
      BY <3>1, PreparedIsRecorded DEF RecordedOperation
    <3>2. CASE s.operations[o].status # "prepared"  BY <3>2
    <3> QED  BY <3>1, <3>2
  <2> HIDE DEF operations
  <2>6. n.tasks = m.tasks /\ n.operations = operations
    BY <2>2 DEF WithTask, State
  <2> HIDE DEF m
  <2> QED  BY <2>4, <2>5, <2>6 DEF Calm, NothingPrepared
<1> QED  BY <1>1, <1>2, <1>3, <1>4, <1>5, <1>6

-----------------------------------------------------------------------------
(* The inductive invariant: the board is sound, every done task names a commit *)
(* that HEAD has or had or that an operation landed elsewhere, every operation *)
(* has a candidate, every blocked task shows a gate, and a signature is counted *)
(* no more often than the failures of its task.                                *)

BoardSound ==
  board \in State /\ WellFormed(board) /\ Unused(board) /\ NoTaskStoreErrors(board)

LineTyped ==
  /\ branches \in [Branches -> Seq(LineCommits)] /\ head \in Branches
  /\ candidates \in [Objects -> Seq(LineCommits)]
  /\ made \in Nat

MarksTyped ==
  marks \in [Tasks -> [gate : STRING \cup {"unrecorded"},
                       gateLines : Seq(STRING \cup {"retries-exhausted"}),
                       failures : [Signatures \cup {NoSignature} -> Nat],
                       imported : Nat, patch : SUBSET Hunks, proof : Nat]]

\* What an operation lands, or has landed, is a commit.
Built ==
  \A o \in Operations :
    board.operations[o].status # "absent"
      => candidates[board.operations[o].object] # <<>>

LandedBuilt(t) ==
  LET result == board.tasks[t].result IN
  board.tasks[t].status = "done" /\ result.operation # NoOperation
    => result.object \in Objects /\ candidates[result.object] # <<>>

\* The commits HEAD has, left behind or never had.
Known == Ids(Mainline) \cup gone \cup aside

\* MarkSound of TaskCheck, but HEAD may have left the commit or not have had it.
ProofKept(t) ==
  /\ LandedBuilt(t)
  /\ board.tasks[t].status = "done" /\ board.tasks[t].proofRequired
       => Integrated(t) \in Known

GateShown(t) ==
  board.tasks[t].status = "blocked"
    => marks[t].gate # "none" /\ ShownGate(t) # ""

FailuresCounted(t) ==
  \A s \in Signatures :
    /\ marks[t].failures[s] <= board.tasks[t].attempts
    /\ marks[t].failures[s] >= MaxAttempts
         => "retries-exhausted" \in board.tasks[t].gates

OfferInv ==
  /\ BoardSound /\ LineTyped /\ MarksTyped /\ Built
  /\ \A t \in Tasks : ProofKept(t) /\ GateShown(t) /\ FailuresCounted(t)

LEMMA OfferEnough == OfferInv => WithheldForCause
<1> SUFFICES ASSUME OfferInv, NEW base, NEW error \in Errors(base)
             PROVE  Cause(error)
  BY DEF WithheldForCause
<1>1. \A t \in Tasks : \A d \in board.tasks[t].dependencies : Exists(board, d)
  BY DEF OfferInv, BoardSound, NoTaskStoreErrors, Unused, NoTask
<1>2. \A t \in Tasks : ~(Exists(board, t) /\ HasDependencyCycle(board, t))
  BY DEF OfferInv, BoardSound, NoTaskStoreErrors
<1>3. \A t \in Tasks : ~BlockedWithoutGate(t)
  BY DEF OfferInv, GateShown, BlockedWithoutGate
<1>4. PICK t \in Tasks :
        \/ error.rule = "evidence-anchor-missing" /\ error.task = t
             /\ Unanchored(t, base)
        \/ error.rule = "scope-missing-package-json" /\ error.task = t
             /\ Unwired(t)
        \/ error.rule = "stalled-signature" /\ error.task = t /\ Stalled(t)
  BY <1>1, <1>2, <1>3 DEF Errors, Error, OfferInv, BoardSound
<1>5. ASSUME Unanchored(t, base)  PROVE Integrated(t) \in gone \cup aside
  BY <1>5 DEF Unanchored, OfferInv, ProofKept, Known
<1>6. ASSUME Stalled(t)  PROVE "retries-exhausted" \in board.tasks[t].gates
  BY <1>6 DEF Stalled, OfferInv, FailuresCounted
<1> QED  BY <1>4, <1>5, <1>6 DEF Cause, Unwired

LEMMA OfferInit == TaskCheckInit => OfferInv
<1> SUFFICES ASSUME TaskCheckInit  PROVE OfferInv
  OBVIOUS
<1>1. PICK case \in CheckCases :
        /\ board = case.board /\ marks = case.marks
        /\ branches = case.branches /\ head = case.head /\ made = case.made
  BY DEF TaskCheckInit
<1>2. /\ board \in State /\ NoTaskStoreErrors(board)
      /\ board.operations = EmptyState.operations
      /\ branches \in [Branches -> Seq(LineCommits)] /\ head \in Branches
      /\ made \in Nat
      /\ marks \in [Tasks -> [gate : STRING, gateLines : Seq(STRING),
                              failures : [Signatures \cup {NoSignature} -> Nat],
                              imported : Nat, patch : SUBSET Hunks, proof : Nat]]
      /\ \A t \in Tasks :
           /\ ClaimWellFormed(board.tasks[t])
           /\ ~Exists(board, t) => board.tasks[t] = NoTask
           /\ board.tasks[t].result = NoResult
           /\ MarkSound(board.tasks[t], marks[t], Mainline)
  BY <1>1, CasesAssumption DEF Mainline
<1>3. BoardSound  BY <1>2 DEF BoardSound, WellFormed, Unused
<1>4. LineTyped
  <2>1. candidates \in [Objects -> Seq(LineCommits)]
    BY EmptySeq DEF TaskCheckInit
  <2> QED  BY <1>2, <2>1 DEF LineTyped
<1>7. Built  BY <1>2 DEF Built, EmptyState, AbsentOperation
<1>5. MarksTyped
  <2>1. Seq(STRING) \subseteq Seq(STRING \cup {"retries-exhausted"})
    BY SeqMonotonic
  <2> QED  BY <1>2, <2>1 DEF MarksTyped
<1>6. ASSUME NEW t \in Tasks
      PROVE  ProofKept(t) /\ GateShown(t) /\ FailuresCounted(t)
  <2>1. MarkSound(board.tasks[t], marks[t], Mainline)  BY <1>2
  <2>2. board.tasks[t].result.operation = NoOperation  BY <1>2
  <2>3. ProofKept(t)
    BY <2>1, <2>2 DEF MarkSound, ProofKept, LandedBuilt, Integrated, Known
  <2> QED
    BY <2>1, <2>3 DEF MarkSound, GateShown, FailuresCounted, ShownGate
<1> QED  BY <1>3, <1>4, <1>5, <1>6, <1>7 DEF OfferInv

\* The queue's commands of TaskCheck are commands of the store.
LEMMA BoardStep ==
  ASSUME BoardSound, NEW n, NEW now \in Nat, Command(board, n, now), board' = n
  PROVE  BoardSound'
<1>1. n \in State  BY CommandType DEF BoardSound
<1>2. NoTaskStoreErrors(n)  BY CommandSound DEF BoardSound
<1>3. ClaimSteps(board, n, now)  BY CommandClaims DEF BoardSound
<1>4. WellFormed(n)  BY <1>3 DEF ClaimSteps, ClaimStep, WellFormed
<1>5. Unused(n)
  BY <1>3 DEF ClaimSteps, ClaimStep, BoardSound, Unused, Exists
<1> QED  BY <1>1, <1>2, <1>4, <1>5 DEF BoardSound

\* The tip of a history is one of its commits.
LEMMA TipInside ==
  ASSUME NEW h \in Seq(LineCommits), h # <<>>
  PROVE  Tip(h) \in Ids(h) /\ Tip(h) \in Nat \ {0}
<1>1. Len(h) \in 1..Len(h) /\ DOMAIN h = 1..Len(h)
  BY EmptySeq, LenProperties
<1>2. h[Len(h)] \in LineCommits  BY <1>1, ElementOfSeq
<1> QED  BY <1>1, <1>2, MadeAssumption DEF Tip, Ids, LineCommits

\* Whatever becomes of branches and HEAD, a commit HEAD had is remembered.
LEMMA GitForgetsNothing ==
  ASSUME NEW histories, NEW on, GitMoves(histories, on)
  PROVE  Ids(Mainline) \cup gone \subseteq Ids(Mainline)' \cup gone'
<1>1. Ids(Mainline)' = Ids(histories[on])  BY DEF GitMoves, Mainline, Ids
<1>2. gone' = (gone \cup Ids(Mainline)) \ Ids(histories[on])  BY DEF GitMoves
<1> QED  BY <1>1, <1>2

LEMMA KnownStays ==
  ASSUME UNCHANGED <<branches, head, gone, aside>>
  PROVE  Known' = Known
BY DEF Known, Ids, Mainline

\* Only what is not there yet is built.
CandidatesKept ==
  \A x \in Objects : candidates[x] # <<>> => candidates'[x] = candidates[x]

\* A task nobody writes keeps what is said of it.
LEMMA UntouchedTask ==
  ASSUME NEW u \in Tasks, ProofKept(u), GateShown(u), FailuresCounted(u),
         board'.tasks[u] = board.tasks[u], marks'[u] = marks[u],
         CandidatesKept, Known \subseteq Known'
  PROVE  ProofKept(u)' /\ GateShown(u)' /\ FailuresCounted(u)'
<1>1. LandedBuilt(u)'  BY DEF ProofKept, LandedBuilt, CandidatesKept
<1>2. ASSUME board.tasks[u].status = "done"
      PROVE  Integrated(u)' = Integrated(u)
  BY <1>2 DEF ProofKept, LandedBuilt, CandidatesKept, Integrated
<1>3. ProofKept(u)'  BY <1>1, <1>2 DEF ProofKept
<1>4. GateShown(u)'  BY Zenon DEF GateShown, ShownGate
<1>5. FailuresCounted(u)'  BY DEF FailuresCounted
<1> QED  BY <1>3, <1>4, <1>5

\* So does a queue nobody writes.
LEMMA UntouchedQueue ==
  ASSUME OfferInv, board' = board, marks' = marks, LineTyped', CandidatesKept,
         Known \subseteq Known'
  PROVE  OfferInv'
<1>1. BoardSound' /\ MarksTyped'  BY DEF OfferInv, BoardSound, MarksTyped
<1>2. ASSUME NEW o \in Operations, board.operations[o].status # "absent"
      PROVE  candidates'[board.operations[o].object] # <<>>
  <2>1. board.operations[o].object \in Objects
    BY <1>2, PreparedIsRecorded DEF OfferInv, BoardSound, RecordedOperation
  <2> QED  BY <1>2, <2>1 DEF OfferInv, Built, CandidatesKept
<1>3. Built'  BY <1>2 DEF Built
<1>4. \A t \in Tasks : ProofKept(t)' /\ GateShown(t)' /\ FailuresCounted(t)'
  BY UntouchedTask DEF OfferInv
<1> QED  BY <1>1, <1>3, <1>4 DEF OfferInv

LEMMA OfferCalm ==
  ASSUME OfferInv, NEW n, NEW now \in Nat, Command(board, n, now), Calm(board, n),
         NothingPrepared(board, n), board' = n, UNCHANGED <<marks, gitVars>>
  PROVE  OfferInv'
<1>1. BoardSound'  BY BoardStep DEF OfferInv
<1>g. /\ marks' = marks /\ branches' = branches /\ head' = head
      /\ candidates' = candidates /\ made' = made
      /\ gone' = gone /\ aside' = aside
  BY DEF gitVars
<1>2. LineTyped' /\ MarksTyped'  BY <1>g DEF OfferInv, LineTyped, MarksTyped
<1>4. Built'  BY <1>g DEF OfferInv, Built, NothingPrepared
<1>5. Known' = Known  BY <1>g, KnownStays
<1>3. ASSUME NEW t \in Tasks
      PROVE  ProofKept(t)' /\ GateShown(t)' /\ FailuresCounted(t)'
  <2>1. ProofKept(t)'
    BY <1>g, <1>5 DEF OfferInv, ProofKept, LandedBuilt, Integrated, Calm
  <2>2. GateShown(t)'  BY <1>g DEF OfferInv, GateShown, ShownGate, Calm
  <2>3. FailuresCounted(t)'  BY <1>g DEF OfferInv, FailuresCounted, Calm
  <2> QED  BY <2>1, <2>2, <2>3
<1> QED  BY <1>1, <1>2, <1>3, <1>4 DEF OfferInv

LEMMA OfferByHand ==
  ASSUME OfferInv,
         ClaimOffered \/ \E t \in Tasks : QueueByHand(t)
  PROVE  OfferInv'
<1>q. board \in State  BY DEF OfferInv, BoardSound
<1>z. 0 \in Nat  OBVIOUS
<1>1. ASSUME NEW t \in Tasks, NEW w \in Workers, NEW d \in Durations,
             Plainly(Claim(board, t, w, 0, d))
      PROVE  OfferInv'
  <2>1. 0 \in 0..0 /\ 0 \in Nat  OBVIOUS
  <2>2. PICK n \in Claim(board, t, w, 0, d) : board' = n
    BY <1>1 DEF Plainly, Leaves
  <2>3. Command(board, n, 0)
    BY <2>1, <2>2 DEF Command, QuietCommand, ClaimsNamed
  <2>4. Calm(board, n) /\ NothingPrepared(board, n)  BY <1>q, <2>2, CalmCommands
  <2> QED  BY <1>1, <2>2, <2>3, <2>4, <1>z, OfferCalm DEF Plainly
<1>2. ASSUME NEW t \in Tasks, Plainly(MarkReady(board, t, FALSE))
      PROVE  OfferInv'
  <2>2. PICK n \in MarkReady(board, t, FALSE) : board' = n
    BY <1>2 DEF Plainly, Leaves
  <2>3. Command(board, n, 0)
    BY <2>2 DEF Command, QuietCommand, MarksReady
  <2>4. Calm(board, n) /\ NothingPrepared(board, n)  BY <1>q, <2>2, CalmCommands
  <2> QED  BY <1>2, <2>2, <2>3, <2>4, <1>z, OfferCalm DEF Plainly
<1>3. ASSUME NEW t \in Tasks, Plainly(Reopen(board, t))
      PROVE  OfferInv'
  <2>2. PICK n \in Reopen(board, t) : board' = n
    BY <1>3 DEF Plainly, Leaves
  <2>3. Command(board, n, 0)  BY <2>2 DEF Command, QuietCommand, Reopens
  <2>4. Calm(board, n) /\ NothingPrepared(board, n)  BY <1>q, <2>2, CalmCommands
  <2> QED  BY <1>3, <2>2, <2>3, <2>4, <1>z, OfferCalm DEF Plainly
<1>4. ASSUME NEW t \in Tasks, NEW st \in {"blocked", "in-review", "deferred"},
             Plainly(Resume(board, t, st, board.tasks[t].epoch))
      PROVE  OfferInv'
  <2>1. st \in Statuses /\ board.tasks[t].epoch \in Nat
    BY <1>q, TaskOf DEF Statuses, Task
  <2>2. PICK n \in Resume(board, t, st, board.tasks[t].epoch) : board' = n
    BY <1>4 DEF Plainly, Leaves
  <2>3. Command(board, n, 0)
    BY <2>1, <2>2 DEF Command, QuietCommand, Resumes
  <2>4. Calm(board, n) /\ NothingPrepared(board, n)  BY <1>q, <2>2, CalmCommands
  <2> QED  BY <1>4, <2>2, <2>3, <2>4, <1>z, OfferCalm DEF Plainly
<1>5. ASSUME NEW t \in Tasks,
             NEW dependencies \in SUBSET {u \in Tasks : Exists(board, u)},
             Plainly(Edit(board, t, dependencies, board.tasks[t].lane,
                          board.tasks[t].laneRecipe, FALSE))
      PROVE  OfferInv'
  <2> DEFINE lane == board.tasks[t].lane
             r == board.tasks[t].laneRecipe
  <2>1. /\ dependencies \in SUBSET Tasks /\ lane \in BOOLEAN
        /\ r \in Recipes \cup {NoRecipe}
    BY <1>q, TaskOf DEF Task
  <2>2. PICK n \in Edit(board, t, dependencies, lane, r, FALSE) : board' = n
    BY <1>5 DEF Plainly, Leaves
  <2> HIDE DEF lane, r
  <2>3. Edits(board, n)  BY <2>1, <2>2 DEF Edits
  <2>4. Calm(board, n) /\ NothingPrepared(board, n)  BY <1>q, <2>2, CalmCommands
  <2>5. Command(board, n, 0)  BY <2>3 DEF Command, QuietCommand
  <2> QED  BY <1>5, <2>2, <2>4, <2>5, <1>z, OfferCalm DEF Plainly
<1>6. ASSUME NEW t \in Tasks,
             Plainly(Release(board, t, board.tasks[t].owner, board.tasks[t].epoch))
      PROVE  OfferInv'
  <2> DEFINE w == board.tasks[t].owner
             e == board.tasks[t].epoch
  <2>1. PICK n \in Release(board, t, w, e) : board' = n
    BY <1>6 DEF Plainly, Leaves
  <2>2. w \in Workers /\ e \in Nat
    <3>1. board.tasks[t].status = "claimed"  BY <2>1 DEF Release, HoldsClaim
    <3> QED
      BY <1>q, <3>1, TaskOf
         DEF OfferInv, BoardSound, WellFormed, ClaimWellFormed, Task
  <2> HIDE DEF w, e
  <2>3. Command(board, n, 0)
    BY <2>1, <2>2 DEF Command, QuietCommand, Releases
  <2>4. Calm(board, n) /\ NothingPrepared(board, n)  BY <1>q, <2>1, CalmCommands
  <2> QED  BY <1>6, <2>1, <2>3, <2>4, <1>z, OfferCalm DEF Plainly
<1>7. ASSUME NEW t \in Tasks, NEW w \in Workers, NEW d \in Durations,
             Plainly(Takeover(board, t, w, board.tasks[t].epoch, Expiry(t), d))
      PROVE  OfferInv'
  <2> DEFINE e == board.tasks[t].epoch
             now == Expiry(t)
  <2>1. PICK n \in Takeover(board, t, w, e, now, d) : board' = n
    BY <1>7 DEF Plainly, Leaves
  <2>2. e \in Nat /\ now \in Nat
    BY <1>q, TaskOf DEF Expiry, Task, Lease
  <2>3. now \in 0..now  BY <2>2
  <2> HIDE DEF e, now
  <2>4. Command(board, n, now)
    BY <2>1, <2>2, <2>3 DEF Command, QuietCommand, TakesOver
  <2>5. Calm(board, n) /\ NothingPrepared(board, n)  BY <1>q, <2>1, CalmCommands
  <2> QED  BY <1>7, <2>1, <2>2, <2>4, <2>5, OfferCalm DEF Plainly
<1> QED
  BY <1>1, <1>2, <1>3, <1>4, <1>5, <1>6, <1>7, <1>q
     DEF ClaimOffered, QueueByHand, Offered, ReadyTasks

\* What a failure leaves of the task.
LEMMA FailureCounts ==
  ASSUME NEW s \in State, NEW t \in Tasks, NEW w \in Workers, NEW e \in Nat,
         NEW n \in RecordFailure(s, t, w, e)
  PROVE  LET a == s.tasks[t]  b == n.tasks[t] IN
         /\ b.attempts = a.attempts + 1
         /\ a.gates \subseteq b.gates
         /\ b.status # "done"
         /\ b.status = "blocked" <=> b.attempts >= MaxAttempts
         /\ b.status = "blocked" => "retries-exhausted" \in b.gates
         /\ \A u \in Tasks \ {t} : n.tasks[u] = s.tasks[u]
         /\ n.operations = s.operations
<1> DEFINE a == s.tasks[t]
           failed == [a EXCEPT !.attempts = @ + 1]
           ended == Ended(failed, "blocked")
           blocked == [ended EXCEPT !.gates = @ \cup {"retries-exhausted"}]
           b == IF failed.attempts >= MaxAttempts THEN blocked ELSE failed
<1>1. n = WithTask(s, t, b) /\ a.status = "claimed"
  BY DEF RecordFailure, HoldsClaim
<1>2. a \in Task  BY TaskOf
<1>3. /\ failed \in Task /\ failed.attempts = a.attempts + 1
      /\ failed.gates = a.gates /\ failed.status = "claimed"
  BY <1>1, <1>2 DEF Task
<1> HIDE DEF failed
<1>4. ended \in Task  BY <1>3, EndedType DEF Statuses
<1>7. /\ ended.status = "blocked"
      /\ ended.attempts = a.attempts + 1 /\ ended.gates = a.gates
  BY <1>3 DEF Ended, Task
<1> HIDE DEF ended
<1>5. /\ blocked.status = "blocked" /\ blocked.attempts = a.attempts + 1
      /\ blocked.gates = a.gates \cup {"retries-exhausted"}
  BY <1>4, <1>7 DEF Task
<1> HIDE DEF blocked
<1>6. /\ n.tasks[t] = b /\ \A u \in Tasks \ {t} : n.tasks[u] = s.tasks[u]
      /\ n.operations = s.operations
  BY <1>1 DEF WithTask, State
<1> QED  BY <1>3, <1>5, <1>6

LEMMA OfferFail ==
  ASSUME OfferInv, NEW t \in Tasks, NEW signature \in Signatures \cup {NoSignature},
         Fail(t, signature)
  PROVE  OfferInv'
<1> DEFINE a == board.tasks[t]
           mark == marks[t]
           failed == [mark EXCEPT !.failures[signature] = @ + 1]
           after == IF board'.tasks[t].status = "blocked" THEN Parked(failed)
                                                         ELSE failed
<1>q. board \in State /\ WellFormed(board)  BY DEF OfferInv, BoardSound
<1>1. PICK n \in RecordFailure(board, t, a.owner, a.epoch) : board' = n
  BY DEF Fail, Leaves
<1>2. a \in Task /\ a.status = "claimed"
  BY <1>q, <1>1, TaskOf DEF RecordFailure, HoldsClaim
<1>3. a.owner \in Workers /\ a.epoch \in Nat /\ a.attempts \in Nat
  BY <1>q, <1>2 DEF WellFormed, ClaimWellFormed, Task
<1>4. BoardSound'
  <2>1. Command(board, n, 0)
    BY <1>1, <1>3 DEF Command, QuietCommand, RecordsFailure
  <2>2. 0 \in Nat  OBVIOUS
  <2> QED  BY <1>1, <2>1, <2>2, BoardStep DEF OfferInv
<1>5. LET b == board'.tasks[t] IN
      /\ b.attempts = a.attempts + 1
      /\ a.gates \subseteq b.gates
      /\ b.status # "done"
      /\ b.status = "blocked" <=> b.attempts >= MaxAttempts
      /\ b.status = "blocked" => "retries-exhausted" \in b.gates
      /\ \A u \in Tasks \ {t} : board'.tasks[u] = board.tasks[u]
      /\ board'.operations = board.operations
  BY <1>q, <1>1, <1>3, FailureCounts
<1>6. /\ marks' = [marks EXCEPT ![t] = after]
      /\ branches' = branches /\ head' = head /\ candidates' = candidates
      /\ made' = made /\ gone' = gone /\ aside' = aside
  BY DEF Fail, gitVars
<1>k. Known' = Known /\ CandidatesKept
  BY <1>6, KnownStays DEF CandidatesKept
<1>b. Built'  BY <1>5, <1>6 DEF OfferInv, Built
<1>m. /\ mark.gate \in STRING \cup {"unrecorded"}
      /\ mark.gateLines \in Seq(STRING \cup {"retries-exhausted"})
      /\ mark.failures \in [Signatures \cup {NoSignature} -> Nat]
      /\ mark \in [gate : STRING \cup {"unrecorded"},
                   gateLines : Seq(STRING \cup {"retries-exhausted"}),
                   failures : [Signatures \cup {NoSignature} -> Nat],
                   imported : Nat, patch : SUBSET Hunks, proof : Nat]
  BY DEF OfferInv, MarksTyped
<1>f. /\ failed.gate = mark.gate /\ failed.gateLines = mark.gateLines
      /\ failed.failures = [mark.failures EXCEPT ![signature] = @ + 1]
      /\ failed \in [gate : STRING \cup {"unrecorded"},
                     gateLines : Seq(STRING \cup {"retries-exhausted"}),
                     failures : [Signatures \cup {NoSignature} -> Nat],
                     imported : Nat, patch : SUBSET Hunks, proof : Nat]
  <2> DEFINE failures == [mark.failures EXCEPT ![signature] = @ + 1]
  <2>1. failures \in [Signatures \cup {NoSignature} -> Nat]  BY <1>m
  <2>2. failed = [mark EXCEPT !.failures = failures]  BY <1>m
  <2> HIDE DEF failures, failed
  <2>3. /\ failed.gate = mark.gate /\ failed.gateLines = mark.gateLines
        /\ failed.failures = failures
    BY <1>m, <2>2
  <2>4. failed \in [gate : STRING \cup {"unrecorded"},
                    gateLines : Seq(STRING \cup {"retries-exhausted"}),
                    failures : [Signatures \cup {NoSignature} -> Nat],
                    imported : Nat, patch : SUBSET Hunks, proof : Nat]
    BY <1>m, <2>1, <2>2
  <2> QED  BY <2>3, <2>4 DEF failures
<1> HIDE DEF failed
<1> DEFINE lines == Append(mark.gateLines, "retries-exhausted")
<1>l. /\ lines \in Seq(STRING \cup {"retries-exhausted"})
      /\ lines # <<>> /\ lines[Len(lines)] = "retries-exhausted"
  BY <1>m, AppendProperties, LenProperties
<1>p. /\ Parked(failed).gate = "unrecorded" /\ Parked(failed).gateLines = lines
      /\ Parked(failed).failures = failed.failures
      /\ Parked(failed) \in [gate : STRING \cup {"unrecorded"},
                     gateLines : Seq(STRING \cup {"retries-exhausted"}),
                     failures : [Signatures \cup {NoSignature} -> Nat],
                     imported : Nat, patch : SUBSET Hunks, proof : Nat]
  <2>1. Parked(failed) = [failed EXCEPT !.gate = "unrecorded", !.gateLines = lines]
    BY <1>f DEF Parked
  <2> HIDE DEF lines
  <2> QED  BY <1>f, <1>l, <2>1
<1> HIDE DEF lines
<1>7. LineTyped'  BY <1>6 DEF OfferInv, LineTyped
<1>8. after \in [gate : STRING \cup {"unrecorded"},
                 gateLines : Seq(STRING \cup {"retries-exhausted"}),
                 failures : [Signatures \cup {NoSignature} -> Nat],
                 imported : Nat, patch : SUBSET Hunks, proof : Nat]
  BY <1>f, <1>p
<1>9. after.failures = [mark.failures EXCEPT ![signature] = @ + 1]
  BY <1>f, <1>p
<1>10. board'.tasks[t].status = "blocked"
         => after.gate = "unrecorded" /\ after.gateLines = lines
  BY <1>p
<1> HIDE DEF after
<1>11. MarksTyped'  BY <1>6, <1>8 DEF OfferInv, MarksTyped
<1>12. /\ marks'[t] = after
       /\ \A u \in Tasks \ {t} : marks'[u] = marks[u]
  BY <1>6 DEF OfferInv, MarksTyped
<1>13. ASSUME NEW u \in Tasks, u # t
       PROVE  ProofKept(u)' /\ GateShown(u)' /\ FailuresCounted(u)'
  <2>1. board'.tasks[u] = board.tasks[u] /\ marks'[u] = marks[u]
    BY <1>5, <1>12, <1>13
  <2> QED  BY <1>k, <2>1, UntouchedTask DEF OfferInv
<1>14. ProofKept(t)'  BY <1>5 DEF ProofKept, LandedBuilt
<1>15. GateShown(t)'
  <2>1. "unrecorded" # "none"  OBVIOUS
  <2>2. "retries-exhausted" # ""  BY Zenon
  <2>3. lines # <<>> => LastLine(lines) = lines[Len(lines)]  BY Zenon DEF LastLine
  <2> QED
    BY <1>10, <1>12, <1>l, <2>1, <2>2, <2>3, Zenon DEF GateShown, ShownGate
<1>16. FailuresCounted(t)'
  <2> SUFFICES ASSUME NEW s \in Signatures
               PROVE  /\ after.failures[s] <= board'.tasks[t].attempts
                      /\ after.failures[s] >= MaxAttempts
                           => "retries-exhausted" \in board'.tasks[t].gates
    BY <1>12 DEF FailuresCounted
  <2>1. /\ mark.failures[s] <= a.attempts
        /\ mark.failures[s] >= MaxAttempts => "retries-exhausted" \in a.gates
        /\ mark.failures[s] \in Nat
    BY <1>m DEF OfferInv, FailuresCounted
  <2>2. after.failures[s] \in {mark.failures[s], mark.failures[s] + 1}
    BY <1>9, <1>m
  <2>3. after.failures[s] <= a.attempts + 1  BY <1>3, <2>1, <2>2
  <2>4. ASSUME after.failures[s] >= MaxAttempts
        PROVE  board'.tasks[t].attempts >= MaxAttempts
    BY <1>3, <1>5, <2>1, <2>2, <2>3, <2>4, ConstantsAssumption
  <2> QED  BY <1>5, <2>3, <2>4
<1>17. \A u \in Tasks : ProofKept(u)' /\ GateShown(u)' /\ FailuresCounted(u)'
  BY <1>13, <1>14, <1>15, <1>16
<1> QED  BY <1>4, <1>7, <1>b, <1>11, <1>17 DEF OfferInv

LEMMA OfferClose ==
  ASSUME OfferInv, NEW t \in Tasks, CloseProven(t)
  PROVE  OfferInv'
<1> DEFINE a == board.tasks[t]
           id == Tip(Mainline)
<1>q. board \in State /\ a \in Task  BY TaskOf DEF OfferInv, BoardSound
<1>1. PICK n \in Close(board, t, a.owner, TRUE, a.epoch, a.laneRecipe) : board' = n
  BY DEF CloseProven, Leaves
<1>2. a.status = "claimed" /\ n = WithTask(board, t, [Ended(a, "done") EXCEPT !.result = NoResult])
  BY <1>1 DEF Close, HoldsClaim
<1>3. a.owner \in Workers /\ a.epoch \in Nat /\ a.laneRecipe \in Recipes \cup {NoRecipe}
  BY <1>q, <1>2 DEF OfferInv, BoardSound, WellFormed, ClaimWellFormed, Task
<1>4. BoardSound'
  <2>1. TRUE \in BOOLEAN  OBVIOUS
  <2>2. Closes(board, n)  BY <1>1, <1>3, <2>1 DEF Closes
  <2>3. Command(board, n, 0)  BY <2>2 DEF Command, QuietCommand
  <2>4. 0 \in Nat  OBVIOUS
  <2> QED  BY <1>1, <2>3, <2>4, BoardStep DEF OfferInv
<1>5. /\ board'.tasks[t].status = "done"
      /\ board'.tasks[t].attempts = a.attempts
      /\ board'.tasks[t].gates = a.gates
      /\ board'.tasks[t].result = NoResult
  <2> DEFINE ended == Ended(a, "done")
             closed == [ended EXCEPT !.result = NoResult]
  <2>5. ended \in Task  BY <1>q, EndedType DEF Statuses
  <2>1. /\ ended.status = "done"
        /\ ended.attempts = a.attempts /\ ended.gates = a.gates
    BY <1>q DEF Ended, Task
  <2> HIDE DEF ended
  <2>2. /\ closed.status = "done" /\ closed.attempts = a.attempts
        /\ closed.gates = a.gates /\ closed.result = NoResult
    BY <2>1, <2>5 DEF Task
  <2>3. board' = WithTask(board, t, closed)  BY <1>1, <1>2 DEF ended
  <2> HIDE DEF closed
  <2>4. board'.tasks[t] = closed  BY <1>q, <2>3 DEF WithTask, State
  <2> QED  BY <2>2, <2>4
<1>6. /\ \A u \in Tasks \ {t} : board'.tasks[u] = board.tasks[u]
      /\ board'.operations = board.operations
  BY <1>1, <1>2, <1>q DEF WithTask, State
<1>7. /\ Mainline # <<>> /\ marks' = [marks EXCEPT ![t].proof = id]
      /\ branches' = branches /\ head' = head /\ candidates' = candidates
      /\ made' = made /\ gone' = gone /\ aside' = aside
  BY DEF CloseProven, gitVars
<1>8. id \in Nat /\ id # 0 /\ id \in Known
  <2>1. Mainline \in Seq(LineCommits)  BY DEF OfferInv, LineTyped, Mainline
  <2> QED  BY <1>7, <2>1, TipInside DEF Known
<1> HIDE DEF id
<1>k. Known' = Known /\ CandidatesKept
  BY <1>7, KnownStays DEF CandidatesKept
<1>b. Built'  BY <1>6, <1>7 DEF OfferInv, Built
<1>9. LineTyped'  BY <1>7 DEF OfferInv, LineTyped
<1>10. MarksTyped'  BY <1>7, <1>8 DEF OfferInv, MarksTyped
<1>11. /\ marks'[t].proof = id
       /\ marks'[t].failures = marks[t].failures
       /\ \A u \in Tasks \ {t} : marks'[u] = marks[u]
  BY <1>7 DEF OfferInv, MarksTyped
<1>12. ASSUME NEW u \in Tasks, u # t
       PROVE  ProofKept(u)' /\ GateShown(u)' /\ FailuresCounted(u)'
  <2>1. board'.tasks[u] = board.tasks[u] /\ marks'[u] = marks[u]
    BY <1>6, <1>11, <1>12
  <2> QED  BY <1>k, <2>1, UntouchedTask DEF OfferInv
<1>13. ProofKept(t)'
  <2>1. CommitOf(marks'[t]) = id  BY <1>8, <1>11 DEF CommitOf
  <2>2. Integrated(t)' = id  BY <1>5, <2>1 DEF Integrated, NoResult
  <2>3. LandedBuilt(t)'  BY <1>5 DEF LandedBuilt, NoResult
  <2> QED  BY <1>8, <1>k, <2>2, <2>3 DEF ProofKept
<1>14. GateShown(t)'  BY <1>5 DEF GateShown
<1>15. FailuresCounted(t)'
  BY <1>5, <1>11 DEF OfferInv, FailuresCounted
<1>16. \A u \in Tasks : ProofKept(u)' /\ GateShown(u)' /\ FailuresCounted(u)'
  BY <1>12, <1>13, <1>14, <1>15
<1> QED  BY <1>4, <1>9, <1>b, <1>10, <1>16 DEF OfferInv

\* Whatever becomes of branches and HEAD leaves the queue alone and forgets no
\* commit.
LEMMA OfferGit ==
  ASSUME OfferInv, NEW histories \in [Branches -> Seq(LineCommits)],
         NEW on \in Branches, GitMoves(histories, on), made' \in Nat,
         UNCHANGED <<board, marks, candidates, aside>>
  PROVE  OfferInv'
<1>1. LineTyped'  BY DEF GitMoves, OfferInv, LineTyped
<1>2. Known \subseteq Known'  BY GitForgetsNothing DEF Known
<1>3. CandidatesKept  BY DEF CandidatesKept
<1> QED  BY <1>1, <1>2, <1>3, UntouchedQueue

LEMMA OfferMoves ==
  ASSUME OfferInv, NEW commits \in Seq(LineCommits), MovesTo(commits),
         made' \in Nat
  PROVE  OfferInv'
<1> DEFINE histories == [branches EXCEPT ![head] = commits]
<1>1. head \in Branches /\ histories \in [Branches -> Seq(LineCommits)]
  BY DEF OfferInv, LineTyped
<1>2. GitMoves(histories, head)  BY DEF MovesTo
<1> HIDE DEF histories
<1> QED  BY <1>1, <1>2, OfferGit DEF MovesTo

LEMMA OfferCandidate ==
  ASSUME OfferInv, NEW x \in Objects, Candidate(x)
  PROVE  OfferInv'
<1>t. /\ branches \in [Branches -> Seq(LineCommits)] /\ made \in Nat
      /\ candidates \in [Objects -> Seq(LineCommits)]
  BY DEF OfferInv, LineTyped
<1>1. PICK b \in Branches, c \in Hunks :
        candidates' = [candidates EXCEPT
          ![x] = Append(branches[b], [id |-> made + 1, changes |-> {c}])]
  BY DEF Candidate
<1> DEFINE commit == [id |-> made + 1, changes |-> {c}]
           history == Append(branches[b], commit)
<1>2. commit \in LineCommits
  BY <1>t, MadeAssumption DEF Candidate, LineCommits
<1> HIDE DEF commit
<1>3. history \in Seq(LineCommits)  BY <1>t, <1>2, AppendProperties
<1>4. candidates' = [candidates EXCEPT ![x] = history]  BY <1>1 DEF commit
<1> HIDE DEF history
<1>5. candidates' \in [Objects -> Seq(LineCommits)]  BY <1>t, <1>3, <1>4
<1>6. /\ branches' = branches /\ head' = head /\ made' = made + 1
      /\ gone' = gone /\ aside' = aside /\ board' = board /\ marks' = marks
  BY DEF Candidate
<1>7. LineTyped'  BY <1>t, <1>5, <1>6 DEF OfferInv, LineTyped
<1>8. Known' = Known  BY <1>6, KnownStays
<1>9. CandidatesKept  BY <1>t, <1>4 DEF Candidate, CandidatesKept
<1> QED  BY <1>6, <1>7, <1>8, <1>9, UntouchedQueue

LEMMA OfferPrepare ==
  ASSUME OfferInv, NEW o \in Operations, NEW t \in Tasks, PrepareLane(o, t)
  PROVE  OfferInv'
<1> DEFINE a == board.tasks[t]
<1>q. board \in State /\ WellFormed(board)  BY DEF OfferInv, BoardSound
<1>1. PICK x \in Objects, r \in EffectRefs, i \in Intents :
        /\ candidates[x] # <<>>
        /\ Leaves(PrepareOperation(board, o, t, a.owner, a.epoch, r, x, NoObject,
                                   i, board.intents[i]))
  BY DEF PrepareLane
<1>2. PICK n \in PrepareOperation(board, o, t, a.owner, a.epoch, r, x, NoObject,
                                  i, board.intents[i]) : board' = n
  BY <1>1 DEF Leaves
<1>3. a \in Task /\ a.status = "claimed"
  BY <1>q, <1>2, TaskOf DEF PrepareOperation, HoldsClaim
<1>4. /\ a.owner \in Workers /\ a.epoch \in Nat /\ board.intents[i] \in Nat
      /\ NoObject \in Objects \cup {NoObject}
  BY <1>q, <1>3 DEF WellFormed, ClaimWellFormed, Task, State
<1>5. BoardSound'
  <2>1. Prepares(board, n)  BY <1>2, <1>4 DEF Prepares
  <2>2. Command(board, n, 0)  BY <2>1 DEF Command, QuietCommand
  <2>3. 0 \in Nat  OBVIOUS
  <2> QED  BY <1>2, <2>2, <2>3, BoardStep DEF OfferInv
<1>6. /\ board'.tasks = board.tasks /\ board'.operations[o].object = x
      /\ \A p \in Operations \ {o} : board'.operations[p] = board.operations[p]
  BY <1>q, <1>2 DEF PrepareOperation, State
<1>7. /\ branches' = branches /\ head' = head /\ candidates' = candidates
      /\ made' = made /\ gone' = gone /\ aside' = aside /\ marks' = marks
  BY DEF PrepareLane
<1>8. LineTyped' /\ MarksTyped'  BY <1>7 DEF OfferInv, LineTyped, MarksTyped
<1>9. Built'  BY <1>1, <1>6, <1>7 DEF OfferInv, Built
<1>10. Known' = Known /\ CandidatesKept
  BY <1>7, KnownStays DEF CandidatesKept
<1>11. \A u \in Tasks : ProofKept(u)' /\ GateShown(u)' /\ FailuresCounted(u)'
  BY <1>6, <1>7, <1>10, UntouchedTask DEF OfferInv
<1> QED  BY <1>5, <1>8, <1>9, <1>11 DEF OfferInv

\* An operation that lands makes its task name a commit that is known.
LEMMA OfferLands ==
  ASSUME OfferInv, NEW o \in Operations, Lands(o),
         branches' \in [Branches -> Seq(LineCommits)], head' \in Branches,
         Known \subseteq Known',
         Tip(candidates[board.operations[o].object]) \in Known'
  PROVE  OfferInv'
<1>q. board \in State /\ WellFormed(board)  BY DEF OfferInv, BoardSound
<1>0. PICK op \in RecordedOperation : op = board.operations[o]
  BY <1>q, PreparedIsRecorded DEF Lands
<1> DEFINE t == op.task
           x == op.object
           a == board.tasks[t]
<1>1. op.status = "prepared"  BY <1>0 DEF Lands
<1>2. t \in Tasks /\ x \in Objects  BY DEF RecordedOperation
<1>3. a \in Task  BY <1>q, <1>2, TaskOf
<1>4. PICK w \in Workers :
        Leaves(ObserveOperation(board, o, w, a.epoch, a.lease.renew))
  BY <1>0 DEF Lands
<1>5. PICK n \in ObserveOperation(board, o, w, a.epoch, a.lease.renew) : board' = n
  BY <1>4 DEF Leaves
<1>6. BoardSound'
  <2>1. a.epoch \in Nat /\ a.lease.renew \in Nat  BY <1>3 DEF Task, Lease
  <2>2. Observes(board, n)  BY <1>5, <2>1 DEF Observes
  <2>3. Command(board, n, 0)  BY <2>2 DEF Command
  <2>4. 0 \in Nat  OBVIOUS
  <2> QED  BY <1>5, <2>3, <2>4, BoardStep DEF OfferInv
<1>7. board' = Observed(board, o)  BY <1>5 DEF ObserveOperation
<1> DEFINE ended == Ended(a, "done")
           done == [ended EXCEPT !.result = [operation |-> o, object |-> x]]
<1>8. /\ done.status = "done" /\ done.attempts = a.attempts /\ done.gates = a.gates
      /\ done.result = [operation |-> o, object |-> x]
  <2>1. ended \in Task  BY <1>3, EndedType DEF Statuses
  <2>2. ended.status = "done" /\ ended.attempts = a.attempts /\ ended.gates = a.gates
    BY <1>3 DEF Ended, Task
  <2> HIDE DEF ended
  <2> QED  BY <2>1, <2>2 DEF Task
<1>9. /\ board'.tasks = [board.tasks EXCEPT ![t] = done]
      /\ board'.operations =
           [board.operations EXCEPT ![o] = [op EXCEPT !.status = "observed"]]
  BY <1>0, <1>7, <1>q DEF Observed, WithTask, State
<1> HIDE DEF done, ended
<1>10. /\ board'.tasks[t] = done
       /\ \A u \in Tasks \ {t} : board'.tasks[u] = board.tasks[u]
  BY <1>9, <1>2, <1>q DEF State
<1>11. /\ board'.operations[o].object = x
       /\ \A p \in Operations \ {o} : board'.operations[p] = board.operations[p]
  BY <1>9, <1>q DEF State, RecordedOperation
<1>12. candidates' = candidates /\ marks' = marks /\ made' = made
  BY DEF Lands
<1>13. LineTyped' /\ MarksTyped'
  BY <1>12 DEF OfferInv, LineTyped, MarksTyped
<1>14. candidates[x] # <<>>  BY <1>0, <1>1 DEF OfferInv, Built
<1>15. Built'  BY <1>11, <1>12, <1>14 DEF OfferInv, Built
<1>16. CandidatesKept  BY <1>12 DEF CandidatesKept
<1>17. ASSUME NEW u \in Tasks, u # t
       PROVE  ProofKept(u)' /\ GateShown(u)' /\ FailuresCounted(u)'
  BY <1>10, <1>12, <1>16, <1>17, UntouchedTask DEF OfferInv
<1>18. ProofKept(t)'
  <2>1. LandedBuilt(t)'  BY <1>2, <1>8, <1>10, <1>12, <1>14 DEF LandedBuilt
  <2>2. o # NoOperation  BY ConstantsAssumption
  <2>3. Integrated(t)' = Tip(candidates[x])
    BY <1>8, <1>10, <1>12, <2>2 DEF Integrated, Tip
  <2> QED  BY <1>0, <2>1, <2>3 DEF ProofKept
<1>19. GateShown(t)'  BY <1>8, <1>10 DEF GateShown
<1>20. FailuresCounted(t)'
  BY <1>2, <1>8, <1>10, <1>12 DEF OfferInv, FailuresCounted
<1>21. \A u \in Tasks : ProofKept(u)' /\ GateShown(u)' /\ FailuresCounted(u)'
  BY <1>17, <1>18, <1>19, <1>20
<1> QED  BY <1>6, <1>13, <1>15, <1>21 DEF OfferInv

LEMMA OfferApply ==
  ASSUME OfferInv, NEW o \in Operations, ApplyLane(o)
  PROVE  OfferInv'
<1> DEFINE op == board.operations[o]
           history == candidates[op.object]
           histories == [branches EXCEPT ![op.ref] = history]
<1>1. op \in RecordedOperation /\ op.status = "prepared"
  BY PreparedIsRecorded DEF OfferInv, BoardSound, ApplyLane, Lands
<1>2. op.object \in Objects /\ op.ref \in Branches
  BY <1>1, MadeAssumption DEF RecordedOperation
<1>3. history \in Seq(LineCommits) /\ history # <<>>
  BY <1>1, <1>2 DEF OfferInv, LineTyped, Built
<1>4. Tip(history) \in Ids(history)  BY <1>3, TipInside
<1>t. branches \in [Branches -> Seq(LineCommits)] /\ head \in Branches
  BY DEF OfferInv, LineTyped
<1>5. histories \in [Branches -> Seq(LineCommits)]  BY <1>t, <1>3
<1>6. GitMoves(histories, head)  BY DEF ApplyLane
<1>7. aside' = IF op.ref = head THEN aside ELSE aside \cup {Tip(history)}
  BY DEF ApplyLane, Lands
<1>8. op.ref = head => Ids(Mainline)' = Ids(history)
  BY <1>2, <1>6, <1>t DEF GitMoves, Mainline, Ids
<1> HIDE DEF histories
<1>9. branches' \in [Branches -> Seq(LineCommits)] /\ head' \in Branches
  BY <1>5, <1>6, <1>t DEF GitMoves
<1>10. Known \subseteq Known'
  BY <1>6, <1>7, GitForgetsNothing DEF Known
<1>11. Tip(history) \in Known'  BY <1>4, <1>7, <1>8 DEF Known
<1> QED  BY <1>9, <1>10, <1>11, OfferLands DEF ApplyLane

LEMMA OfferComplete ==
  ASSUME OfferInv, NEW o \in Operations, CompleteLane(o)
  PROVE  OfferInv'
<1> DEFINE op == board.operations[o]
           history == candidates[op.object]
<1>1. op \in RecordedOperation /\ op.status = "prepared"
  BY PreparedIsRecorded DEF OfferInv, BoardSound, CompleteLane, Lands
<1>2. history \in Seq(LineCommits) /\ history # <<>>
  BY <1>1 DEF OfferInv, LineTyped, Built, RecordedOperation
<1>3. Tip(history) # 0  BY <1>2, TipInside
<1>4. /\ branches' = branches /\ head' = head /\ gone' = gone
      /\ aside' = IF op.ref = head THEN aside ELSE aside \cup {Tip(history)}
  BY DEF CompleteLane, Lands
<1>5. Ids(Mainline)' = Ids(Mainline)  BY <1>4 DEF Ids, Mainline
<1>6. Known \subseteq Known'  BY <1>4, <1>5 DEF Known
<1>7. op.ref = head => Tip(history) \in Ids(Mainline)
  <2> SUFFICES ASSUME op.ref = head  PROVE Tip(history) \in Ids(Mainline)
    OBVIOUS
  <2>1. Tip(Mainline) = Tip(history)  BY DEF CompleteLane, Mainline
  <2>2. Mainline # <<>>  BY <1>3, <2>1 DEF Tip
  <2>3. Mainline \in Seq(LineCommits)  BY DEF OfferInv, LineTyped, Mainline
  <2> QED  BY <2>1, <2>2, <2>3, TipInside
<1>8. Tip(history) \in Known'  BY <1>4, <1>5, <1>7 DEF Known
<1>9. branches' \in [Branches -> Seq(LineCommits)] /\ head' \in Branches
  BY <1>4 DEF OfferInv, LineTyped
<1> QED  BY <1>6, <1>8, <1>9, OfferLands DEF CompleteLane

LEMMA OfferCommits ==
  ASSUME OfferInv,
         \/ \E c \in Hunks : CommitChange(c)
         \/ \E i \in 1..Len(Mainline) : Squash(i)
  PROVE  OfferInv'
<1>t. Mainline \in Seq(LineCommits) /\ made \in Nat
  BY DEF OfferInv, LineTyped, Mainline
<1>4. ASSUME NEW c \in Hunks, CommitChange(c)
      PROVE  OfferInv'
  <2>1. [id |-> made + 1, changes |-> {c}] \in LineCommits
    BY <1>4, <1>t, MadeAssumption DEF CommitChange, LineCommits
  <2>2. Append(Mainline, [id |-> made + 1, changes |-> {c}]) \in Seq(LineCommits)
    BY <1>t, <2>1, AppendProperties
  <2>3. made' \in Nat  BY <1>4, <1>t DEF CommitChange
  <2> QED  BY <1>4, <2>2, <2>3, OfferMoves DEF CommitChange
<1>5. ASSUME NEW i \in 1..Len(Mainline), Squash(i)
      PROVE  OfferInv'
  <2> DEFINE kept == SubSeq(Mainline, 1, i)
             rest == SubSeq(Mainline, i + 1, Len(Mainline))
             commit == [id |-> made + 1, changes |-> Contents(rest)]
  <2>1. Len(Mainline) \in Nat /\ i \in Nat
    BY <1>t, <1>5, LenProperties
  <2>2. \A j \in 1..Len(Mainline) : Mainline[j] \in LineCommits
    BY <1>t, ElementOfSeq
  <2>3. kept \in Seq(LineCommits)
    <3>1. \A j \in 1..i : Mainline[j] \in LineCommits  BY <2>1, <2>2
    <3> QED  BY <2>1, <3>1, SubSeqProperties
  <2>4. rest \in Seq(LineCommits)
    <3>1. \A j \in (i + 1)..Len(Mainline) : Mainline[j] \in LineCommits
      BY <2>1, <2>2
    <3> QED  BY <2>1, <3>1, SubSeqProperties
  <2>5. \A j \in DOMAIN rest : rest[j].changes \in SUBSET Hunks
    BY <2>4, LenProperties, ElementOfSeq DEF LineCommits
  <2> HIDE DEF rest, kept
  <2>6. Contents(rest) \in SUBSET Hunks  BY <2>5 DEF Contents
  <2>7. commit \in LineCommits
    BY <1>5, <1>t, <2>6, MadeAssumption DEF Squash, LineCommits
  <2>8. Append(kept, commit) \in Seq(LineCommits)
    BY <2>3, <2>7, AppendProperties
  <2>9. made' \in Nat  BY <1>5, <1>t DEF Squash
  <2> QED  BY <1>5, <2>8, <2>9, OfferMoves DEF Squash, kept, rest
<1> QED  BY <1>4, <1>5

LEMMA OfferNext == OfferInv /\ [TaskCheckNext]_taskCheckVars => OfferInv'
<1> SUFFICES ASSUME OfferInv, [TaskCheckNext]_taskCheckVars
             PROVE  OfferInv'
  OBVIOUS
<1>t. /\ branches \in [Branches -> Seq(LineCommits)] /\ head \in Branches
      /\ candidates \in [Objects -> Seq(LineCommits)] /\ made \in Nat
  BY DEF OfferInv, LineTyped
<1>1. CASE ClaimOffered \/ \E t \in Tasks : QueueByHand(t)
  BY <1>1, OfferByHand
<1>2. CASE \E t \in Tasks : CloseProven(t)  BY <1>2, OfferClose
<1>3. CASE \E t \in Tasks, s \in Signatures \cup {NoSignature} : Fail(t, s)
  BY <1>3, OfferFail
<1>4. CASE \/ \E c \in Hunks : CommitChange(c)
           \/ \E i \in 1..Len(Mainline) : Squash(i)
  BY <1>4, OfferCommits
<1>5. ASSUME NEW commits \in Seq(LineCommits), FastForward(commits)
      PROVE  OfferInv'
  <2>1. made' \in Nat  BY <1>5, <1>t DEF FastForward
  <2> QED  BY <1>5, <2>1, OfferMoves DEF FastForward
<1>6. ASSUME NEW b \in Branches, Switch(b)
      PROVE  OfferInv'
  <2>1. made' \in Nat  BY <1>6, <1>t DEF Switch
  <2> QED  BY <1>6, <1>t, <2>1, OfferGit DEF Switch
<1>7. CASE \E b \in Branches : FastForward(branches[b]) \/ Switch(b)
  BY <1>5, <1>6, <1>7, <1>t
<1>8. CASE \E x \in Objects : FastForward(candidates[x]) \/ Candidate(x)
  BY <1>5, <1>8, <1>t, OfferCandidate
<1>9. CASE \E o \in Operations, t \in Tasks : PrepareLane(o, t)
  BY <1>9, OfferPrepare
<1>10. CASE \E o \in Operations : ApplyLane(o) \/ CompleteLane(o)
  BY <1>10, OfferApply, OfferComplete
<1>11. CASE UNCHANGED taskCheckVars
  <2>1. /\ board' = board /\ marks' = marks /\ branches' = branches
        /\ head' = head /\ candidates' = candidates /\ made' = made
        /\ gone' = gone /\ aside' = aside
    BY <1>11 DEF taskCheckVars, gitVars
  <2>2. LineTyped'  BY <2>1 DEF OfferInv, LineTyped
  <2>3. Known' = Known /\ CandidatesKept
    BY <2>1, KnownStays DEF CandidatesKept
  <2> QED  BY <2>1, <2>2, <2>3, UntouchedQueue
<1> QED
  BY <1>1, <1>2, <1>3, <1>4, <1>7, <1>8, <1>9, <1>10, <1>11 DEF TaskCheckNext

\* Whatever the commands, failures, closes, operations and moved or rewritten
\* branches, `krn task check' holds an offer back only for a parked task that kept
\* failing alike, a done task whose commit HEAD has left or whose operation landed
\* on a branch HEAD was not on, or a recipe that names an uncommitted test.
THEOREM OffersWithheldForCause == TaskCheckSpec => []WithheldForCause
BY OfferEnough, OfferInit, OfferNext, PTL DEF TaskCheckSpec
=============================================================================
