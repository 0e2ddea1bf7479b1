----------------------------- MODULE TaskQueue -----------------------------
(***************************************************************************)
(* What the task queue promises its callers: every command of              *)
(* scripts/lib/task/task-store.mjs acts on the queue at one instant.  An   *)
(* effect ref moves together with the queue, or not at all.                *)
(*                                                                         *)
(* A command judges leases by a time its caller took earlier, so each      *)
(* action picks a time `at' not later than the clock.  TaskStore, which    *)
(* splits a command into its reads and its compare-and-swap, implements    *)
(* this specification.                                                     *)
(***************************************************************************)
EXTENDS TaskState

CONSTANTS
  Imports,      \* snapshots a legacy Markdown queue may be imported as
  MaxVersion,   \* bound: commits of the queue ref
  MaxClock,     \* bound: ticks of the clock
  MaxRevision   \* bound: intent revisions

ASSUME BoundsAssumption ==
  MaxVersion \in Nat /\ MaxClock \in Nat /\ MaxRevision \in Nat

VARIABLES
  queue,        \* the snapshot refs/krn/queue points at
  refs,         \* the value of every effect ref
  clock         \* the time of day

vars == <<queue, refs, clock>>

-----------------------------------------------------------------------------
(* Initial states. *)

ASSUME ImportsAssumption == \A s \in Imports : Importable(s)

Init ==
  /\ queue \in {EmptyState} \cup Imports
  /\ refs \in [EffectRefs -> Objects \cup {NoObject}]
  /\ clock = 0

-----------------------------------------------------------------------------
(* The commands that write only the queue. *)

\* The snapshots a commit on top of s may write.
Commit(s, nexts) == {[n EXCEPT !.version = s.version + 1] : n \in nexts}

Times == 0..clock

Writes(nexts) ==
  /\ queue.version < MaxVersion
  /\ queue' \in Commit(queue, nexts)
  /\ UNCHANGED <<refs, clock>>

AddTask ==
  \E t \in Tasks, d \in SUBSET Tasks, lane \in BOOLEAN,
     r \in Recipes \cup {NoRecipe} : Writes(Add(queue, t, d, lane, r))

MarkTaskReady ==
  \E t \in Tasks, admitBlocked \in BOOLEAN :
    Writes(MarkReady(queue, t, admitBlocked))

EditTask ==
  \E t \in Tasks, d \in SUBSET Tasks, lane \in BOOLEAN,
     r \in Recipes \cup {NoRecipe}, text \in BOOLEAN :
    Writes(Edit(queue, t, d, lane, r, text))

ClaimTask ==
  \E t \in Tasks, w \in Workers, at \in Times, dur \in Durations :
    Writes(Claim(queue, t, w, at, dur))

ClaimReadyTask ==
  \E w \in Workers, at \in Times, dur \in Durations :
    Writes(ClaimReady(queue, w, at, dur))

RenewTaskClaim ==
  \E t \in Tasks, w \in Workers, at \in Times, dur \in Durations :
    Writes(RenewClaim(queue, t, w, queue.tasks[t].epoch, at, dur))

TakeoverTask ==
  \E t \in Tasks, w \in Workers, at \in Times, dur \in Durations :
    Writes(Takeover(queue, t, w, queue.tasks[t].epoch, at, dur))

CommentTask ==
  \E t \in Tasks, w \in Workers :
    Writes(Comment(queue, t, w, queue.tasks[t].epoch))

CloseTask ==
  \E t \in Tasks, w \in Workers, withEpoch \in BOOLEAN :
    Writes(Close(queue, t, w, withEpoch, queue.tasks[t].epoch, NoRecipe))

\* With a retrospective proof: the owner's, checked on a branch that exists and
\* against the recipe the task still has.
CloseTaskWithProof ==
  \E t \in Tasks, w \in Workers, r \in EffectRefs :
    /\ refs[r] # NoObject
    /\ queue.tasks[t].proofRequired
    /\ Writes(Close(queue, t, w, TRUE, queue.tasks[t].epoch,
                    queue.tasks[t].laneRecipe))

ReopenTask == \E t \in Tasks : Writes(Reopen(queue, t))

ResumeTask ==
  \E t \in Tasks :
    Writes(Resume(queue, t, queue.tasks[t].status, queue.tasks[t].epoch))

ReleaseTask ==
  \E t \in Tasks, w \in Workers :
    Writes(Release(queue, t, w, queue.tasks[t].epoch))

RecordTaskFailure ==
  \E t \in Tasks, w \in Workers :
    Writes(RecordFailure(queue, t, w, queue.tasks[t].epoch))

SetIntent ==
  \E i \in Intents, rev \in 1..MaxRevision :
    Writes(SetIntentRevision(queue, i, rev, queue.intents[i]))

\* The expected value is whatever the effect ref held at some earlier time.
Prepare ==
  \E o \in Operations, t \in Tasks, w \in Workers, r \in EffectRefs,
     x \in Objects, y \in Objects \cup {NoObject}, i \in Intents,
     rev \in 1..MaxRevision :
    Writes(PrepareOperation(queue, o, t, w, queue.tasks[t].epoch, r, x, y, i,
                            rev))

-----------------------------------------------------------------------------
(* The commands that tie the queue to an effect ref. *)

\* One Git transaction moves the effect ref and the queue ref.
Apply ==
  \E o \in Operations, w \in Workers, at \in Times :
    LET operation == queue.operations[o]
        epoch == queue.tasks[operation.task].epoch
    IN /\ operation.status = "prepared"
       /\ queue.version < MaxVersion
       /\ refs[operation.ref] = operation.expected
       /\ queue' \in Commit(queue, ObserveOperation(queue, o, w, epoch, at))
       /\ refs' = [refs EXCEPT ![operation.ref] = operation.object]
       /\ UNCHANGED clock

\* The effect is already there: the ref is read back, not moved.
Complete ==
  \E o \in Operations, w \in Workers, at \in Times :
    LET operation == queue.operations[o]
        epoch == queue.tasks[operation.task].epoch
    IN /\ operation.status = "prepared"
       /\ refs[operation.ref] = operation.object
       /\ Writes(ObserveOperation(queue, o, w, epoch, at))

-----------------------------------------------------------------------------
(* The environment. *)

\* Anyone may move a branch with plain Git.
MoveRef ==
  /\ \E r \in EffectRefs, x \in Objects :
       /\ refs[r] # x
       /\ refs' = [refs EXCEPT ![r] = x]
  /\ UNCHANGED <<queue, clock>>

Tick ==
  /\ clock < MaxClock
  /\ clock' = clock + 1
  /\ UNCHANGED <<queue, refs>>

Next ==
  \/ AddTask \/ MarkTaskReady \/ EditTask
  \/ ClaimTask \/ ClaimReadyTask \/ RenewTaskClaim \/ TakeoverTask
  \/ CommentTask \/ CloseTask \/ CloseTaskWithProof
  \/ ReopenTask \/ ResumeTask \/ ReleaseTask \/ RecordTaskFailure
  \/ SetIntent \/ Prepare \/ Apply \/ Complete
  \/ MoveRef \/ Tick

Spec == Init /\ [][Next]_vars

-----------------------------------------------------------------------------
(* Invariants. *)

\* Every snapshot the commands write has the shape the next command expects.
TypeOK ==
  /\ queue \in State
  /\ refs \in [EffectRefs -> Objects \cup {NoObject}]
  /\ clock \in Nat

\* A task has a lease exactly while it is claimed, and then owner, lease and
\* generation name the same claim, whichever way it was claimed, handed over,
\* released, failed, closed or reopened.
ClaimsWellFormed == \A t \in Tasks : ClaimWellFormed(queue.tasks[t])

\* No sequence of commands reaches a queue that `krn task check' rejects: no
\* unknown dependency, no cycle, no lane task without a recipe or done
\* without the observed operation it names.
StoreChecks == NoTaskStoreErrors(queue)

\* An operation never outlives the generation that may run it: its epochs are
\* not ahead of the task's, and whoever shares the current generation with it
\* is the one who prepared it or the one a takeover handed it to.
OperationsFenced ==
  \A o \in Operations :
    LET operation == queue.operations[o]
        task == queue.tasks[operation.task]
    IN operation.status # "absent" =>
         /\ Exists(queue, operation.task)
         /\ operation.epoch <= task.epoch
         /\ operation.recovery.epoch <= task.epoch
         /\ (task.status = "claimed" /\ operation.epoch = task.epoch)
              => task.owner = operation.owner
         /\ (task.status = "claimed" /\ operation.recovery.epoch = task.epoch)
              => task.owner = operation.recovery.worker

-----------------------------------------------------------------------------
(* Action properties. *)

\* Generations only grow, and a task that gets an owner gets a new
\* generation, so (task, epoch) names one owner for ever.
GenerationsNameOneOwner ==
  [][\A t \in Tasks :
       /\ queue'.tasks[t].epoch >= queue.tasks[t].epoch
       /\ queue'.tasks[t].owner \notin {queue.tasks[t].owner, NoWorker}
            => queue'.tasks[t].epoch > queue.tasks[t].epoch]_vars

\* A claim whose lease is still running now is never handed to another
\* worker, however old the time the new worker judged it by.
LiveClaimsKept ==
  [][\A t \in Tasks :
       (/\ queue.tasks[t].status = "claimed"
        /\ ~LeaseExpired(queue.tasks[t].lease, clock)
        /\ queue'.tasks[t].status = "claimed")
         => /\ queue'.tasks[t].owner = queue.tasks[t].owner
            /\ queue'.tasks[t].epoch = queue.tasks[t].epoch]_vars

\* The operations that become observed in this step.
NewlyObserved ==
  {o \in Operations : /\ queue.operations[o].status = "prepared"
                      /\ queue'.operations[o].status = "observed"}

\* Once observed an operation never changes again, so its effect is applied at
\* most once; it becomes observed only with its effect on the ref, for the
\* current generation and intent; and KRN moves a ref only for one operation.
EffectsExactlyOnce ==
  [][/\ \A o \in Operations :
          queue.operations[o].status = "observed"
            => queue'.operations[o] = queue.operations[o]
     /\ \A o \in NewlyObserved :
          LET operation == queue.operations[o]
              task == queue.tasks[operation.task]
          IN /\ refs'[operation.ref] = operation.object
             /\ task.status = "claimed"
             /\ task.epoch \in {operation.epoch, operation.recovery.epoch}
             /\ queue.intents[operation.intent] = operation.revision
     /\ refs' # refs /\ queue' # queue =>
          \E o \in NewlyObserved :
            LET ref == queue.operations[o].ref IN
            /\ NewlyObserved = {o}
            /\ refs[ref] = queue.operations[o].expected
            /\ \A r \in EffectRefs \ {ref} : refs'[r] = refs[r]]_vars

\* A ready task is claimed when its dependencies are done.
ClaimUnblocked(t) ==
  queue.tasks[t].status = "ready" /\ queue'.tasks[t].status = "claimed"
    => DependenciesDone(queue', t)

\* A lane task stays one, and is done by observing one of its operations.
LaneProven(t) ==
  queue.tasks[t].lane =>
    /\ queue'.tasks[t].lane
    /\ (queue.tasks[t].status # "done" /\ queue'.tasks[t].status = "done")
         => \E o \in NewlyObserved : queue.operations[o].task = t

\* A parked task with an external gate stays parked until it is closed.
ExternalGateHolds(t) ==
  "external" \in queue.tasks[t].gates =>
    /\ "external" \in queue'.tasks[t].gates
    /\ queue.tasks[t].status \in {"blocked", "in-review", "deferred"}
         => queue'.tasks[t].status \in {queue.tasks[t].status, "done"}

\* A task that used its failures up is blocked until it is resumed or closed.
BudgetSpent(t) ==
  /\ queue'.tasks[t].attempts >= queue.tasks[t].attempts
  /\ (queue'.tasks[t].attempts > queue.tasks[t].attempts
        /\ queue'.tasks[t].attempts >= MaxAttempts)
       => queue'.tasks[t].status = "blocked"
  /\ queue.tasks[t].status = "blocked"
       => queue'.tasks[t].status \in {"blocked", "open", "done"}

\* No way round what stands before a status: a task admitted while blocked is
\* not claimed early although its dependencies are edited or reopened; no
\* close, edit, reopen or takeover makes a lane task done without its
\* operation; KRN never discharges a ci or tracker gate, also after failures
\* added another one; and a resume does not refill the failure budget.
StatusesEarned ==
  [][\A t \in Tasks : /\ ClaimUnblocked(t)
                      /\ LaneProven(t)
                      /\ ExternalGateHolds(t)
                      /\ BudgetSpent(t)]_vars
=============================================================================
