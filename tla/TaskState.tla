----------------------------- MODULE TaskState -----------------------------
(***************************************************************************)
(* The snapshot a Git-ref task queue stores under refs/krn/queue, and what *)
(* every command of scripts/lib/task/task-store.mjs writes into it.        *)
(*                                                                         *)
(* A command is the SET of snapshots it may write, given the one it read:  *)
(* empty when the command throws or has nothing to write, one snapshot     *)
(* otherwise.  TaskQueue runs the commands one at a time; TaskStore runs   *)
(* them the way the program does, as a read followed by a compare-and-swap.*)
(*                                                                         *)
(* Left out of a task: title, body, history, session and other text.  The  *)
(* version is written by the commit, not by the command.                   *)
(***************************************************************************)
EXTENDS Naturals, FiniteSets

CONSTANTS
  Tasks,        \* task ids, numbered in the order the program sorts them
  Workers,      \* worker names
  Operations,   \* operation ids
  EffectRefs,   \* Git refs an operation may move (never the queue's own refs)
  Objects,      \* candidate commits that exist and passed the recipe's check
  Intents,      \* intent names
  Recipes,      \* complete lane recipes
  Durations,    \* lease durations
  MaxAttempts,  \* failures after which a task is blocked
  NoWorker, NoObject, NoRecipe, NoOperation, NoRef, NoIntent

ASSUME ConstantsAssumption ==
  /\ Tasks \subseteq Nat \ {0}
  /\ Durations \subseteq Nat \ {0}
  /\ MaxAttempts \in Nat \ {0}
  /\ NoWorker \notin Workers
  /\ NoObject \notin Objects
  /\ NoRecipe \notin Recipes
  /\ NoOperation \notin Operations

-----------------------------------------------------------------------------
(* The shape of a snapshot. *)

\* The statuses of the ticket ABI and "open"; "absent" is an id not in use.
Statuses == {"absent", "open", "ready", "claimed", "blocked", "in-review",
             "done", "abandoned", "deferred"}

\* "external" is a ci or tracker gate, or a legacy gate text KRN cannot read.
Gates == {"human", "external", "retries-exhausted"}

Lease == [worker : Workers \cup {NoWorker}, epoch : Nat, renew : Nat,
          duration : Nat]

NoLease == [worker |-> NoWorker, epoch |-> 0, renew |-> 0, duration |-> 0]

Result == [operation : Operations \cup {NoOperation},
           object : Objects \cup {NoObject}]

NoResult == [operation |-> NoOperation, object |-> NoObject]

Task == [status : Statuses, epoch : Nat, owner : Workers \cup {NoWorker},
         lease : Lease, dependencies : SUBSET Tasks, lane : BOOLEAN,
         laneRecipe : Recipes \cup {NoRecipe}, proofRequired : BOOLEAN,
         gates : SUBSET Gates, attempts : Nat, comments : SUBSET Workers,
         result : Result]

\* What the queue knows of an id that is not in use, and the task add writes.
NoTask == [status |-> "absent", epoch |-> 0, owner |-> NoWorker,
           lease |-> NoLease, dependencies |-> {}, lane |-> FALSE,
           laneRecipe |-> NoRecipe, proofRequired |-> FALSE, gates |-> {},
           attempts |-> 0, comments |-> {}, result |-> NoResult]

Recovery == [worker : Workers \cup {NoWorker}, epoch : Nat]

NoRecovery == [worker |-> NoWorker, epoch |-> 0]

\* An operation the queue has recorded, and an id it knows nothing of.
RecordedOperation ==
  [status : {"prepared", "observed"}, task : Tasks, owner : Workers,
   epoch : Nat, ref : EffectRefs, object : Objects,
   expected : Objects \cup {NoObject}, intent : Intents, revision : Nat,
   recovery : Recovery]

AbsentOperation == [status |-> "absent", task |-> 0, owner |-> NoWorker,
                    epoch |-> 0, ref |-> NoRef, object |-> NoObject,
                    expected |-> NoObject, intent |-> NoIntent,
                    revision |-> 0, recovery |-> NoRecovery]

Operation == RecordedOperation \cup {AbsentOperation}

State == [version : Nat, tasks : [Tasks -> Task],
          operations : [Operations -> Operation], intents : [Intents -> Nat]]

\* No queue ref yet: readSnapshot returns version 0 and no oid.
EmptyState == [version |-> 0, tasks |-> [t \in Tasks |-> NoTask],
               operations |-> [o \in Operations |-> AbsentOperation],
               intents |-> [i \in Intents |-> 0]]

-----------------------------------------------------------------------------
(* Helpers of the commands. *)

Exists(s, t) == s.tasks[t].status # "absent"

\* A task has an owner and a lease exactly while it is claimed, and both name
\* its current generation.
ClaimWellFormed(task) ==
  IF task.status = "claimed"
  THEN /\ task.owner \in Workers
       /\ task.lease.worker = task.owner
       /\ task.lease.epoch = task.epoch
       /\ task.epoch >= 1
  ELSE task.owner = NoWorker /\ task.lease = NoLease

LeaseExpired(lease, at) == at >= lease.renew + lease.duration

DependenciesDone(s, t) ==
  \A d \in s.tasks[t].dependencies : s.tasks[d].status = "done"

\* Walking dependencies from t never ends: t lies in a set whose members all
\* have a dependency in the set.  (DependencyCycle checks this against the
\* depth-first search of the code.)
HasDependencyCycle(s, t) ==
  \E S \in SUBSET Tasks :
    /\ t \in S
    /\ \A u \in S : s.tasks[u].dependencies \cap S # {}

ReadyTasks(s) ==
  {t \in Tasks : s.tasks[t].status = "ready" /\ DependenciesDone(s, t)}

\* The caller names the current owner and generation of a claimed task.
HoldsClaim(s, t, worker, epoch) ==
  /\ s.tasks[t].status = "claimed"
  /\ s.tasks[t].owner = worker
  /\ s.tasks[t].epoch = epoch

WithTask(s, t, task) == [s EXCEPT !.tasks[t] = task]

\* Slip: a claim granted under the generation it already has.
Granted_SameEpoch(task, worker, at, duration) ==
  [task EXCEPT !.status = "claimed", !.owner = worker,
               !.lease = [worker |-> worker, epoch |-> task.epoch,
                          renew |-> at, duration |-> duration]]

\* A new generation of the claim, as claim, claimReady and takeover write it.
Granted(task, worker, at, duration) ==
  [task EXCEPT !.status = "claimed", !.epoch = task.epoch + 1,
               !.owner = worker,
               !.lease = [worker |-> worker, epoch |-> task.epoch + 1,
                          renew |-> at, duration |-> duration]]

\* The task leaves its owner with this status; its generation stays.
Ended(task, status) ==
  [task EXCEPT !.status = status, !.owner = NoWorker, !.lease = NoLease]

-----------------------------------------------------------------------------
(* The commands. *)

Add(s, t, dependencies, lane, laneRecipe) ==
  IF /\ lane => laneRecipe # NoRecipe
     /\ ~Exists(s, t)
     /\ \A d \in dependencies : Exists(s, d)
  THEN {WithTask(s, t, [NoTask EXCEPT !.status = "open",
                                      !.dependencies = dependencies,
                                      !.lane = lane,
                                      !.laneRecipe = laneRecipe])}
  ELSE {}

MarkReady(s, t, admitBlocked) ==
  IF /\ s.tasks[t].status = "open"
     /\ ~HasDependencyCycle(s, t)
     /\ admitBlocked \/ DependenciesDone(s, t)
  THEN {WithTask(s, t, [s.tasks[t] EXCEPT !.status = "ready"])}
  ELSE {}

\* Slip: dependencies are rewritten without looking for a cycle.
Edit_NoCycleCheck(s, t, dependencies, lane, laneRecipe, text) ==
  IF /\ s.tasks[t].status \in {"open", "ready"}
     /\ \A d \in dependencies : Exists(s, d)
  THEN {WithTask(s, t, [s.tasks[t] EXCEPT !.dependencies = dependencies])}
  ELSE {}

\* text: the patch also changes a title, body or other content field.
Edit(s, t, dependencies, lane, laneRecipe, text) ==
  LET task == s.tasks[t]
      edited == [task EXCEPT !.dependencies = dependencies,
                             !.lane = task.lane \/ lane,
                             !.laneRecipe = laneRecipe]
      next == WithTask(s, t, edited)
      demoted == task.status = "ready" /\ ~DependenciesDone(next, t)
  IN IF /\ task.status \in {"open", "ready"}
        /\ \A d \in dependencies : Exists(s, d)
        /\ text \/ edited # task
        /\ edited.lane => laneRecipe # NoRecipe
        /\ dependencies # task.dependencies => ~HasDependencyCycle(next, t)
     THEN {IF demoted THEN WithTask(s, t, [edited EXCEPT !.status = "open"])
                      ELSE next}
     ELSE {}

\* Slip: readiness alone admits a claim.
Claim_ReadyIsEnough(s, t, worker, at, duration) ==
  IF s.tasks[t].status = "ready"
  THEN {WithTask(s, t, Granted(s.tasks[t], worker, at, duration))}
  ELSE {}

Claim(s, t, worker, at, duration) ==
  IF /\ s.tasks[t].status = "ready"
     /\ DependenciesDone(s, t)
  THEN {WithTask(s, t, Granted(s.tasks[t], worker, at, duration))}
  ELSE {}

\* The unblocked ready task that sorts first.
ClaimReady(s, worker, at, duration) ==
  {WithTask(s, t, Granted(s.tasks[t], worker, at, duration)) :
     t \in {u \in ReadyTasks(s) : \A v \in ReadyTasks(s) : u <= v}}

RenewClaim(s, t, worker, epoch, at, duration) ==
  IF /\ HoldsClaim(s, t, worker, epoch)
     /\ s.tasks[t].lease.epoch = epoch
     /\ ~LeaseExpired(s.tasks[t].lease, at)
  THEN {WithTask(s, t, [s.tasks[t] EXCEPT
                          !.lease = [@ EXCEPT !.renew = at,
                                              !.duration = duration]])}
  ELSE {}

\* Slips: a takeover that does not wait for the lease, and one that leaves
\* operations with the recovery of an earlier takeover's generation plus one.
Takeover_NoExpiry(s, t, worker, expectedEpoch, at, duration) ==
  IF /\ s.tasks[t].status = "claimed"
     /\ s.tasks[t].epoch = expectedEpoch
  THEN {WithTask(s, t, Granted(s.tasks[t], worker, at, duration))}
  ELSE {}

Takeover_RecoversAhead(s, t, worker, expectedEpoch, at, duration) ==
  IF /\ s.tasks[t].status = "claimed"
     /\ s.tasks[t].epoch = expectedEpoch
     /\ LeaseExpired(s.tasks[t].lease, at)
  THEN {[WithTask(s, t, Granted(s.tasks[t], worker, at, duration)) EXCEPT
           !.operations = [o \in Operations |->
              IF s.operations[o].status = "prepared"
              THEN [s.operations[o] EXCEPT
                      !.recovery = [worker |-> worker,
                                    epoch |-> s.tasks[t].epoch + 2]]
              ELSE s.operations[o]]]}
  ELSE {}

\* Every operation of the task still prepared is handed to the new owner.
Takeover(s, t, worker, expectedEpoch, at, duration) ==
  LET task == Granted(s.tasks[t], worker, at, duration)
      recovered(o) ==
        IF s.operations[o].status = "prepared" /\ s.operations[o].task = t
        THEN [s.operations[o] EXCEPT !.recovery = [worker |-> worker,
                                                   epoch |-> task.epoch]]
        ELSE s.operations[o]
  IN IF /\ s.tasks[t].status = "claimed"
        /\ s.tasks[t].epoch = expectedEpoch
        /\ s.tasks[t].lease.epoch = expectedEpoch
        /\ LeaseExpired(s.tasks[t].lease, at)
     THEN {[WithTask(s, t, task) EXCEPT
              !.operations = [o \in Operations |-> recovered(o)]]}
     ELSE {}

Comment(s, t, worker, epoch) ==
  IF HoldsClaim(s, t, worker, epoch)
  THEN {WithTask(s, t, [s.tasks[t] EXCEPT !.comments = @ \cup {worker}])}
  ELSE {}

\* Slip: a lane task is closed like any other.
Close_LaneByHand(s, t, actor, withEpoch, epoch, verified) ==
  IF /\ s.tasks[t].status \notin {"absent", "done"}
     /\ s.tasks[t].proofRequired => verified # NoRecipe
     /\ IF withEpoch THEN HoldsClaim(s, t, actor, epoch)
                     ELSE s.tasks[t].status # "claimed"
  THEN {WithTask(s, t, [Ended(s.tasks[t], "done") EXCEPT !.result = NoResult])}
  ELSE {}

\* Close by a human or by the owner.  withEpoch: the caller gave a generation.
\* verified: the recipe the retrospective proof was checked against, or
\* NoRecipe when the caller gave no proof.
Close(s, t, actor, withEpoch, epoch, verified) ==
  IF /\ s.tasks[t].status \notin {"absent", "done"}
     /\ ~s.tasks[t].lane
     /\ IF s.tasks[t].proofRequired
        THEN verified # NoRecipe /\ verified = s.tasks[t].laneRecipe
        ELSE verified = NoRecipe
     /\ IF withEpoch THEN HoldsClaim(s, t, actor, epoch)
                     ELSE s.tasks[t].status # "claimed"
  THEN {WithTask(s, t, [Ended(s.tasks[t], "done") EXCEPT !.result = NoResult])}
  ELSE {}

Reopen(s, t) ==
  IF s.tasks[t].status \in {"done", "abandoned"}
  THEN {WithTask(s, t, Ended(s.tasks[t], "open"))}
  ELSE {}

Resume(s, t, expectedStatus, expectedEpoch) ==
  IF /\ expectedStatus \in {"deferred", "in-review", "blocked"}
     /\ s.tasks[t].status = expectedStatus
     /\ s.tasks[t].epoch = expectedEpoch
     /\ "external" \notin s.tasks[t].gates
  THEN {WithTask(s, t, Ended(s.tasks[t], "open"))}
  ELSE {}

Release(s, t, actor, epoch) ==
  IF HoldsClaim(s, t, actor, epoch)
  THEN {WithTask(s, t, Ended(s.tasks[t], "abandoned"))}
  ELSE {}

\* Slips: the last failure replaces the gates of the task, and one failure
\* too many is allowed.
RecordFailure_ReplacesGates(s, t, worker, epoch) ==
  IF HoldsClaim(s, t, worker, epoch)
  THEN {WithTask(s, t,
          IF s.tasks[t].attempts + 1 >= MaxAttempts
          THEN [Ended(s.tasks[t], "blocked") EXCEPT
                  !.attempts = @ + 1, !.gates = {"retries-exhausted"}]
          ELSE [s.tasks[t] EXCEPT !.attempts = @ + 1])}
  ELSE {}

RecordFailure_OneTooMany(s, t, worker, epoch) ==
  IF HoldsClaim(s, t, worker, epoch)
  THEN {WithTask(s, t,
          IF s.tasks[t].attempts >= MaxAttempts
          THEN [Ended(s.tasks[t], "blocked") EXCEPT
                  !.attempts = @ + 1, !.gates = @ \cup {"retries-exhausted"}]
          ELSE [s.tasks[t] EXCEPT !.attempts = @ + 1])}
  ELSE {}

\* A failure counts one more attempt; the last one allowed blocks the task,
\* whose other gates are kept beside retries-exhausted.
RecordFailure(s, t, worker, epoch) ==
  LET failed == [s.tasks[t] EXCEPT !.attempts = @ + 1]
      blocked == [Ended(failed, "blocked") EXCEPT
                    !.gates = @ \cup {"retries-exhausted"}]
  IN IF HoldsClaim(s, t, worker, epoch)
     THEN {WithTask(s, t, IF failed.attempts >= MaxAttempts THEN blocked
                                                            ELSE failed)}
     ELSE {}

SetIntentRevision(s, intent, revision, expectedRevision) ==
  IF /\ revision >= 1
     /\ expectedRevision = s.intents[intent]
     /\ revision > s.intents[intent]
  THEN {[s EXCEPT !.intents[intent] = revision]}
  ELSE {}

IntentCurrent(s, intent, revision) ==
  intent \in Intents /\ revision >= 1 /\ s.intents[intent] = revision

\* expected is the value the effect ref had when the operation was prepared.
PrepareOperation(s, o, t, owner, epoch, ref, object, expected, intent, rev) ==
  IF /\ s.operations[o].status = "absent"
     /\ HoldsClaim(s, t, owner, epoch)
     /\ IntentCurrent(s, intent, rev)
  THEN {[s EXCEPT !.operations[o] =
           [status |-> "prepared", task |-> t, owner |-> owner,
            epoch |-> epoch, ref |-> ref, object |-> object,
            expected |-> expected, intent |-> intent, revision |-> rev,
            recovery |-> NoRecovery]]}
  ELSE {}

\* Slip: the revision of the intent is not looked at again.
OperationAuthorized_AnyRevision(s, o, worker, epoch, at) ==
  LET operation == s.operations[o] IN
  /\ operation.status = "prepared"
  /\ HoldsClaim(s, operation.task, worker, epoch)
  /\ ~LeaseExpired(s.tasks[operation.task].lease, at)
  /\ \/ worker = operation.owner /\ epoch = operation.epoch
     \/ operation.recovery = [worker |-> worker, epoch |-> epoch]

\* The caller is the operation's owner, or the one a takeover handed it to,
\* and that generation still holds the claim under a live lease.
OperationAuthorized(s, o, worker, epoch, at) ==
  LET operation == s.operations[o]
      task == s.tasks[operation.task]
  IN /\ operation.status = "prepared"
     /\ HoldsClaim(s, operation.task, worker, epoch)
     /\ task.lease.worker = worker
     /\ task.lease.epoch = epoch
     /\ ~LeaseExpired(task.lease, at)
     /\ \/ worker = operation.owner /\ epoch = operation.epoch
        \/ operation.recovery = [worker |-> worker, epoch |-> epoch]
     /\ IntentCurrent(s, operation.intent, operation.revision)

\* What applyOperation and completeOperation write: the operation observed
\* and its task done, in one snapshot.
Observed(s, o) ==
  LET operation == s.operations[o]
      t == operation.task
      done == [Ended(s.tasks[t], "done") EXCEPT
                 !.result = [operation |-> o, object |-> operation.object]]
  IN [WithTask(s, t, done) EXCEPT
        !.operations[o] = [operation EXCEPT !.status = "observed"]]

ObserveOperation(s, o, worker, epoch, at) ==
  IF OperationAuthorized(s, o, worker, epoch, at) THEN {Observed(s, o)} ELSE {}

-----------------------------------------------------------------------------
(* What `krn task check` accepts. *)

\* taskStoreErrors(s) is empty.
NoTaskStoreErrors(s) ==
  \A t \in Tasks : Exists(s, t) =>
    LET task == s.tasks[t] IN
    /\ task.lane => task.laneRecipe # NoRecipe
    /\ (task.lane /\ task.status = "done" /\ ~task.proofRequired) =>
         /\ task.result.operation \in Operations
         /\ s.operations[task.result.operation].task = t
         /\ s.operations[task.result.operation].status = "observed"
         /\ s.operations[task.result.operation].object = task.result.object
    /\ \A d \in task.dependencies : Exists(s, d)
    /\ ~HasDependencyCycle(s, t)

\* importedState refuses a candidate with task-store errors, and an imported
\* task has a lease exactly when its ticket was claimed, with the owner and
\* generation its Claim field and claim lock agree on.
Importable(s) ==
  /\ s \in State
  /\ s.version = 1
  /\ s.operations = EmptyState.operations
  /\ s.intents = EmptyState.intents
  /\ NoTaskStoreErrors(s)
  /\ \A t \in Tasks : /\ ClaimWellFormed(s.tasks[t])
                      /\ ~Exists(s, t) => s.tasks[t] = NoTask
                      /\ s.tasks[t].result = NoResult
=============================================================================
