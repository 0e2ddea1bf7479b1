-------------------------- MODULE TaskStateProofs --------------------------
(***************************************************************************)
(* What each command of the task store does to a snapshot, for any tasks,  *)
(* workers, operations, refs and recipes.  TaskQueueProofs and             *)
(* TaskStoreProofs rest on these lemmas.                                   *)
(***************************************************************************)
EXTENDS TaskState, TLAPS

-----------------------------------------------------------------------------
(* The commands keep the shape of a snapshot. *)

USE DEF NoLease, NoResult, NoRecovery

\* Rewriting one task keeps the shape of the snapshot.
LEMMA WithTaskType ==
  ASSUME NEW s \in State, NEW t \in Tasks, NEW r \in Task
  PROVE  WithTask(s, t, r) \in State
BY DEF WithTask, State

\* So does a new generation of a claim ...
LEMMA GrantedType ==
  ASSUME NEW r \in Task, NEW w \in Workers, NEW at \in Nat,
         NEW dur \in Durations
  PROVE  Granted(r, w, at, dur) \in Task
<1>1. dur \in Nat  BY ConstantsAssumption
<1>2. r.epoch + 1 \in Nat  BY DEF Task
<1>3. [worker |-> w, epoch |-> r.epoch + 1, renew |-> at, duration |-> dur]
        \in Lease
  BY <1>1, <1>2 DEF Lease
<1> QED  BY <1>2, <1>3 DEF Granted, Task, Statuses

\* ... and the end of one.
LEMMA EndedType ==
  ASSUME NEW r \in Task, NEW st \in Statuses
  PROVE  Ended(r, st) \in Task
BY DEF Ended, Task, Lease

\* What every command that writes one task has in common.
LEMMA TaskOf ==
  ASSUME NEW s \in State, NEW t \in Tasks
  PROVE  s.tasks[t] \in Task
BY DEF State

LEMMA AddType ==
  ASSUME NEW s \in State, NEW t \in Tasks, NEW d \in SUBSET Tasks,
         NEW lane \in BOOLEAN, NEW r \in Recipes \cup {NoRecipe}
  PROVE  Add(s, t, d, lane, r) \subseteq State
<1> DEFINE task == [NoTask EXCEPT !.status = "open", !.dependencies = d,
                                  !.lane = lane, !.laneRecipe = r]
<1>1. task \in Task  BY DEF NoTask, Task, Lease, Result, Statuses
<1>2. WithTask(s, t, task) \in State  BY <1>1, WithTaskType
<1> QED  BY <1>2 DEF Add

LEMMA MarkReadyType ==
  ASSUME NEW s \in State, NEW t \in Tasks, NEW b \in BOOLEAN
  PROVE  MarkReady(s, t, b) \subseteq State
<1>1. [s.tasks[t] EXCEPT !.status = "ready"] \in Task
  BY TaskOf DEF Task, Statuses
<1>2. WithTask(s, t, [s.tasks[t] EXCEPT !.status = "ready"]) \in State
  BY <1>1, WithTaskType
<1> QED  BY <1>2 DEF MarkReady

LEMMA EditType ==
  ASSUME NEW s \in State, NEW t \in Tasks, NEW d \in SUBSET Tasks,
         NEW lane \in BOOLEAN, NEW r \in Recipes \cup {NoRecipe},
         NEW text \in BOOLEAN
  PROVE  Edit(s, t, d, lane, r, text) \subseteq State
<1> DEFINE task == s.tasks[t]
           edited == [task EXCEPT !.dependencies = d,
                                  !.lane = task.lane \/ lane,
                                  !.laneRecipe = r]
           demoted == [edited EXCEPT !.status = "open"]
<1>1. task \in Task  BY TaskOf
<1>2. (task.lane \/ lane) \in BOOLEAN  OBVIOUS
<1>3. edited \in Task  BY <1>1, <1>2 DEF Task
<1>4. demoted \in Task  BY <1>3 DEF Task, Statuses
<1>5. WithTask(s, t, edited) \in State /\ WithTask(s, t, demoted) \in State
  BY <1>3, <1>4, WithTaskType
<1> QED  BY <1>5 DEF Edit

LEMMA ClaimType ==
  ASSUME NEW s \in State, NEW t \in Tasks, NEW w \in Workers, NEW at \in Nat,
         NEW dur \in Durations
  PROVE  Claim(s, t, w, at, dur) \subseteq State
<1>1. WithTask(s, t, Granted(s.tasks[t], w, at, dur)) \in State
  BY TaskOf, GrantedType, WithTaskType
<1> QED  BY <1>1 DEF Claim

LEMMA ClaimReadyType ==
  ASSUME NEW s \in State, NEW w \in Workers, NEW at \in Nat,
         NEW dur \in Durations
  PROVE  ClaimReady(s, w, at, dur) \subseteq State
<1>1. \A t \in Tasks : WithTask(s, t, Granted(s.tasks[t], w, at, dur)) \in State
  BY TaskOf, GrantedType, WithTaskType
<1> QED  BY <1>1 DEF ClaimReady, ReadyTasks

LEMMA RenewClaimType ==
  ASSUME NEW s \in State, NEW t \in Tasks, NEW w \in Workers, NEW e \in Nat,
         NEW at \in Nat, NEW dur \in Durations
  PROVE  RenewClaim(s, t, w, e, at, dur) \subseteq State
<1> DEFINE lease == [s.tasks[t].lease EXCEPT !.renew = at, !.duration = dur]
           renewed == [s.tasks[t] EXCEPT !.lease = lease]
<1>1. dur \in Nat  BY ConstantsAssumption
<1>2. lease \in Lease
  <2>1. s.tasks[t].lease \in Lease  BY TaskOf DEF Task
  <2> QED  BY <1>1, <2>1 DEF Lease
<1>3. renewed \in Task  BY <1>2, TaskOf DEF Task
<1>4. WithTask(s, t, renewed) \in State  BY <1>3, WithTaskType
<1> QED  BY <1>4 DEF RenewClaim

LEMMA TakeoverType ==
  ASSUME NEW s \in State, NEW t \in Tasks, NEW w \in Workers, NEW e \in Nat,
         NEW at \in Nat, NEW dur \in Durations
  PROVE  Takeover(s, t, w, e, at, dur) \subseteq State
<1> DEFINE task == Granted(s.tasks[t], w, at, dur)
           recovered(o) ==
             IF s.operations[o].status = "prepared" /\ s.operations[o].task = t
             THEN [s.operations[o] EXCEPT !.recovery = [worker |-> w,
                                                        epoch |-> task.epoch]]
             ELSE s.operations[o]
           next == [WithTask(s, t, task) EXCEPT
                      !.operations = [o \in Operations |-> recovered(o)]]
<1>1. task \in Task  BY TaskOf, GrantedType
<1>2. WithTask(s, t, task) \in State  BY <1>1, WithTaskType
<1>3. [worker |-> w, epoch |-> task.epoch] \in Recovery
  BY <1>1 DEF Recovery, Task
<1>4. \A o \in Operations : recovered(o) \in Operation
  <2> SUFFICES ASSUME NEW o \in Operations  PROVE recovered(o) \in Operation
    OBVIOUS
  <2>1. s.operations[o] \in Operation  BY DEF State
  <2>2. CASE s.operations[o].status = "prepared"
    <3>1. s.operations[o] \in RecordedOperation
      BY <2>1, <2>2 DEF Operation, AbsentOperation
    <3>2. [s.operations[o] EXCEPT !.recovery = [worker |-> w,
                                                epoch |-> task.epoch]]
            \in RecordedOperation
      BY <3>1, <1>3 DEF RecordedOperation
    <3> QED  BY <2>1, <3>2 DEF Operation
  <2>3. CASE s.operations[o].status # "prepared"
    BY <2>1, <2>3
  <2> QED  BY <2>2, <2>3
<1>5. next \in State  BY <1>2, <1>4 DEF State
<1> QED  BY <1>5 DEF Takeover

LEMMA CommentType ==
  ASSUME NEW s \in State, NEW t \in Tasks, NEW w \in Workers, NEW e \in Nat
  PROVE  Comment(s, t, w, e) \subseteq State
<1> DEFINE commented == [s.tasks[t] EXCEPT !.comments = @ \cup {w}]
<1>1. commented \in Task  BY TaskOf DEF Task
<1>2. WithTask(s, t, commented) \in State  BY <1>1, WithTaskType
<1> QED  BY <1>2 DEF Comment

LEMMA CloseType ==
  ASSUME NEW s \in State, NEW t \in Tasks, NEW w \in Workers,
         NEW b \in BOOLEAN, NEW e \in Nat, NEW r \in Recipes \cup {NoRecipe}
  PROVE  Close(s, t, w, b, e, r) \subseteq State
<1> DEFINE closed == [Ended(s.tasks[t], "done") EXCEPT !.result = NoResult]
<1>1. Ended(s.tasks[t], "done") \in Task
  BY TaskOf, EndedType DEF Statuses
<1>2. closed \in Task  BY <1>1 DEF Task, Result
<1>3. WithTask(s, t, closed) \in State  BY <1>2, WithTaskType
<1> QED  BY <1>3 DEF Close

LEMMA ReopenType ==
  ASSUME NEW s \in State, NEW t \in Tasks
  PROVE  Reopen(s, t) \subseteq State
<1>1. WithTask(s, t, Ended(s.tasks[t], "open")) \in State
  BY TaskOf, EndedType, WithTaskType DEF Statuses
<1> QED  BY <1>1 DEF Reopen

LEMMA ResumeType ==
  ASSUME NEW s \in State, NEW t \in Tasks, NEW st, NEW e \in Nat
  PROVE  Resume(s, t, st, e) \subseteq State
<1>1. WithTask(s, t, Ended(s.tasks[t], "open")) \in State
  BY TaskOf, EndedType, WithTaskType DEF Statuses
<1> QED  BY <1>1 DEF Resume

LEMMA ReleaseType ==
  ASSUME NEW s \in State, NEW t \in Tasks, NEW w \in Workers, NEW e \in Nat
  PROVE  Release(s, t, w, e) \subseteq State
<1>1. WithTask(s, t, Ended(s.tasks[t], "abandoned")) \in State
  BY TaskOf, EndedType, WithTaskType DEF Statuses
<1> QED  BY <1>1 DEF Release

LEMMA RecordFailureType ==
  ASSUME NEW s \in State, NEW t \in Tasks, NEW w \in Workers, NEW e \in Nat
  PROVE  RecordFailure(s, t, w, e) \subseteq State
<1> DEFINE failed == [s.tasks[t] EXCEPT !.attempts = @ + 1]
           blocked == [Ended(failed, "blocked") EXCEPT
                         !.gates = @ \cup {"retries-exhausted"}]
<1>1. failed \in Task  BY TaskOf DEF Task
<1>2. Ended(failed, "blocked") \in Task  BY <1>1, EndedType DEF Statuses
<1>3. blocked \in Task  BY <1>2 DEF Task, Gates
<1>4. WithTask(s, t, failed) \in State /\ WithTask(s, t, blocked) \in State
  BY <1>1, <1>3, WithTaskType
<1> QED  BY <1>4 DEF RecordFailure

LEMMA SetIntentRevisionType ==
  ASSUME NEW s \in State, NEW i \in Intents, NEW rev \in Nat, NEW e \in Nat
  PROVE  SetIntentRevision(s, i, rev, e) \subseteq State
<1>1. [s EXCEPT !.intents[i] = rev] \in State  BY DEF State
<1> QED  BY <1>1 DEF SetIntentRevision

LEMMA PrepareOperationType ==
  ASSUME NEW s \in State, NEW o \in Operations, NEW t \in Tasks,
         NEW w \in Workers, NEW e \in Nat, NEW r \in EffectRefs,
         NEW x \in Objects, NEW y \in Objects \cup {NoObject},
         NEW i \in Intents, NEW rev \in Nat
  PROVE  PrepareOperation(s, o, t, w, e, r, x, y, i, rev) \subseteq State
<1> DEFINE operation ==
             [status |-> "prepared", task |-> t, owner |-> w, epoch |-> e,
              ref |-> r, object |-> x, expected |-> y, intent |-> i,
              revision |-> rev, recovery |-> NoRecovery]
<1>1. operation \in Operation
  BY DEF Operation, RecordedOperation, Recovery
<1>2. [s EXCEPT !.operations[o] = operation] \in State  BY <1>1 DEF State
<1> QED  BY <1>2 DEF PrepareOperation

\* What the commands that observe an operation write for a recorded one.
LEMMA ObservedType ==
  ASSUME NEW s \in State, NEW o \in Operations,
         s.operations[o] \in RecordedOperation
  PROVE  Observed(s, o) \in State
<1> DEFINE op == s.operations[o]
           t == op.task
           ended == Ended(s.tasks[t], "done")
           result == [operation |-> o, object |-> op.object]
           task == [ended EXCEPT !.result = result]
           next == WithTask(s, t, task)
           observed == [op EXCEPT !.status = "observed"]
<1>1. t \in Tasks /\ result \in Result
  BY DEF RecordedOperation, Result
<1>2. ended \in Task  BY <1>1, TaskOf, EndedType DEF Statuses
<1>3. observed \in Operation
  BY DEF Operation, RecordedOperation
<1>4. Observed(s, o) = [next EXCEPT !.operations[o] = observed]
  BY DEF Observed
<1> HIDE DEF ended, result
<1>5. task \in Task  BY <1>1, <1>2 DEF Task
<1> HIDE DEF task, t
<1>6. next \in State  BY <1>1, <1>5, WithTaskType
<1> HIDE DEF next, observed
<1>7. [next EXCEPT !.operations[o] = observed] \in State
  BY <1>3, <1>6 DEF State
<1> QED  BY <1>4, <1>7

LEMMA PreparedIsRecorded ==
  ASSUME NEW s \in State, NEW o \in Operations,
         s.operations[o].status # "absent"
  PROVE  s.operations[o] \in RecordedOperation
BY DEF State, Operation, AbsentOperation

LEMMA ObserveOperationType ==
  ASSUME NEW s \in State, NEW o \in Operations, NEW w, NEW e, NEW at
  PROVE  ObserveOperation(s, o, w, e, at) \subseteq State
<1>1. CASE OperationAuthorized(s, o, w, e, at)
  <2>1. s.operations[o].status = "prepared"
    BY <1>1 DEF OperationAuthorized
  <2>2. Observed(s, o) \in State
    BY <2>1, PreparedIsRecorded, ObservedType
  <2> QED  BY <1>1, <2>2 DEF ObserveOperation
<1>2. CASE ~OperationAuthorized(s, o, w, e, at)
  BY <1>2 DEF ObserveOperation
<1> QED  BY <1>1, <1>2

-----------------------------------------------------------------------------
(***************************************************************************)
(* Claims.  A command that touches a task takes it through a claim step:   *)
(* it stays well formed, its generation does not shrink, a new owner means *)
(* a new generation, and a running lease keeps its owner.                  *)
(***************************************************************************)

\* What one command may do to the claim of one task, judged at time now.
ClaimStep(a, b, now) ==
  /\ ClaimWellFormed(b)
  /\ b.status = "absent" => b = a
  /\ b.epoch >= a.epoch
  /\ b.owner \notin {a.owner, NoWorker} => b.epoch > a.epoch
  /\ (/\ a.status = "claimed"
      /\ ~LeaseExpired(a.lease, now)
      /\ b.status = "claimed")
       => b.owner = a.owner /\ b.epoch = a.epoch

ClaimSteps(s, n, now) ==
  \A u \in Tasks : ClaimStep(s.tasks[u], n.tasks[u], now)

WellFormed(s) == \A u \in Tasks : ClaimWellFormed(s.tasks[u])

-----------------------------------------------------------------------------
(* Steps of one task. *)

\* A field outside the claim changes, or nothing does.
LEMMA SameClaimStep ==
  ASSUME NEW a \in Task, ClaimWellFormed(a), NEW b \in Task, NEW now \in Nat,
         b.owner = a.owner, b.epoch = a.epoch, b.lease = a.lease,
         b.status = "claimed" <=> a.status = "claimed",
         b.status = "absent" => b = a
  PROVE  ClaimStep(a, b, now)
<1>1. a.epoch \in Nat  BY DEF Task
<1>2. b.epoch >= a.epoch  BY <1>1
<1>3. ClaimWellFormed(b)  BY DEF ClaimWellFormed
<1> QED  BY <1>2, <1>3 DEF ClaimStep

\* A claim ends.
LEMMA EndedStep ==
  ASSUME NEW a \in Task, ClaimWellFormed(a), NEW now \in Nat,
         NEW st \in Statuses \ {"claimed", "absent"}
  PROVE  ClaimStep(a, Ended(a, st), now)
BY DEF ClaimStep, ClaimWellFormed, Task, Ended

\* A claim is granted to a task without one, or after its lease has expired.
LEMMA GrantedStep ==
  ASSUME NEW a \in Task, ClaimWellFormed(a), NEW now \in Nat,
         NEW w \in Workers, NEW at \in 0..now, NEW dur \in Durations,
         a.status = "claimed" => LeaseExpired(a.lease, at)
  PROVE  ClaimStep(a, Granted(a, w, at, dur), now)
<1> DEFINE b == Granted(a, w, at, dur)
<1>1. b.status = "claimed" /\ b.epoch = a.epoch + 1 /\ b.owner = w
        /\ b.lease.worker = w /\ b.lease.epoch = a.epoch + 1
  BY DEF Granted, Task
<1>2. a.epoch \in Nat /\ a.lease \in Lease  BY DEF Task
<1>3. a.status = "claimed" => LeaseExpired(a.lease, now)
  BY <1>2 DEF LeaseExpired, Lease
<1>4. ClaimWellFormed(b)  BY <1>1, <1>2 DEF ClaimWellFormed
<1> QED  BY <1>1, <1>2, <1>3, <1>4 DEF ClaimStep

\* Steps of one task are steps of the snapshot.
LEMMA WithTaskSteps ==
  ASSUME NEW s \in State, WellFormed(s), NEW t \in Tasks, NEW b \in Task,
         NEW now \in Nat, ClaimStep(s.tasks[t], b, now)
  PROVE  ClaimSteps(s, WithTask(s, t, b), now)
<1> SUFFICES ASSUME NEW u \in Tasks
             PROVE  ClaimStep(s.tasks[u], WithTask(s, t, b).tasks[u], now)
  BY DEF ClaimSteps
<1>1. CASE u = t  BY <1>1 DEF WithTask, State
<1>2. CASE u # t
  <2>1. WithTask(s, t, b).tasks[u] = s.tasks[u]
    BY <1>2 DEF WithTask, State
  <2> QED  BY <2>1, TaskOf, SameClaimStep DEF WellFormed
<1> QED  BY <1>1, <1>2

-----------------------------------------------------------------------------
(* Steps of the commands. *)

LEMMA AddSteps ==
  ASSUME NEW s \in State, WellFormed(s), NEW t \in Tasks,
         NEW d \in SUBSET Tasks, NEW lane \in BOOLEAN,
         NEW r \in Recipes \cup {NoRecipe}, NEW now \in Nat,
         ~Exists(s, t) => s.tasks[t] = NoTask,
         NEW n \in Add(s, t, d, lane, r)
  PROVE  ClaimSteps(s, n, now)
<1> DEFINE b == [NoTask EXCEPT !.status = "open", !.dependencies = d,
                               !.lane = lane, !.laneRecipe = r]
<1>1. n = WithTask(s, t, b) /\ s.tasks[t] = NoTask  BY DEF Add
<1>2. b \in Task /\ NoTask \in Task
  BY DEF NoTask, NoLease, NoResult, Task, Lease, Result, Statuses
<1>3. b.status = "open" /\ b.owner = NoWorker /\ b.lease = NoLease
        /\ b.epoch = 0
  BY DEF NoTask
<1>4. NoTask.status = "absent" /\ NoTask.owner = NoWorker
        /\ NoTask.epoch = 0
  BY DEF NoTask
<1>5. ClaimWellFormed(b)  BY <1>3 DEF ClaimWellFormed
<1>6. ClaimStep(NoTask, b, now)  BY <1>3, <1>4, <1>5 DEF ClaimStep
<1> QED  BY <1>1, <1>2, <1>6, WithTaskSteps

LEMMA MarkReadySteps ==
  ASSUME NEW s \in State, WellFormed(s), NEW t \in Tasks, NEW b \in BOOLEAN,
         NEW now \in Nat, NEW n \in MarkReady(s, t, b)
  PROVE  ClaimSteps(s, n, now)
<1> DEFINE a == s.tasks[t]
           r == [a EXCEPT !.status = "ready"]
<1>1. n = WithTask(s, t, r) /\ a.status = "open"  BY DEF MarkReady
<1>2. a \in Task /\ ClaimWellFormed(a)  BY TaskOf DEF WellFormed
<1>3. r \in Task  BY <1>2 DEF Task, Statuses
<1>4. r.owner = a.owner /\ r.epoch = a.epoch /\ r.lease = a.lease
        /\ r.status = "ready"
  BY <1>2 DEF Task
<1>5. ClaimStep(a, r, now)  BY <1>1, <1>2, <1>3, <1>4, SameClaimStep
<1> QED  BY <1>1, <1>3, <1>5, WithTaskSteps

LEMMA EditSteps ==
  ASSUME NEW s \in State, WellFormed(s), NEW t \in Tasks,
         NEW d \in SUBSET Tasks, NEW lane \in BOOLEAN,
         NEW r \in Recipes \cup {NoRecipe}, NEW text \in BOOLEAN,
         NEW now \in Nat, NEW n \in Edit(s, t, d, lane, r, text)
  PROVE  ClaimSteps(s, n, now)
<1> DEFINE a == s.tasks[t]
           b == [a EXCEPT !.dependencies = d, !.lane = a.lane \/ lane,
                          !.laneRecipe = r]
           c == [b EXCEPT !.status = "open"]
<1>1. n \in {WithTask(s, t, b), WithTask(s, t, c)}
  BY DEF Edit
<1>2. a.status \in {"open", "ready"}  BY DEF Edit
<1>3. a \in Task /\ ClaimWellFormed(a)  BY TaskOf DEF WellFormed
<1>4. (a.lane \/ lane) \in BOOLEAN  OBVIOUS
<1>5. b \in Task  BY <1>3, <1>4 DEF Task
<1>6. c \in Task  BY <1>5 DEF Task, Statuses
<1>7. b.owner = a.owner /\ b.epoch = a.epoch /\ b.lease = a.lease
        /\ b.status = a.status
  BY <1>3 DEF Task
<1>8. c.owner = a.owner /\ c.epoch = a.epoch /\ c.lease = a.lease
        /\ c.status = "open"
  BY <1>5, <1>7 DEF Task
<1>9. ClaimStep(a, b, now)  BY <1>2, <1>3, <1>5, <1>7, SameClaimStep
<1>10. ClaimStep(a, c, now)  BY <1>2, <1>3, <1>6, <1>8, SameClaimStep
<1> QED  BY <1>1, <1>5, <1>6, <1>9, <1>10, WithTaskSteps

LEMMA ClaimSucceeds ==
  ASSUME NEW s \in State, WellFormed(s), NEW t \in Tasks, NEW w \in Workers,
         NEW now \in Nat, NEW at \in 0..now, NEW dur \in Durations,
         NEW n \in Claim(s, t, w, at, dur)
  PROVE  ClaimSteps(s, n, now)
<1> DEFINE b == Granted(s.tasks[t], w, at, dur)
<1>1. n = WithTask(s, t, b) /\ s.tasks[t].status = "ready"  BY DEF Claim
<1>2. s.tasks[t] \in Task /\ ClaimWellFormed(s.tasks[t])
  BY TaskOf DEF WellFormed
<1>3. at \in Nat /\ b \in Task  BY <1>2, GrantedType
<1>4. ClaimStep(s.tasks[t], b, now)  BY <1>1, <1>2, GrantedStep
<1> QED  BY <1>1, <1>3, <1>4, WithTaskSteps

LEMMA ClaimReadySteps ==
  ASSUME NEW s \in State, WellFormed(s), NEW w \in Workers,
         NEW now \in Nat, NEW at \in 0..now, NEW dur \in Durations,
         NEW n \in ClaimReady(s, w, at, dur)
  PROVE  ClaimSteps(s, n, now)
<1>1. PICK t \in Tasks : /\ s.tasks[t].status = "ready"
                         /\ n = WithTask(s, t,
                                         Granted(s.tasks[t], w, at, dur))
  BY DEF ClaimReady, ReadyTasks
<1> DEFINE b == Granted(s.tasks[t], w, at, dur)
<1>2. s.tasks[t] \in Task /\ ClaimWellFormed(s.tasks[t])
  BY TaskOf DEF WellFormed
<1>3. at \in Nat /\ b \in Task  BY <1>2, GrantedType
<1>4. ClaimStep(s.tasks[t], b, now)  BY <1>1, <1>2, GrantedStep
<1> QED  BY <1>1, <1>3, <1>4, WithTaskSteps

LEMMA RenewClaimSteps ==
  ASSUME NEW s \in State, WellFormed(s), NEW t \in Tasks, NEW w \in Workers,
         NEW e \in Nat, NEW now \in Nat, NEW at \in 0..now,
         NEW dur \in Durations, NEW n \in RenewClaim(s, t, w, e, at, dur)
  PROVE  ClaimSteps(s, n, now)
<1> DEFINE a == s.tasks[t]
           lease == [a.lease EXCEPT !.renew = at, !.duration = dur]
           b == [a EXCEPT !.lease = lease]
<1>1. n = WithTask(s, t, b) /\ a.status = "claimed"
  BY DEF RenewClaim, HoldsClaim
<1>2. a \in Task /\ ClaimWellFormed(a)  BY TaskOf DEF WellFormed
<1>3. a.lease \in Lease /\ at \in Nat /\ dur \in Nat /\ a.epoch \in Nat
  BY <1>2, ConstantsAssumption DEF Task
<1>4. lease \in Lease /\ lease.worker = a.lease.worker
        /\ lease.epoch = a.lease.epoch
  BY <1>3 DEF Lease
<1> HIDE DEF lease
<1>5. b \in Task /\ b.owner = a.owner /\ b.epoch = a.epoch
        /\ b.status = a.status /\ b.lease = lease
  BY <1>2, <1>4 DEF Task
<1> USE DEF lease
<1>6. ClaimWellFormed(b)  BY <1>1, <1>2, <1>4, <1>5 DEF ClaimWellFormed
<1>7. b.epoch >= a.epoch  BY <1>3, <1>5
<1>8. ClaimStep(a, b, now)  BY <1>1, <1>5, <1>6, <1>7 DEF ClaimStep
<1> QED  BY <1>1, <1>5, <1>8, WithTaskSteps

\* The operations a takeover hands over are not part of the claim.
LEMMA TakeoverSteps ==
  ASSUME NEW s \in State, WellFormed(s), NEW t \in Tasks, NEW w \in Workers,
         NEW e \in Nat, NEW now \in Nat, NEW at \in 0..now,
         NEW dur \in Durations, NEW n \in Takeover(s, t, w, e, at, dur)
  PROVE  ClaimSteps(s, n, now)
<1> DEFINE b == Granted(s.tasks[t], w, at, dur)
           m == WithTask(s, t, b)
<1>1. n.tasks = m.tasks /\ LeaseExpired(s.tasks[t].lease, at)
  BY DEF Takeover, WithTask, State
<1>2. s.tasks[t] \in Task /\ ClaimWellFormed(s.tasks[t])
  BY TaskOf DEF WellFormed
<1>3. at \in Nat /\ b \in Task  BY <1>2, GrantedType
<1>4. ClaimStep(s.tasks[t], b, now)  BY <1>1, <1>2, GrantedStep
<1>5. ClaimSteps(s, m, now)  BY <1>3, <1>4, WithTaskSteps
<1> QED  BY <1>1, <1>5 DEF ClaimSteps

LEMMA CommentSteps ==
  ASSUME NEW s \in State, WellFormed(s), NEW t \in Tasks, NEW w \in Workers,
         NEW e \in Nat, NEW now \in Nat, NEW n \in Comment(s, t, w, e)
  PROVE  ClaimSteps(s, n, now)
<1> DEFINE a == s.tasks[t]
           b == [a EXCEPT !.comments = @ \cup {w}]
<1>1. n = WithTask(s, t, b) /\ a.status = "claimed"
  BY DEF Comment, HoldsClaim
<1>2. a \in Task /\ ClaimWellFormed(a)  BY TaskOf DEF WellFormed
<1>3. b \in Task /\ b.owner = a.owner /\ b.epoch = a.epoch
        /\ b.lease = a.lease /\ b.status = a.status
  BY <1>2 DEF Task
<1>4. ClaimStep(a, b, now)  BY <1>1, <1>2, <1>3, SameClaimStep
<1> QED  BY <1>1, <1>3, <1>4, WithTaskSteps

\* A task that ends its claim and changes fields outside the claim.
LEMMA EndedSteps ==
  ASSUME NEW s \in State, WellFormed(s), NEW t \in Tasks, NEW now \in Nat,
         NEW st \in Statuses \ {"claimed", "absent"}, NEW b \in Task,
         b.status = st, b.owner = NoWorker, b.lease = NoLease,
         b.epoch = s.tasks[t].epoch
  PROVE  ClaimSteps(s, WithTask(s, t, b), now)
<1>1. s.tasks[t] \in Task /\ s.tasks[t].epoch \in Nat
  BY TaskOf DEF Task
<1>2. ClaimWellFormed(b)  BY DEF ClaimWellFormed
<1>3. ClaimStep(s.tasks[t], b, now)  BY <1>1, <1>2 DEF ClaimStep
<1> QED  BY <1>3, WithTaskSteps

LEMMA CloseSteps ==
  ASSUME NEW s \in State, WellFormed(s), NEW t \in Tasks, NEW w \in Workers,
         NEW b \in BOOLEAN, NEW e \in Nat, NEW r \in Recipes \cup {NoRecipe},
         NEW now \in Nat, NEW n \in Close(s, t, w, b, e, r)
  PROVE  ClaimSteps(s, n, now)
<1> DEFINE ended == Ended(s.tasks[t], "done")
           closed == [ended EXCEPT !.result = NoResult]
<1>1. n = WithTask(s, t, closed)  BY DEF Close
<1>2. ended \in Task  BY TaskOf, EndedType DEF Statuses
<1>3. ended.status = "done" /\ ended.owner = NoWorker
        /\ ended.lease = NoLease /\ ended.epoch = s.tasks[t].epoch
  BY TaskOf DEF Ended, Task
<1>4. closed \in Task /\ closed.status = ended.status
        /\ closed.owner = ended.owner /\ closed.lease = ended.lease
        /\ closed.epoch = ended.epoch
  BY <1>2 DEF Task, Result, NoResult
<1> QED  BY <1>1, <1>3, <1>4, EndedSteps DEF Statuses

LEMMA ReopenSteps ==
  ASSUME NEW s \in State, WellFormed(s), NEW t \in Tasks, NEW now \in Nat,
         NEW st \in {"open", "abandoned"}
  PROVE  ClaimSteps(s, WithTask(s, t, Ended(s.tasks[t], st)), now)
<1> DEFINE b == Ended(s.tasks[t], st)
<1>1. st \in Statuses \ {"claimed", "absent"}  BY DEF Statuses
<1>2. b \in Task  BY <1>1, TaskOf, EndedType
<1>3. ClaimStep(s.tasks[t], b, now)
  BY <1>1, TaskOf, EndedStep DEF WellFormed
<1> QED  BY <1>2, <1>3, WithTaskSteps

LEMMA RecordFailureSteps ==
  ASSUME NEW s \in State, WellFormed(s), NEW t \in Tasks, NEW w \in Workers,
         NEW e \in Nat, NEW now \in Nat, NEW n \in RecordFailure(s, t, w, e)
  PROVE  ClaimSteps(s, n, now)
<1> DEFINE a == s.tasks[t]
           failed == [a EXCEPT !.attempts = @ + 1]
           ended == Ended(failed, "blocked")
           blocked == [ended EXCEPT !.gates = @ \cup {"retries-exhausted"}]
<1>1. n \in {WithTask(s, t, failed), WithTask(s, t, blocked)}
        /\ a.status = "claimed"
  BY DEF RecordFailure, HoldsClaim
<1>2. a \in Task /\ ClaimWellFormed(a)  BY TaskOf DEF WellFormed
<1>3. failed \in Task /\ failed.owner = a.owner /\ failed.epoch = a.epoch
        /\ failed.lease = a.lease /\ failed.status = a.status
  BY <1>2 DEF Task
<1>4. ClaimStep(a, failed, now)  BY <1>1, <1>2, <1>3, SameClaimStep
<1> HIDE DEF failed
<1>5. ended \in Task  BY <1>3, EndedType DEF Statuses
<1>6. ended.status = "blocked" /\ ended.owner = NoWorker
        /\ ended.lease = NoLease /\ ended.epoch = a.epoch
  BY <1>3 DEF Ended, Task
<1> HIDE DEF ended
<1>7. blocked \in Task /\ blocked.status = "blocked"
        /\ blocked.owner = NoWorker /\ blocked.lease = NoLease
        /\ blocked.epoch = a.epoch
  BY <1>5, <1>6 DEF Task, Gates
<1> HIDE DEF blocked
<1>8. ClaimSteps(s, WithTask(s, t, blocked), now)
  BY <1>7, EndedSteps DEF Statuses
<1>9. ClaimSteps(s, WithTask(s, t, failed), now)
  BY <1>3, <1>4, WithTaskSteps
<1> QED  BY <1>1, <1>8, <1>9

\* A snapshot with the same tasks.
LEMMA SameTasksSteps ==
  ASSUME NEW s \in State, WellFormed(s), NEW n, n.tasks = s.tasks,
         NEW now \in Nat
  PROVE  ClaimSteps(s, n, now)
<1> SUFFICES ASSUME NEW u \in Tasks
             PROVE  ClaimStep(s.tasks[u], n.tasks[u], now)
  BY DEF ClaimSteps
<1> QED  BY TaskOf, SameClaimStep DEF WellFormed

LEMMA ObserveOperationSteps ==
  ASSUME NEW s \in State, WellFormed(s), NEW o \in Operations, NEW w, NEW e,
         NEW at, NEW now \in Nat, NEW n \in ObserveOperation(s, o, w, e, at)
  PROVE  ClaimSteps(s, n, now)
<1> DEFINE t == s.operations[o].task
           x == s.operations[o].object
           ended == Ended(s.tasks[t], "done")
           done == [ended EXCEPT !.result = [operation |-> o, object |-> x]]
           m == WithTask(s, t, done)
<1>1. s.operations[o].status = "prepared" /\ n = Observed(s, o)
  BY DEF ObserveOperation, OperationAuthorized
<1>2. t \in Tasks /\ x \in Objects
  BY <1>1, PreparedIsRecorded DEF RecordedOperation
<1>3. n.tasks = m.tasks  BY <1>1 DEF Observed, WithTask, State
<1>4. ended \in Task  BY <1>2, TaskOf, EndedType DEF Statuses
<1>5. ended.status = "done" /\ ended.owner = NoWorker
        /\ ended.lease = NoLease /\ ended.epoch = s.tasks[t].epoch
  BY <1>2, TaskOf DEF Ended, Task
<1> HIDE DEF ended
<1>6. done \in Task /\ done.status = ended.status
        /\ done.owner = ended.owner /\ done.lease = ended.lease
        /\ done.epoch = ended.epoch
  BY <1>2, <1>4 DEF Task, Result
<1> HIDE DEF done
<1>7. ClaimSteps(s, m, now)  BY <1>2, <1>5, <1>6, EndedSteps DEF Statuses
<1> QED  BY <1>3, <1>7 DEF ClaimSteps

-----------------------------------------------------------------------------
(***************************************************************************)
(* Operations.  A command does one of four things to an operation:         *)
(* nothing, prepare it for the current claim, hand it to the owner a       *)
(* takeover made, or observe it under the current claim.                   *)
(***************************************************************************)

\* Between two snapshots operation o is prepared by the holder of a claim ...
PreparedStep(s, n, o) ==
  /\ s.operations[o].status = "absent"
  /\ n.operations[o].status = "prepared"
  /\ n.operations[o].recovery = NoRecovery
  /\ HoldsClaim(s, n.operations[o].task, n.operations[o].owner,
                n.operations[o].epoch)
  /\ n.tasks = s.tasks

\* ... or handed to the new owner of its task ...
RecoveredStep(s, n, o) ==
  LET task == n.tasks[s.operations[o].task] IN
  /\ s.operations[o].status = "prepared"
  /\ n.operations[o] = [s.operations[o] EXCEPT
                          !.recovery = [worker |-> task.owner,
                                        epoch |-> task.epoch]]

\* ... or observed, by someone whose generation holds the claim.
ObservedStep(s, n, o) ==
  LET operation == s.operations[o]
      task == s.tasks[operation.task]
  IN /\ operation.status = "prepared"
     /\ n.operations[o] = [operation EXCEPT !.status = "observed"]
     /\ task.status = "claimed"
     /\ task.epoch \in {operation.epoch, operation.recovery.epoch}
     /\ s.intents[operation.intent] = operation.revision

\* What a command that observes nothing does to every operation.
QuietSteps(s, n) ==
  \A o \in Operations : \/ n.operations[o] = s.operations[o]
                        \/ PreparedStep(s, n, o)
                        \/ RecoveredStep(s, n, o)

OperationSteps(s, n) ==
  \A o \in Operations : \/ n.operations[o] = s.operations[o]
                        \/ PreparedStep(s, n, o)
                        \/ RecoveredStep(s, n, o)
                        \/ ObservedStep(s, n, o)

-----------------------------------------------------------------------------
(* Steps of the commands. *)

LEMMA WithTaskQuiet ==
  ASSUME NEW s \in State, NEW t \in Tasks, NEW b
  PROVE  QuietSteps(s, WithTask(s, t, b))
BY DEF QuietSteps, WithTask, State

LEMMA TakeoverQuiet ==
  ASSUME NEW s \in State, NEW t \in Tasks, NEW w \in Workers,
         NEW e \in Nat, NEW at \in Nat, NEW dur \in Durations,
         NEW n \in Takeover(s, t, w, e, at, dur)
  PROVE  QuietSteps(s, n)
<1> DEFINE b == Granted(s.tasks[t], w, at, dur)
           recovered(o) ==
             IF s.operations[o].status = "prepared" /\ s.operations[o].task = t
             THEN [s.operations[o] EXCEPT !.recovery = [worker |-> w,
                                                        epoch |-> b.epoch]]
             ELSE s.operations[o]
<1>1. /\ n.operations = [o \in Operations |-> recovered(o)]
      /\ n.tasks = [s.tasks EXCEPT ![t] = b]
  BY DEF Takeover, WithTask, State
<1>2. n.tasks[t] = b  BY <1>1 DEF State
<1>3. b.owner = w  BY TaskOf DEF Granted, Task
<1> SUFFICES ASSUME NEW o \in Operations,
                    n.operations[o] # s.operations[o]
             PROVE  RecoveredStep(s, n, o)
  BY DEF QuietSteps
<1>4. n.operations[o] = recovered(o)  BY <1>1
<1> HIDE DEF b
<1>5. s.operations[o].status = "prepared" /\ s.operations[o].task = t
  BY <1>4
<1>6. n.operations[o] = [s.operations[o] EXCEPT
                           !.recovery = [worker |-> w, epoch |-> b.epoch]]
  BY <1>4, <1>5
<1> QED  BY <1>2, <1>3, <1>5, <1>6 DEF RecoveredStep

LEMMA PrepareOperationQuiet ==
  ASSUME NEW s \in State, NEW o \in Operations, NEW t \in Tasks,
         NEW w \in Workers, NEW e \in Nat, NEW r, NEW x, NEW y, NEW i, NEW rev,
         NEW n \in PrepareOperation(s, o, t, w, e, r, x, y, i, rev)
  PROVE  QuietSteps(s, n)
<1> DEFINE operation ==
             [status |-> "prepared", task |-> t, owner |-> w, epoch |-> e,
              ref |-> r, object |-> x, expected |-> y, intent |-> i,
              revision |-> rev, recovery |-> NoRecovery]
<1>1. /\ n = [s EXCEPT !.operations[o] = operation]
      /\ s.operations[o].status = "absent"
      /\ HoldsClaim(s, t, w, e)
  BY DEF PrepareOperation
<1>2. n.operations = [s.operations EXCEPT ![o] = operation]
        /\ n.tasks = s.tasks
  BY <1>1 DEF State
<1>3. n.operations[o] = operation  BY <1>2 DEF State
<1>4. PreparedStep(s, n, o)  BY <1>1, <1>2, <1>3 DEF PreparedStep
<1>5. \A p \in Operations \ {o} : n.operations[p] = s.operations[p]
  BY <1>2 DEF State
<1> QED  BY <1>4, <1>5 DEF QuietSteps

\* An authorized observation changes its own operation only.
LEMMA ObserveOperationStep ==
  ASSUME NEW s \in State, NEW o \in Operations, NEW w, NEW e, NEW at,
         NEW n \in ObserveOperation(s, o, w, e, at)
  PROVE  /\ ObservedStep(s, n, o)
         /\ \A p \in Operations \ {o} : n.operations[p] = s.operations[p]
<1> DEFINE operation == s.operations[o]
<1>1. OperationAuthorized(s, o, w, e, at) /\ n = Observed(s, o)
  BY DEF ObserveOperation
<1>2. n.operations = [s.operations EXCEPT
                        ![o] = [operation EXCEPT !.status = "observed"]]
  BY <1>1 DEF Observed, WithTask, State
<1>3. n.operations[o] = [operation EXCEPT !.status = "observed"]
  BY <1>2 DEF State
<1>4. \/ e = operation.epoch
      \/ operation.recovery = [worker |-> w, epoch |-> e]
  BY <1>1 DEF OperationAuthorized
<1>5. e \in {operation.epoch, operation.recovery.epoch}  BY <1>4
<1>6. /\ operation.status = "prepared"
      /\ s.tasks[operation.task].status = "claimed"
      /\ s.tasks[operation.task].epoch = e
      /\ s.intents[operation.intent] = operation.revision
  BY <1>1 DEF OperationAuthorized, HoldsClaim, IntentCurrent
<1>7. ObservedStep(s, n, o)  BY <1>3, <1>5, <1>6 DEF ObservedStep
<1> QED  BY <1>2, <1>7 DEF State

\* The commands that write one task touch no operation.
LEMMA OneTaskQuiet ==
  ASSUME NEW s \in State, NEW t \in Tasks, NEW n,
         \/ \E d, lane, r : n \in Add(s, t, d, lane, r)
         \/ \E b : n \in MarkReady(s, t, b)
         \/ \E d, lane, r, text : n \in Edit(s, t, d, lane, r, text)
         \/ \E w, at, dur : n \in Claim(s, t, w, at, dur)
         \/ \E w, e, at, dur : n \in RenewClaim(s, t, w, e, at, dur)
         \/ \E w, e : n \in Comment(s, t, w, e)
         \/ \E w, b, e, r : n \in Close(s, t, w, b, e, r)
         \/ n \in Reopen(s, t)
         \/ \E st, e : n \in Resume(s, t, st, e)
         \/ \E w, e : n \in Release(s, t, w, e)
         \/ \E w, e : n \in RecordFailure(s, t, w, e)
  PROVE  QuietSteps(s, n)
<1> SUFFICES \E b : n = WithTask(s, t, b)
  BY WithTaskQuiet
<1>1. ASSUME NEW d, NEW lane, NEW r, n \in Add(s, t, d, lane, r)
      PROVE  \E b : n = WithTask(s, t, b)
  BY <1>1, Zenon DEF Add
<1>2. ASSUME NEW b, n \in MarkReady(s, t, b)
      PROVE  \E c : n = WithTask(s, t, c)
  BY <1>2, Zenon DEF MarkReady
<1>3. ASSUME NEW d, NEW lane, NEW r, NEW text, n \in Edit(s, t, d, lane, r, text)
      PROVE  \E b : n = WithTask(s, t, b)
  BY <1>3, Zenon DEF Edit
<1>4. ASSUME NEW w, NEW at, NEW dur, n \in Claim(s, t, w, at, dur)
      PROVE  \E b : n = WithTask(s, t, b)
  BY <1>4, Zenon DEF Claim
<1>5. ASSUME NEW w, NEW e, NEW at, NEW dur, n \in RenewClaim(s, t, w, e, at, dur)
      PROVE  \E b : n = WithTask(s, t, b)
  BY <1>5, Zenon DEF RenewClaim
<1>6. ASSUME NEW w, NEW e, n \in Comment(s, t, w, e)
      PROVE  \E b : n = WithTask(s, t, b)
  BY <1>6, Zenon DEF Comment
<1>7. ASSUME NEW w, NEW b, NEW e, NEW r, n \in Close(s, t, w, b, e, r)
      PROVE  \E c : n = WithTask(s, t, c)
  BY <1>7, Zenon DEF Close
<1>8. ASSUME n \in Reopen(s, t)
      PROVE  \E b : n = WithTask(s, t, b)
  BY <1>8, Zenon DEF Reopen
<1>9. ASSUME NEW st, NEW e, n \in Resume(s, t, st, e)
      PROVE  \E b : n = WithTask(s, t, b)
  BY <1>9, Zenon DEF Resume
<1>10. ASSUME NEW w, NEW e, n \in Release(s, t, w, e)
       PROVE  \E b : n = WithTask(s, t, b)
  BY <1>10, Zenon DEF Release
<1>11. ASSUME NEW w, NEW e, n \in RecordFailure(s, t, w, e)
       PROVE  \E b : n = WithTask(s, t, b)
  BY <1>11, Zenon DEF RecordFailure
<1> QED
  BY <1>1, <1>2, <1>3, <1>4, <1>5, <1>6, <1>7, <1>8, <1>9, <1>10, <1>11, Zenon
-----------------------------------------------------------------------------
(***************************************************************************)
(* All commands at once: what a command that observes no operation writes  *)
(* on top of s at time now, and what any command writes.                   *)
(***************************************************************************)

Adds(s, n) ==
  \E t \in Tasks, d \in SUBSET Tasks, lane \in BOOLEAN,
     r \in Recipes \cup {NoRecipe} : n \in Add(s, t, d, lane, r)

MarksReady(s, n) ==
  \E t \in Tasks, b \in BOOLEAN : n \in MarkReady(s, t, b)

Edits(s, n) ==
  \E t \in Tasks, d \in SUBSET Tasks, lane \in BOOLEAN,
     r \in Recipes \cup {NoRecipe}, text \in BOOLEAN :
    n \in Edit(s, t, d, lane, r, text)

ClaimsNamed(s, n, now) ==
  \E t \in Tasks, w \in Workers, at \in 0..now, dur \in Durations :
    n \in Claim(s, t, w, at, dur)

ClaimsReady(s, n, now) ==
  \E w \in Workers, at \in 0..now, dur \in Durations :
    n \in ClaimReady(s, w, at, dur)

Renews(s, n, now) ==
  \E t \in Tasks, w \in Workers, e \in Nat, at \in 0..now, dur \in Durations :
    n \in RenewClaim(s, t, w, e, at, dur)

TakesOver(s, n, now) ==
  \E t \in Tasks, w \in Workers, e \in Nat, at \in 0..now, dur \in Durations :
    n \in Takeover(s, t, w, e, at, dur)

Comments(s, n) ==
  \E t \in Tasks, w \in Workers, e \in Nat : n \in Comment(s, t, w, e)

Closes(s, n) ==
  \E t \in Tasks, w \in Workers, b \in BOOLEAN, e \in Nat,
     r \in Recipes \cup {NoRecipe} : n \in Close(s, t, w, b, e, r)

Reopens(s, n) == \E t \in Tasks : n \in Reopen(s, t)

Resumes(s, n) ==
  \E t \in Tasks, st \in Statuses, e \in Nat : n \in Resume(s, t, st, e)

Releases(s, n) ==
  \E t \in Tasks, w \in Workers, e \in Nat : n \in Release(s, t, w, e)

RecordsFailure(s, n) ==
  \E t \in Tasks, w \in Workers, e \in Nat : n \in RecordFailure(s, t, w, e)

SetsIntent(s, n) ==
  \E i \in Intents, rev \in Nat, e \in Nat :
    n \in SetIntentRevision(s, i, rev, e)

Prepares(s, n) ==
  \E o \in Operations, t \in Tasks, w \in Workers, e \in Nat,
     r \in EffectRefs, x \in Objects, y \in Objects \cup {NoObject},
     i \in Intents, rev \in Nat :
    n \in PrepareOperation(s, o, t, w, e, r, x, y, i, rev)

Observes(s, n) ==
  \E o \in Operations, w \in Workers, e \in Nat, at \in Nat :
    n \in ObserveOperation(s, o, w, e, at)

QuietCommand(s, n, now) ==
  \/ Adds(s, n) \/ MarksReady(s, n) \/ Edits(s, n) \/ ClaimsNamed(s, n, now)
  \/ ClaimsReady(s, n, now) \/ Renews(s, n, now) \/ TakesOver(s, n, now)
  \/ Comments(s, n) \/ Closes(s, n) \/ Reopens(s, n) \/ Resumes(s, n)
  \/ Releases(s, n) \/ RecordsFailure(s, n) \/ SetsIntent(s, n)
  \/ Prepares(s, n)

Command(s, n, now) == QuietCommand(s, n, now) \/ Observes(s, n)

\* A task keeps what add wrote for an unused id until it is added.
Unused(s) == \A u \in Tasks : ~Exists(s, u) => s.tasks[u] = NoTask

LEMMA CommandType ==
  ASSUME NEW s \in State, NEW now \in Nat, NEW n, Command(s, n, now)
  PROVE  n \in State
<1>t. \A at \in 0..now : at \in Nat  OBVIOUS
<1>1. CASE Adds(s, n)  BY <1>1, AddType DEF Adds
<1>2. CASE MarksReady(s, n)  BY <1>2, MarkReadyType DEF MarksReady
<1>3. CASE Edits(s, n)  BY <1>3, EditType DEF Edits
<1>4. CASE ClaimsNamed(s, n, now)  BY <1>4, <1>t, ClaimType DEF ClaimsNamed
<1>5. CASE ClaimsReady(s, n, now)
  BY <1>5, <1>t, ClaimReadyType DEF ClaimsReady
<1>6. CASE Renews(s, n, now)  BY <1>6, <1>t, RenewClaimType DEF Renews
<1>7. CASE TakesOver(s, n, now)  BY <1>7, <1>t, TakeoverType DEF TakesOver
<1>8. CASE Comments(s, n)  BY <1>8, CommentType DEF Comments
<1>9. CASE Closes(s, n)  BY <1>9, CloseType DEF Closes
<1>10. CASE Reopens(s, n)  BY <1>10, ReopenType DEF Reopens
<1>11. CASE Resumes(s, n)  BY <1>11, ResumeType DEF Resumes
<1>12. CASE Releases(s, n)  BY <1>12, ReleaseType DEF Releases
<1>13. CASE RecordsFailure(s, n)
  BY <1>13, RecordFailureType DEF RecordsFailure
<1>14. CASE SetsIntent(s, n)  BY <1>14, SetIntentRevisionType DEF SetsIntent
<1>15. CASE Prepares(s, n)  BY <1>15, PrepareOperationType DEF Prepares
<1>16. CASE Observes(s, n)  BY <1>16, ObserveOperationType DEF Observes
<1> QED
  BY <1>1, <1>2, <1>3, <1>4, <1>5, <1>6, <1>7, <1>8, <1>9, <1>10, <1>11,
     <1>12, <1>13, <1>14, <1>15, <1>16 DEF Command, QuietCommand

LEMMA CommandClaims ==
  ASSUME NEW s \in State, WellFormed(s), Unused(s), NEW now \in Nat, NEW n,
         Command(s, n, now)
  PROVE  ClaimSteps(s, n, now)
<1>1. CASE Adds(s, n)  BY <1>1, AddSteps DEF Adds, Unused
<1>2. CASE MarksReady(s, n)  BY <1>2, MarkReadySteps DEF MarksReady
<1>3. CASE Edits(s, n)  BY <1>3, EditSteps DEF Edits
<1>4. CASE ClaimsNamed(s, n, now)  BY <1>4, ClaimSucceeds DEF ClaimsNamed
<1>5. CASE ClaimsReady(s, n, now)  BY <1>5, ClaimReadySteps DEF ClaimsReady
<1>6. CASE Renews(s, n, now)  BY <1>6, RenewClaimSteps DEF Renews
<1>7. CASE TakesOver(s, n, now)  BY <1>7, TakeoverSteps DEF TakesOver
<1>8. CASE Comments(s, n)  BY <1>8, CommentSteps DEF Comments
<1>9. CASE Closes(s, n)  BY <1>9, CloseSteps DEF Closes
<1>10. CASE Reopens(s, n)  BY <1>10, ReopenSteps DEF Reopens, Reopen
<1>11. CASE Resumes(s, n)  BY <1>11, ReopenSteps DEF Resumes, Resume
<1>12. CASE Releases(s, n)  BY <1>12, ReopenSteps DEF Releases, Release
<1>13. CASE RecordsFailure(s, n)
  BY <1>13, RecordFailureSteps DEF RecordsFailure
<1>14. CASE SetsIntent(s, n)
  <2>1. n.tasks = s.tasks
    BY <1>14 DEF SetsIntent, SetIntentRevision, State
  <2> QED  BY <2>1, SameTasksSteps
<1>15. CASE Prepares(s, n)
  <2>1. n.tasks = s.tasks
    BY <1>15 DEF Prepares, PrepareOperation, State
  <2> QED  BY <2>1, SameTasksSteps
<1>16. CASE Observes(s, n)  BY <1>16, ObserveOperationSteps DEF Observes
<1> QED
  BY <1>1, <1>2, <1>3, <1>4, <1>5, <1>6, <1>7, <1>8, <1>9, <1>10, <1>11,
     <1>12, <1>13, <1>14, <1>15, <1>16 DEF Command, QuietCommand

LEMMA QuietCommandSteps ==
  ASSUME NEW s \in State, NEW now \in Nat, NEW n, QuietCommand(s, n, now)
  PROVE  QuietSteps(s, n)
<1>t. \A at \in 0..now : at \in Nat  OBVIOUS
<1>1. CASE Adds(s, n)  BY <1>1, OneTaskQuiet DEF Adds
<1>2. CASE MarksReady(s, n)  BY <1>2, OneTaskQuiet DEF MarksReady
<1>3. CASE Edits(s, n)  BY <1>3, OneTaskQuiet DEF Edits
<1>4. CASE ClaimsNamed(s, n, now)  BY <1>4, OneTaskQuiet DEF ClaimsNamed
<1>5. CASE ClaimsReady(s, n, now)
  BY <1>5, WithTaskQuiet DEF ClaimsReady, ClaimReady, ReadyTasks
<1>6. CASE Renews(s, n, now)  BY <1>6, OneTaskQuiet DEF Renews
<1>7. CASE TakesOver(s, n, now)  BY <1>7, <1>t, TakeoverQuiet DEF TakesOver
<1>8. CASE Comments(s, n)  BY <1>8, OneTaskQuiet DEF Comments
<1>9. CASE Closes(s, n)  BY <1>9, OneTaskQuiet DEF Closes
<1>10. CASE Reopens(s, n)  BY <1>10, OneTaskQuiet DEF Reopens
<1>11. CASE Resumes(s, n)  BY <1>11, OneTaskQuiet DEF Resumes
<1>12. CASE Releases(s, n)  BY <1>12, OneTaskQuiet DEF Releases
<1>13. CASE RecordsFailure(s, n)  BY <1>13, OneTaskQuiet DEF RecordsFailure
<1>14. CASE SetsIntent(s, n)
  BY <1>14 DEF SetsIntent, SetIntentRevision, State, QuietSteps
<1>15. CASE Prepares(s, n)  BY <1>15, PrepareOperationQuiet DEF Prepares
<1> QED
  BY <1>1, <1>2, <1>3, <1>4, <1>5, <1>6, <1>7, <1>8, <1>9, <1>10, <1>11,
     <1>12, <1>13, <1>14, <1>15 DEF QuietCommand

LEMMA CommandOperations ==
  ASSUME NEW s \in State, NEW now \in Nat, NEW n, Command(s, n, now)
  PROVE  OperationSteps(s, n)
<1>1. CASE QuietCommand(s, n, now)
  BY <1>1, QuietCommandSteps DEF QuietSteps, OperationSteps
<1>2. CASE Observes(s, n)
  BY <1>2, ObserveOperationStep DEF Observes, OperationSteps
<1> QED  BY <1>1, <1>2 DEF Command

-----------------------------------------------------------------------------
(***************************************************************************)
(* Statuses.  A command other than add, edit, apply and complete keeps what *)
(* a task depends on and how it is proved, and takes its status one step.   *)
(***************************************************************************)

StatusStep(a, b) ==
  \/ b.status = a.status
  \/ a.status = "open" /\ b.status = "ready"
  \/ a.status = "ready" /\ b.status = "claimed"
  \/ a.status = "claimed" /\ b.status \in {"abandoned", "blocked"}
  \/ a.status \in {"done", "abandoned"} /\ b.status = "open"
  \/ /\ a.status \in {"deferred", "in-review", "blocked"}
     /\ b.status = "open"
     /\ "external" \notin a.gates
  \/ ~a.lane /\ b.status = "done"

Moved(a, b) ==
  /\ a.status # "absent"
  /\ b.dependencies = a.dependencies
  /\ b.lane = a.lane
  /\ b.laneRecipe = a.laneRecipe
  /\ b.proofRequired = a.proofRequired
  /\ a.gates \subseteq b.gates
  /\ b.attempts >= a.attempts
  /\ b.attempts > a.attempts /\ b.attempts >= MaxAttempts
       => b.status = "blocked"
  /\ b.result = a.result \/ ~a.lane
  /\ StatusStep(a, b)

MoveStep(s, n, t) ==
  \E b \in Task :
    /\ n.tasks = [s.tasks EXCEPT ![t] = b]
    /\ Moved(s.tasks[t], b)
    /\ s.tasks[t].status = "ready" /\ b.status = "claimed"
         => DependenciesDone(s, t)

LEMMA WithTaskMoves ==
  ASSUME NEW s \in State, NEW t \in Tasks, NEW b \in Task,
         Moved(s.tasks[t], b),
         s.tasks[t].status = "ready" /\ b.status = "claimed"
           => DependenciesDone(s, t)
  PROVE  MoveStep(s, WithTask(s, t, b), t)
BY DEF MoveStep, WithTask, State

LEMMA GrantedMoves ==
  ASSUME NEW a \in Task, NEW w \in Workers, NEW at \in Nat,
         NEW dur \in Durations, a.status \in {"ready", "claimed"}
  PROVE  Moved(a, Granted(a, w, at, dur))
BY DEF Moved, StatusStep, Granted, Task

LEMMA EndedMoves ==
  ASSUME NEW a \in Task, NEW st, StatusStep(a, [a EXCEPT !.status = st]),
         a.status # "absent"
  PROVE  Moved(a, Ended(a, st))
BY DEF Moved, StatusStep, Ended, Task

LEMMA RecordFailureMoves ==
  ASSUME NEW s \in State, NEW t \in Tasks, NEW w \in Workers, NEW e \in Nat,
         NEW n \in RecordFailure(s, t, w, e)
  PROVE  MoveStep(s, n, t)
<1> DEFINE a == s.tasks[t]
           failed == [a EXCEPT !.attempts = @ + 1]
           ended == Ended(failed, "blocked")
           blocked == [ended EXCEPT !.gates = @ \cup {"retries-exhausted"}]
<1>1. n = WithTask(s, t, IF failed.attempts >= MaxAttempts THEN blocked
                                                          ELSE failed)
        /\ a.status = "claimed"
  BY DEF RecordFailure, HoldsClaim
<1>2. a \in Task  BY TaskOf
<1>3. failed \in Task /\ failed.attempts = a.attempts + 1
  BY <1>2 DEF Task
<1>4. failed.attempts < MaxAttempts => Moved(a, failed)
  BY <1>1, <1>2, <1>3, ConstantsAssumption DEF Moved, StatusStep, Task
<1>5. /\ failed.dependencies = a.dependencies /\ failed.lane = a.lane
      /\ failed.laneRecipe = a.laneRecipe /\ failed.gates = a.gates
      /\ failed.proofRequired = a.proofRequired /\ failed.result = a.result
  BY <1>2 DEF Task
<1> HIDE DEF failed
<1>6. ended \in Task  BY <1>3, EndedType DEF Statuses
<1>7. /\ ended.dependencies = a.dependencies /\ ended.lane = a.lane
      /\ ended.laneRecipe = a.laneRecipe /\ ended.gates = a.gates
      /\ ended.proofRequired = a.proofRequired /\ ended.result = a.result
      /\ ended.attempts = a.attempts + 1 /\ ended.status = "blocked"
  BY <1>3, <1>5 DEF Ended, Task
<1> HIDE DEF ended
<1>8. blocked \in Task  BY <1>6 DEF Task, Gates
<1>9. Moved(a, blocked)
  BY <1>1, <1>2, <1>6, <1>7 DEF Moved, StatusStep, Task
<1> HIDE DEF blocked
<1>10. CASE failed.attempts >= MaxAttempts
  BY <1>1, <1>8, <1>9, <1>10, WithTaskMoves
<1>11. CASE ~(failed.attempts >= MaxAttempts)
  <2>1. failed.attempts < MaxAttempts
    BY <1>2, <1>3, <1>11, ConstantsAssumption DEF Task
  <2> QED  BY <1>1, <1>3, <1>4, <1>11, <2>1, WithTaskMoves
<1> QED  BY <1>10, <1>11

LEMMA CloseMoves ==
  ASSUME NEW s \in State, NEW t \in Tasks, NEW w \in Workers,
         NEW b \in BOOLEAN, NEW e \in Nat, NEW r \in Recipes \cup {NoRecipe},
         NEW n \in Close(s, t, w, b, e, r)
  PROVE  MoveStep(s, n, t)
<1> DEFINE a == s.tasks[t]
           ended == Ended(a, "done")
           closed == [ended EXCEPT !.result = NoResult]
<1>1. n = WithTask(s, t, closed) /\ ~a.lane /\ a.status # "absent"
  BY DEF Close
<1>2. a \in Task  BY TaskOf
<1>3. ended \in Task  BY <1>2, EndedType DEF Statuses
<1>4. /\ ended.dependencies = a.dependencies /\ ended.lane = a.lane
      /\ ended.laneRecipe = a.laneRecipe /\ ended.gates = a.gates
      /\ ended.proofRequired = a.proofRequired /\ ended.attempts = a.attempts
      /\ ended.status = "done"
  BY <1>2 DEF Ended, Task
<1> HIDE DEF ended
<1>5. closed \in Task  BY <1>3 DEF Task, Result
<1>6. closed.status = "done"  BY <1>3, <1>4 DEF Task
<1>7. Moved(a, closed)
  BY <1>1, <1>2, <1>3, <1>4 DEF Moved, StatusStep, Task
<1> HIDE DEF closed
<1> QED  BY <1>1, <1>5, <1>6, <1>7, WithTaskMoves

LEMMA TakeoverMoves ==
  ASSUME NEW s \in State, NEW t \in Tasks, NEW w \in Workers, NEW e \in Nat,
         NEW at \in Nat, NEW dur \in Durations,
         NEW n \in Takeover(s, t, w, e, at, dur)
  PROVE  MoveStep(s, n, t)
<1> DEFINE b == Granted(s.tasks[t], w, at, dur)
<1>1. n.tasks = [s.tasks EXCEPT ![t] = b] /\ s.tasks[t].status = "claimed"
  BY DEF Takeover, WithTask, State
<1>2. b \in Task /\ Moved(s.tasks[t], b)
  BY <1>1, TaskOf, GrantedType, GrantedMoves
<1> QED  BY <1>1, <1>2 DEF MoveStep

\* What the commands that write one task have in common.
LEMMA CommandMoves ==
  ASSUME NEW s \in State, NEW now \in Nat, NEW n, QuietCommand(s, n, now),
         ~Adds(s, n), ~Edits(s, n)
  PROVE  n.tasks = s.tasks \/ \E t \in Tasks : MoveStep(s, n, t)
<1>t. \A at \in 0..now : at \in Nat  OBVIOUS
<1>g. ASSUME NEW t \in Tasks, NEW w \in Workers, NEW at \in Nat,
             NEW dur \in Durations, s.tasks[t].status = "ready",
             DependenciesDone(s, t)
      PROVE  MoveStep(s, WithTask(s, t, Granted(s.tasks[t], w, at, dur)), t)
  BY <1>g, TaskOf, GrantedType, GrantedMoves, WithTaskMoves
<1>e. ASSUME NEW t \in Tasks, NEW st \in Statuses \ {"claimed"},
             StatusStep(s.tasks[t], [s.tasks[t] EXCEPT !.status = st]),
             s.tasks[t].status # "absent"
      PROVE  MoveStep(s, WithTask(s, t, Ended(s.tasks[t], st)), t)
  <2>1. Ended(s.tasks[t], st) \in Task  BY TaskOf, EndedType
  <2>2. Ended(s.tasks[t], st).status = st  BY TaskOf DEF Ended, Task
  <2>3. Moved(s.tasks[t], Ended(s.tasks[t], st))
    BY <1>e, TaskOf, EndedMoves
  <2> QED  BY <2>1, <2>2, <2>3, WithTaskMoves
<1>1. CASE MarksReady(s, n)
  <2>1. PICK t \in Tasks :
          /\ n = WithTask(s, t, [s.tasks[t] EXCEPT !.status = "ready"])
          /\ s.tasks[t].status = "open"
    BY <1>1 DEF MarksReady, MarkReady
  <2> DEFINE b == [s.tasks[t] EXCEPT !.status = "ready"]
  <2>2. s.tasks[t] \in Task  BY TaskOf
  <2>3. b \in Task /\ b.status = "ready"  BY <2>2 DEF Task, Statuses
  <2>4. Moved(s.tasks[t], b)  BY <2>1, <2>2 DEF Moved, StatusStep, Task
  <2> QED  BY <2>1, <2>3, <2>4, WithTaskMoves
<1>2. CASE ClaimsNamed(s, n, now)
  BY <1>2, <1>t, <1>g DEF ClaimsNamed, Claim
<1>3. CASE ClaimsReady(s, n, now)
  BY <1>3, <1>t, <1>g DEF ClaimsReady, ClaimReady, ReadyTasks
<1>4. CASE Renews(s, n, now)
  <2>1. PICK t \in Tasks, at \in Nat, dur \in Durations :
          /\ n = WithTask(s, t, [s.tasks[t] EXCEPT
                   !.lease = [@ EXCEPT !.renew = at, !.duration = dur]])
          /\ s.tasks[t].status = "claimed"
    BY <1>4, <1>t DEF Renews, RenewClaim, HoldsClaim
  <2> DEFINE a == s.tasks[t]
             lease == [a.lease EXCEPT !.renew = at, !.duration = dur]
             b == [a EXCEPT !.lease = lease]
  <2>2. a \in Task /\ dur \in Nat  BY TaskOf, ConstantsAssumption
  <2>3. lease \in Lease  BY <2>2 DEF Task, Lease
  <2> HIDE DEF lease
  <2>4. b \in Task /\ b.status = "claimed"  BY <2>1, <2>2, <2>3 DEF Task
  <2>5. Moved(a, b)  BY <2>1, <2>2 DEF Moved, StatusStep, Task
  <2>6. n = WithTask(s, t, b)  BY <2>1 DEF lease
  <2> QED  BY <2>1, <2>4, <2>5, <2>6, WithTaskMoves
<1>5. CASE TakesOver(s, n, now)  BY <1>5, <1>t, TakeoverMoves DEF TakesOver
<1>6. CASE Comments(s, n)
  <2>1. PICK t \in Tasks, w \in Workers :
          /\ n = WithTask(s, t, [s.tasks[t] EXCEPT !.comments = @ \cup {w}])
          /\ s.tasks[t].status = "claimed"
    BY <1>6 DEF Comments, Comment, HoldsClaim
  <2> DEFINE b == [s.tasks[t] EXCEPT !.comments = @ \cup {w}]
  <2>2. s.tasks[t] \in Task  BY TaskOf
  <2>3. b \in Task /\ b.status = "claimed"  BY <2>1, <2>2 DEF Task
  <2>4. Moved(s.tasks[t], b)  BY <2>1, <2>2 DEF Moved, StatusStep, Task
  <2> QED  BY <2>1, <2>3, <2>4, WithTaskMoves
<1>7. CASE Closes(s, n)  BY <1>7, CloseMoves DEF Closes
<1>8. CASE Reopens(s, n)
  BY <1>8, <1>e, TaskOf DEF Reopens, Reopen, StatusStep, Statuses, Task
<1>9. CASE Resumes(s, n)
  BY <1>9, <1>e, TaskOf DEF Resumes, Resume, StatusStep, Statuses, Task
<1>10. CASE Releases(s, n)
  BY <1>10, <1>e, TaskOf
     DEF Releases, Release, HoldsClaim, StatusStep, Statuses, Task
<1>11. CASE RecordsFailure(s, n)
  BY <1>11, RecordFailureMoves DEF RecordsFailure
<1>12. CASE SetsIntent(s, n)
  BY <1>12 DEF SetsIntent, SetIntentRevision, State
<1>13. CASE Prepares(s, n)
  BY <1>13 DEF Prepares, PrepareOperation, State
<1> QED
  BY <1>1, <1>2, <1>3, <1>4, <1>5, <1>6, <1>7, <1>8, <1>9, <1>10, <1>11,
     <1>12, <1>13 DEF QuietCommand

-----------------------------------------------------------------------------
(***************************************************************************)
(* What `krn task check' asks of the queue.  A cycle is a set of tasks each *)
(* of which depends on one in the set, so a command can only close one      *)
(* through the task whose dependencies it writes.                           *)
(***************************************************************************)

\* An observed operation is never written again.
LEMMA ObservedStays ==
  ASSUME NEW s, NEW n, OperationSteps(s, n), NEW o \in Operations,
         s.operations[o].status = "observed"
  PROVE  n.operations[o] = s.operations[o]
BY DEF OperationSteps, PreparedStep, RecoveredStep, ObservedStep

\* The proof of a lane task that is done, as taskStoreErrors asks for it.
ResultHolds(s, t) ==
  LET task == s.tasks[t] IN
  (task.lane /\ task.status = "done" /\ ~task.proofRequired) =>
    /\ task.result.operation \in Operations
    /\ s.operations[task.result.operation].task = t
    /\ s.operations[task.result.operation].status = "observed"
    /\ s.operations[task.result.operation].object = task.result.object

LEMMA SoundEach ==
  ASSUME NEW s
  PROVE  NoTaskStoreErrors(s) <=>
           \A t \in Tasks : Exists(s, t) =>
             /\ s.tasks[t].lane => s.tasks[t].laneRecipe # NoRecipe
             /\ ResultHolds(s, t)
             /\ \A d \in s.tasks[t].dependencies : Exists(s, d)
             /\ ~HasDependencyCycle(s, t)
BY DEF NoTaskStoreErrors, ResultHolds

\* The result of a task that stays as it is still holds.
LEMMA ResultStays ==
  ASSUME NEW s, NEW n, OperationSteps(s, n), NEW t \in Tasks,
         ResultHolds(s, t),
         n.tasks[t].lane = s.tasks[t].lane,
         n.tasks[t].status = s.tasks[t].status,
         n.tasks[t].proofRequired = s.tasks[t].proofRequired,
         n.tasks[t].lane => n.tasks[t].result = s.tasks[t].result
  PROVE  ResultHolds(n, t)
<1> DEFINE o == s.tasks[t].result.operation
<1> SUFFICES ASSUME n.tasks[t].lane, n.tasks[t].status = "done",
                    ~n.tasks[t].proofRequired
             PROVE  /\ n.tasks[t].result.operation \in Operations
                    /\ n.operations[n.tasks[t].result.operation].task = t
                    /\ n.operations[n.tasks[t].result.operation].status
                         = "observed"
                    /\ n.operations[n.tasks[t].result.operation].object
                         = n.tasks[t].result.object
  BY DEF ResultHolds
<1>1. n.tasks[t].result = s.tasks[t].result  OBVIOUS
<1>2. /\ o \in Operations
      /\ s.operations[o].task = t
      /\ s.operations[o].status = "observed"
      /\ s.operations[o].object = s.tasks[t].result.object
  BY DEF ResultHolds
<1>3. n.operations[o] = s.operations[o]  BY <1>2, ObservedStays
<1> QED  BY <1>1, <1>2, <1>3

LEMMA SameGraph ==
  ASSUME NEW s, NEW n, NEW t \in Tasks,
         \A u \in Tasks : n.tasks[u].dependencies = s.tasks[u].dependencies
  PROVE  HasDependencyCycle(n, t) <=> HasDependencyCycle(s, t)
BY DEF HasDependencyCycle

\* If only the dependencies of t change, a new cycle goes through t.
LEMMA CycleThrough ==
  ASSUME NEW s, NEW n, NEW t \in Tasks, NEW u \in Tasks,
         \A v \in Tasks \ {t} :
           n.tasks[v].dependencies = s.tasks[v].dependencies,
         HasDependencyCycle(n, u), ~HasDependencyCycle(n, t)
  PROVE  HasDependencyCycle(s, u)
<1>1. PICK S \in SUBSET Tasks :
        u \in S /\ \A v \in S : n.tasks[v].dependencies \cap S # {}
  BY DEF HasDependencyCycle
<1>2. t \notin S  BY <1>1 DEF HasDependencyCycle
<1>3. \A v \in S : s.tasks[v].dependencies \cap S # {}  BY <1>1, <1>2
<1> QED  BY <1>1, <1>3 DEF HasDependencyCycle

LEMMA MoveSound ==
  ASSUME NEW s \in State, NEW n, NEW t \in Tasks, NoTaskStoreErrors(s),
         MoveStep(s, n, t), OperationSteps(s, n)
  PROVE  NoTaskStoreErrors(n)
<1>1. PICK b \in Task : /\ n.tasks = [s.tasks EXCEPT ![t] = b]
                        /\ Moved(s.tasks[t], b)
  BY DEF MoveStep
<1>2. n.tasks[t] = b /\ \A u \in Tasks \ {t} : n.tasks[u] = s.tasks[u]
  BY <1>1 DEF State
<1>3. b.status # "absent" /\ s.tasks[t].status # "absent"
  BY <1>1 DEF Moved, StatusStep
<1>4. \A u \in Tasks : Exists(n, u) <=> Exists(s, u)
  BY <1>2, <1>3 DEF Exists
<1>5. \A u \in Tasks : n.tasks[u].dependencies = s.tasks[u].dependencies
  BY <1>1, <1>2 DEF Moved
<1>6. \A u \in Tasks : HasDependencyCycle(n, u) <=> HasDependencyCycle(s, u)
  BY <1>5, SameGraph
<1>7. ASSUME NEW u \in Tasks, ResultHolds(s, u)  PROVE ResultHolds(n, u)
  <2>1. CASE u # t  BY <1>2, <1>7, <2>1, ResultStays
  <2>2. CASE u = t /\ b.status = s.tasks[t].status
    BY <1>1, <1>2, <1>7, <2>2, ResultStays DEF Moved
  <2>3. CASE u = t /\ b.status # s.tasks[t].status
    BY <1>1, <1>2, <2>3 DEF ResultHolds, Moved, StatusStep
  <2> QED  BY <2>1, <2>2, <2>3
<1>8. \A u \in Tasks : /\ n.tasks[u].lane = s.tasks[u].lane
                       /\ n.tasks[u].laneRecipe = s.tasks[u].laneRecipe
  BY <1>1, <1>2 DEF Moved
<1>9. \A u \in Tasks : s.tasks[u].dependencies \subseteq Tasks
  BY TaskOf DEF Task
<1> QED  BY <1>4, <1>5, <1>6, <1>7, <1>8, <1>9, SoundEach

LEMMA SameTasksSound ==
  ASSUME NEW s \in State, NEW n, NoTaskStoreErrors(s), n.tasks = s.tasks,
         OperationSteps(s, n)
  PROVE  NoTaskStoreErrors(n)
<1>1. \A u \in Tasks : HasDependencyCycle(n, u) <=> HasDependencyCycle(s, u)
  BY SameGraph
<1>2. \A u \in Tasks : ResultHolds(s, u) => ResultHolds(n, u)
  BY ResultStays
<1>3. \A u \in Tasks : Exists(n, u) <=> Exists(s, u)  BY DEF Exists
<1>4. \A u \in Tasks : s.tasks[u].dependencies \subseteq Tasks
  BY TaskOf DEF Task
<1> QED  BY <1>1, <1>2, <1>3, <1>4, SoundEach

LEMMA AddSound ==
  ASSUME NEW s \in State, Unused(s), NoTaskStoreErrors(s), NEW n,
         OperationSteps(s, n), NEW t \in Tasks, NEW d \in SUBSET Tasks,
         NEW lane \in BOOLEAN, NEW r \in Recipes \cup {NoRecipe},
         n \in Add(s, t, d, lane, r)
  PROVE  NoTaskStoreErrors(n)
<1> DEFINE b == [NoTask EXCEPT !.status = "open", !.dependencies = d,
                               !.lane = lane, !.laneRecipe = r]
<1>1. /\ n = WithTask(s, t, b)
      /\ lane => r # NoRecipe
      /\ ~Exists(s, t)
      /\ \A e \in d : Exists(s, e)
  BY DEF Add
<1>2. n.tasks[t] = b /\ \A u \in Tasks \ {t} : n.tasks[u] = s.tasks[u]
  BY <1>1 DEF WithTask, State
<1>3. b.status = "open" /\ b.dependencies = d /\ b.lane = lane
        /\ b.laneRecipe = r
  BY DEF NoTask
<1> HIDE DEF b
\* Nobody depends on the new task: an unused id is no one's dependency.
<1>4. \A u \in Tasks : /\ s.tasks[u].dependencies \subseteq Tasks \ {t}
                       /\ u # t => n.tasks[u].dependencies
                                     = s.tasks[u].dependencies
  <2>1. \A u \in Tasks : ~Exists(s, u) => s.tasks[u].dependencies = {}
    BY DEF Unused, NoTask
  <2>2. \A u \in Tasks : Exists(s, u) =>
          \A e \in s.tasks[u].dependencies : Exists(s, e)
    BY SoundEach
  <2>3. \A u \in Tasks : s.tasks[u].dependencies \subseteq Tasks
    BY TaskOf DEF Task
  <2> QED  BY <1>1, <1>2, <2>1, <2>2, <2>3
<1>5. t \notin d  BY <1>1
<1>6. ASSUME NEW u \in Tasks, HasDependencyCycle(n, u)
      PROVE  \E v \in Tasks : /\ HasDependencyCycle(s, v)
                              /\ (v = u /\ u # t) \/ v \in d
  <2>1. PICK S \in SUBSET Tasks :
          u \in S /\ \A v \in S : n.tasks[v].dependencies \cap S # {}
    BY <1>6 DEF HasDependencyCycle
  <2> DEFINE R == S \ {t}
  <2>2. \A v \in R : s.tasks[v].dependencies \cap R # {}
    BY <1>4, <2>1
  <2>3. \A v \in R : HasDependencyCycle(s, v)
    BY <2>2 DEF HasDependencyCycle
  <2>4. CASE u # t  BY <2>1, <2>3, <2>4
  <2>5. CASE u = t
    <3>1. PICK v \in d : v \in S  BY <1>2, <1>3, <2>1, <2>5
    <3> QED  BY <1>5, <2>3, <2>5, <3>1
  <2> QED  BY <2>4, <2>5
<1>7. \A u \in Tasks : Exists(s, u) => Exists(n, u)
  BY <1>2, <1>3 DEF Exists
<1>8. ASSUME NEW u \in Tasks, Exists(n, u)
      PROVE  ~HasDependencyCycle(n, u)
  <2>1. u # t => Exists(s, u)  BY <1>2, <1>8 DEF Exists
  <2> QED  BY <1>1, <1>6, <2>1, SoundEach
<1>9. \A u \in Tasks \ {t} : ResultHolds(s, u) => ResultHolds(n, u)
  BY <1>2, ResultStays
<1>10. ResultHolds(n, t)  BY <1>2, <1>3 DEF ResultHolds
<1>11. \A u \in Tasks \ {t} : Exists(n, u) => Exists(s, u)
  BY <1>2 DEF Exists
<1>12. ASSUME NEW u \in Tasks, Exists(n, u)
       PROVE  /\ n.tasks[u].lane => n.tasks[u].laneRecipe # NoRecipe
              /\ ResultHolds(n, u)
              /\ \A e \in n.tasks[u].dependencies : Exists(n, e)
  <2>1. CASE u = t  BY <1>1, <1>2, <1>3, <1>7, <1>10, <2>1
  <2>2. CASE u # t
    BY <1>2, <1>4, <1>7, <1>9, <1>11, <1>12, <2>2, SoundEach
  <2> QED  BY <2>1, <2>2
<1> QED  BY <1>8, <1>12, SoundEach

LEMMA EditSound ==
  ASSUME NEW s \in State, NoTaskStoreErrors(s), NEW n,
         OperationSteps(s, n), NEW t \in Tasks, NEW d \in SUBSET Tasks,
         NEW lane \in BOOLEAN, NEW r \in Recipes \cup {NoRecipe},
         NEW text \in BOOLEAN, n \in Edit(s, t, d, lane, r, text)
  PROVE  NoTaskStoreErrors(n)
<1> DEFINE a == s.tasks[t]
           b == [a EXCEPT !.dependencies = d, !.lane = a.lane \/ lane,
                          !.laneRecipe = r]
           c == [b EXCEPT !.status = "open"]
           next == WithTask(s, t, b)
<1>1. /\ n = WithTask(s, t, b) \/ n = WithTask(s, t, c)
      /\ a.status \in {"open", "ready"}
      /\ \A e \in d : Exists(s, e)
      /\ b.lane => r # NoRecipe
      /\ d # a.dependencies => ~HasDependencyCycle(next, t)
  BY DEF Edit
<1>2. a \in Task  BY TaskOf
<1>3. /\ b.status = a.status /\ b.dependencies = d /\ b.laneRecipe = r
      /\ c.status = "open" /\ c.dependencies = d /\ c.laneRecipe = r
      /\ c.lane = b.lane
  BY <1>2 DEF Task
<1> HIDE DEF b, c
<1>4. PICK e \in {b, c} : n = WithTask(s, t, e)  BY <1>1
<1>5. /\ e.status \in {"open", "ready"} /\ e.dependencies = d
      /\ e.lane => e.laneRecipe # NoRecipe
  BY <1>1, <1>3
<1>6. n.tasks[t] = e /\ \A u \in Tasks \ {t} : n.tasks[u] = s.tasks[u]
  BY <1>4 DEF WithTask, State
<1>7. next.tasks[t] = b /\ \A u \in Tasks \ {t} : next.tasks[u] = s.tasks[u]
  BY DEF WithTask, State
<1>8. \A u \in Tasks : Exists(n, u) <=> Exists(s, u)
  BY <1>1, <1>5, <1>6 DEF Exists
<1>9. \A u \in Tasks :
        HasDependencyCycle(n, u) <=> HasDependencyCycle(next, u)
  BY <1>3, <1>5, <1>6, <1>7, SameGraph
<1>10. ASSUME NEW u \in Tasks, HasDependencyCycle(n, u)
       PROVE  HasDependencyCycle(s, u)
  <2>1. CASE d = a.dependencies
    BY <1>5, <1>6, <1>10, <2>1, SameGraph
  <2>2. CASE d # a.dependencies
    <3>1. ~HasDependencyCycle(n, t)  BY <1>1, <1>9, <2>2
    <3> QED  BY <1>6, <1>10, <3>1, CycleThrough
  <2> QED  BY <2>1, <2>2
<1>11. \A u \in Tasks \ {t} : ResultHolds(s, u) => ResultHolds(n, u)
  BY <1>6, ResultStays
<1>12. ResultHolds(n, t)  BY <1>5, <1>6 DEF ResultHolds
<1>13. ASSUME NEW u \in Tasks, Exists(n, u)
       PROVE  /\ n.tasks[u].lane => n.tasks[u].laneRecipe # NoRecipe
              /\ ResultHolds(n, u)
              /\ \A v \in n.tasks[u].dependencies : Exists(n, v)
  <2>1. \A v \in n.tasks[u].dependencies : v \in Tasks
    BY <1>5, <1>6, TaskOf DEF Task
  <2>2. CASE u = t  BY <1>1, <1>5, <1>6, <1>8, <1>12, <2>1, <2>2
  <2>3. CASE u # t
    BY <1>6, <1>8, <1>11, <1>13, <2>1, <2>3, SoundEach
  <2> QED  BY <2>2, <2>3
<1> QED  BY <1>8, <1>10, <1>13, SoundEach

LEMMA ObserveSound ==
  ASSUME NEW s \in State, NoTaskStoreErrors(s), NEW o \in Operations,
         NEW w, NEW e, NEW at, NEW n \in ObserveOperation(s, o, w, e, at)
  PROVE  NoTaskStoreErrors(n)
<1> DEFINE op == s.operations[o]
           t == op.task
           ended == Ended(s.tasks[t], "done")
           b == [ended EXCEPT !.result = [operation |-> o,
                                          object |-> op.object]]
<1>1. op.status = "prepared" /\ n = Observed(s, o)
        /\ s.tasks[t].status = "claimed"
  BY DEF ObserveOperation, OperationAuthorized, HoldsClaim
<1>2. op \in RecordedOperation  BY <1>1, PreparedIsRecorded
<1>3. t \in Tasks /\ op.object \in Objects  BY <1>2 DEF RecordedOperation
<1>4. s.tasks[t] \in Task  BY <1>3, TaskOf
<1>5. ended \in Task  BY <1>4, EndedType DEF Statuses
<1>6. /\ ended.status = "done"
      /\ ended.dependencies = s.tasks[t].dependencies
      /\ ended.lane = s.tasks[t].lane
      /\ ended.laneRecipe = s.tasks[t].laneRecipe
  BY <1>4 DEF Ended, Task
<1>7. /\ n.tasks = [s.tasks EXCEPT ![t] = b]
      /\ n.operations = [s.operations EXCEPT
                           ![o] = [op EXCEPT !.status = "observed"]]
  BY <1>1 DEF Observed, WithTask, State
<1> HIDE DEF ended
<1>8. /\ b.status = "done"
      /\ b.dependencies = s.tasks[t].dependencies
      /\ b.lane = s.tasks[t].lane
      /\ b.laneRecipe = s.tasks[t].laneRecipe
      /\ b.result.operation = o
      /\ b.result.object = op.object
  BY <1>5, <1>6 DEF Task
<1> HIDE DEF b
<1>9. n.tasks[t] = b /\ \A u \in Tasks \ {t} : n.tasks[u] = s.tasks[u]
  BY <1>3, <1>7 DEF State
<1>10. /\ n.operations[o].status = "observed"
       /\ n.operations[o].task = t
       /\ n.operations[o].object = op.object
  BY <1>2, <1>7 DEF State, RecordedOperation
<1>11. OperationSteps(s, n)
  BY ObserveOperationStep DEF OperationSteps
<1>12. \A u \in Tasks : Exists(n, u) <=> Exists(s, u)
  BY <1>1, <1>8, <1>9 DEF Exists
<1>13. \A u \in Tasks : n.tasks[u].dependencies = s.tasks[u].dependencies
  BY <1>8, <1>9
<1>14. \A u \in Tasks : HasDependencyCycle(n, u) <=> HasDependencyCycle(s, u)
  BY <1>13, SameGraph
<1>15. ResultHolds(n, t)  BY <1>8, <1>9, <1>10 DEF ResultHolds
<1>16. \A u \in Tasks \ {t} : ResultHolds(s, u) => ResultHolds(n, u)
  BY <1>9, <1>11, ResultStays
<1>17. \A u \in Tasks : /\ n.tasks[u].lane = s.tasks[u].lane
                        /\ n.tasks[u].laneRecipe = s.tasks[u].laneRecipe
  BY <1>8, <1>9
<1>18. \A u \in Tasks : s.tasks[u].dependencies \subseteq Tasks
  BY TaskOf DEF Task
<1> QED
  BY <1>12, <1>13, <1>14, <1>15, <1>16, <1>17, <1>18, SoundEach

\* No command breaks what `krn task check' asks for.
LEMMA CommandSound ==
  ASSUME NEW s \in State, Unused(s), NoTaskStoreErrors(s), NEW now \in Nat,
         NEW n, Command(s, n, now)
  PROVE  NoTaskStoreErrors(n)
<1>0. OperationSteps(s, n)  BY CommandOperations
<1>1. CASE Adds(s, n)  BY <1>0, <1>1, AddSound DEF Adds
<1>2. CASE Edits(s, n)  BY <1>0, <1>2, EditSound DEF Edits
<1>3. CASE Observes(s, n)  BY <1>3, ObserveSound DEF Observes
<1>4. CASE QuietCommand(s, n, now) /\ ~Adds(s, n) /\ ~Edits(s, n)
  BY <1>0, <1>4, CommandMoves, MoveSound, SameTasksSound
<1> QED  BY <1>1, <1>2, <1>3, <1>4 DEF Command

-----------------------------------------------------------------------------
(* What stands before a status: dependencies, proofs, gates and failures.   *)

GateHolds(a, b) ==
  "external" \in a.gates =>
    /\ "external" \in b.gates
    /\ a.status \in {"blocked", "in-review", "deferred"}
         => b.status \in {a.status, "done"}

BudgetHolds(a, b) ==
  /\ b.attempts >= a.attempts
  /\ b.attempts > a.attempts /\ b.attempts >= MaxAttempts
       => b.status = "blocked"
  /\ a.status = "blocked" => b.status \in {"blocked", "open", "done"}

ProvenBy(s, n, t) ==
  \E o \in Operations : /\ s.operations[o].status = "prepared"
                        /\ n.operations[o].status = "observed"
                        /\ s.operations[o].task = t

Earned(s, n, t) ==
  LET a == s.tasks[t]
      b == n.tasks[t]
  IN /\ a.status = "ready" /\ b.status = "claimed" => DependenciesDone(n, t)
     /\ a.lane => b.lane
     /\ a.lane /\ a.status # "done" /\ b.status = "done" => ProvenBy(s, n, t)
     /\ GateHolds(a, b)
     /\ BudgetHolds(a, b)

LEMMA SameTaskEarned ==
  ASSUME NEW s \in State, NEW n, NEW t \in Tasks, n.tasks[t] = s.tasks[t]
  PROVE  Earned(s, n, t)
<1>1. s.tasks[t].attempts \in Nat  BY TaskOf DEF Task
<1> QED  BY <1>1 DEF Earned, GateHolds, BudgetHolds

LEMMA MoveEarned ==
  ASSUME NEW s \in State, NEW n, NEW t \in Tasks, MoveStep(s, n, t),
         NEW u \in Tasks
  PROVE  Earned(s, n, u)
<1> DEFINE a == s.tasks[t]
<1>1. PICK b \in Task :
        /\ n.tasks = [s.tasks EXCEPT ![t] = b]
        /\ Moved(a, b)
        /\ a.status = "ready" /\ b.status = "claimed" => DependenciesDone(s, t)
  BY DEF MoveStep
<1>2. n.tasks[t] = b /\ \A v \in Tasks \ {t} : n.tasks[v] = s.tasks[v]
  BY <1>1 DEF State
<1>3. ASSUME a.status = "ready", b.status = "claimed"
      PROVE  DependenciesDone(n, t)
  <2>1. \A d \in a.dependencies : d \in Tasks /\ s.tasks[d].status = "done"
    BY <1>1, <1>3, TaskOf DEF DependenciesDone, Task
  <2>2. t \notin a.dependencies  BY <1>3, <2>1
  <2>3. b.dependencies = a.dependencies  BY <1>1 DEF Moved
  <2> QED  BY <1>2, <2>1, <2>2, <2>3 DEF DependenciesDone
<1>4. a.lane => b.lane /\ (b.status = "done" => a.status = "done")
  BY <1>1 DEF Moved, StatusStep
<1>5. GateHolds(a, b)  BY <1>1 DEF Moved, StatusStep, GateHolds
<1>6. BudgetHolds(a, b)  BY <1>1 DEF Moved, StatusStep, BudgetHolds
<1>7. CASE u = t  BY <1>2, <1>3, <1>4, <1>5, <1>6, <1>7 DEF Earned
<1>8. CASE u # t  BY <1>2, <1>8, SameTaskEarned
<1> QED  BY <1>7, <1>8

LEMMA AddEarned ==
  ASSUME NEW s \in State, Unused(s), NEW n, Adds(s, n), NEW u \in Tasks
  PROVE  Earned(s, n, u)
<1>1. PICK t \in Tasks, d \in SUBSET Tasks, lane \in BOOLEAN,
           r \in Recipes \cup {NoRecipe} : n \in Add(s, t, d, lane, r)
  BY DEF Adds
<1> DEFINE b == [NoTask EXCEPT !.status = "open", !.dependencies = d,
                               !.lane = lane, !.laneRecipe = r]
<1>2. n = WithTask(s, t, b) /\ s.tasks[t] = NoTask
  BY <1>1 DEF Add, Unused
<1>3. n.tasks[t] = b /\ \A v \in Tasks \ {t} : n.tasks[v] = s.tasks[v]
  BY <1>2 DEF WithTask, State
<1>4. b.status = "open" /\ b.attempts = 0  BY DEF NoTask
<1> HIDE DEF b
<1>5. NoTask.status = "absent" /\ NoTask.attempts = 0 /\ ~NoTask.lane
        /\ NoTask.gates = {}
  BY DEF NoTask
<1>6. CASE u = t
  BY <1>2, <1>3, <1>4, <1>5, <1>6 DEF Earned, GateHolds, BudgetHolds
<1>7. CASE u # t  BY <1>3, <1>7, SameTaskEarned
<1> QED  BY <1>6, <1>7

LEMMA EditEarned ==
  ASSUME NEW s \in State, NEW n, Edits(s, n), NEW u \in Tasks
  PROVE  Earned(s, n, u)
<1>1. PICK t \in Tasks, d \in SUBSET Tasks, lane \in BOOLEAN,
           r \in Recipes \cup {NoRecipe}, text \in BOOLEAN :
        n \in Edit(s, t, d, lane, r, text)
  BY DEF Edits
<1> DEFINE a == s.tasks[t]
           b == [a EXCEPT !.dependencies = d, !.lane = a.lane \/ lane,
                          !.laneRecipe = r]
           c == [b EXCEPT !.status = "open"]
<1>2. /\ n = WithTask(s, t, b) \/ n = WithTask(s, t, c)
      /\ a.status \in {"open", "ready"}
  BY <1>1 DEF Edit
<1>3. a \in Task  BY TaskOf
<1>4. /\ b.status = a.status /\ c.status = "open"
      /\ b.gates = a.gates /\ c.gates = a.gates
      /\ b.attempts = a.attempts /\ c.attempts = a.attempts
      /\ a.lane => b.lane /\ c.lane
  BY <1>3 DEF Task
<1> HIDE DEF b, c
<1>5. PICK e \in {b, c} : n = WithTask(s, t, e)  BY <1>2
<1>6. n.tasks[t] = e /\ \A v \in Tasks \ {t} : n.tasks[v] = s.tasks[v]
  BY <1>5 DEF WithTask, State
<1>7. a.attempts \in Nat  BY <1>3 DEF Task
<1>8. /\ e.status \in {a.status, "open"} /\ e.gates = a.gates
      /\ e.attempts = a.attempts /\ (a.lane => e.lane)
  BY <1>4
<1>9. CASE u = t
  <2>1. n.tasks[u] = e /\ s.tasks[u] = a  BY <1>6, <1>9
  <2>2. e.status \in {"open", "ready"}  BY <1>2, <1>8
  <2>3. GateHolds(a, e)  BY <1>2, <1>8 DEF GateHolds
  <2>4. BudgetHolds(a, e)  BY <1>2, <1>7, <1>8 DEF BudgetHolds
  <2> HIDE DEF a
  <2> QED  BY <1>8, <2>1, <2>2, <2>3, <2>4 DEF Earned
<1>10. CASE u # t  BY <1>6, <1>10, SameTaskEarned
<1> QED  BY <1>9, <1>10

LEMMA ObserveEarned ==
  ASSUME NEW s \in State, NEW n, Observes(s, n), NEW u \in Tasks
  PROVE  Earned(s, n, u)
<1>1. PICK o \in Operations, w \in Workers, e \in Nat, at \in Nat :
        n \in ObserveOperation(s, o, w, e, at)
  BY DEF Observes
<1> DEFINE op == s.operations[o]
           t == op.task
           ended == Ended(s.tasks[t], "done")
           b == [ended EXCEPT !.result = [operation |-> o,
                                          object |-> op.object]]
<1>2. op.status = "prepared" /\ n = Observed(s, o)
        /\ s.tasks[t].status = "claimed"
  BY <1>1 DEF ObserveOperation, OperationAuthorized, HoldsClaim
<1>3. op \in RecordedOperation  BY <1>2, PreparedIsRecorded
<1>4. t \in Tasks  BY <1>3 DEF RecordedOperation
<1>5. s.tasks[t] \in Task  BY <1>4, TaskOf
<1>6. ended \in Task  BY <1>5, EndedType DEF Statuses
<1>7. /\ ended.status = "done" /\ ended.lane = s.tasks[t].lane
      /\ ended.gates = s.tasks[t].gates
      /\ ended.attempts = s.tasks[t].attempts
  BY <1>5 DEF Ended, Task
<1>8. /\ n.tasks = [s.tasks EXCEPT ![t] = b]
      /\ n.operations = [s.operations EXCEPT
                           ![o] = [op EXCEPT !.status = "observed"]]
  BY <1>2 DEF Observed, WithTask, State
<1> HIDE DEF ended
<1>9. /\ b.status = "done" /\ b.lane = s.tasks[t].lane
      /\ b.gates = s.tasks[t].gates /\ b.attempts = s.tasks[t].attempts
  BY <1>6, <1>7 DEF Task
<1> HIDE DEF b
<1>10. n.tasks[t] = b /\ \A v \in Tasks \ {t} : n.tasks[v] = s.tasks[v]
  BY <1>4, <1>8 DEF State
<1>11. n.operations[o].status = "observed"
  BY <1>3, <1>8 DEF State, RecordedOperation
<1>12. ProvenBy(s, n, t)  BY <1>2, <1>11 DEF ProvenBy
<1>13. s.tasks[t].attempts \in Nat  BY <1>5 DEF Task
<1>14. CASE u = t
  <2>1. GateHolds(s.tasks[t], b)  BY <1>2, <1>9 DEF GateHolds
  <2>2. BudgetHolds(s.tasks[t], b)  BY <1>2, <1>9, <1>13 DEF BudgetHolds
  <2> HIDE DEF t
  <2>3. Earned(s, n, t)
    BY <1>2, <1>9, <1>10, <1>12, <2>1, <2>2 DEF Earned
  <2> QED  BY <1>14, <2>3
<1>15. CASE u # t  BY <1>10, <1>15, SameTaskEarned
<1> QED  BY <1>14, <1>15

\* No command gives a task a status it has not earned.
LEMMA CommandEarned ==
  ASSUME NEW s \in State, Unused(s), NEW now \in Nat, NEW n,
         Command(s, n, now), NEW u \in Tasks
  PROVE  Earned(s, n, u)
<1>1. CASE Adds(s, n)  BY <1>1, AddEarned
<1>2. CASE Edits(s, n)  BY <1>2, EditEarned
<1>3. CASE Observes(s, n)  BY <1>3, ObserveEarned
<1>4. CASE QuietCommand(s, n, now) /\ ~Adds(s, n) /\ ~Edits(s, n)
  BY <1>4, CommandMoves, MoveEarned, SameTaskEarned
<1> QED  BY <1>1, <1>2, <1>3, <1>4 DEF Command

=============================================================================
