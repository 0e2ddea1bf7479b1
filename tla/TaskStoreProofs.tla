-------------------------- MODULE TaskStoreProofs --------------------------
(***************************************************************************)
(* The task store implements the task queue: for any number of clients and *)
(* any tasks, workers, operations and refs, what concurrent commands do is *)
(* what the same commands do one at a time.                                *)
(***************************************************************************)
EXTENDS TaskStore, TaskStateProofs

USE DEF NoLease, NoResult, NoRecovery

-----------------------------------------------------------------------------
(* The commands of TaskQueue are those of TaskState. *)

LEMMA QueueAdd ==
  ASSUME NEW s, NEW t, NEW d, NEW lane, NEW r
  PROVE  Queue!Add(s, t, d, lane, r) = Add(s, t, d, lane, r)
BY DEF Add, Queue!Add, Exists, Queue!Exists, WithTask, Queue!WithTask,
       NoTask, Queue!NoTask, NoLease, Queue!NoLease, NoResult,
       Queue!NoResult

LEMMA QueueMarkReady ==
  ASSUME NEW s, NEW t, NEW b
  PROVE  Queue!MarkReady(s, t, b) = MarkReady(s, t, b)
BY DEF MarkReady, Queue!MarkReady, HasDependencyCycle,
       Queue!HasDependencyCycle, DependenciesDone, Queue!DependenciesDone,
       WithTask, Queue!WithTask

LEMMA QueueEdit ==
  ASSUME NEW s, NEW t, NEW d, NEW lane, NEW r, NEW text
  PROVE  Queue!Edit(s, t, d, lane, r, text) = Edit(s, t, d, lane, r, text)
BY DEF Edit, Queue!Edit, Exists, Queue!Exists, HasDependencyCycle,
       Queue!HasDependencyCycle, DependenciesDone, Queue!DependenciesDone,
       WithTask, Queue!WithTask

LEMMA QueueClaim ==
  ASSUME NEW s, NEW t, NEW w, NEW at, NEW dur
  PROVE  Queue!Claim(s, t, w, at, dur) = Claim(s, t, w, at, dur)
BY DEF Claim, Queue!Claim, DependenciesDone, Queue!DependenciesDone,
       WithTask, Queue!WithTask, Granted, Queue!Granted

LEMMA QueueClaimReady ==
  ASSUME NEW s, NEW w, NEW at, NEW dur
  PROVE  Queue!ClaimReady(s, w, at, dur) = ClaimReady(s, w, at, dur)
BY DEF ClaimReady, Queue!ClaimReady, ReadyTasks, Queue!ReadyTasks,
       DependenciesDone, Queue!DependenciesDone, WithTask, Queue!WithTask,
       Granted, Queue!Granted

LEMMA QueueRenewClaim ==
  ASSUME NEW s, NEW t, NEW w, NEW e, NEW at, NEW dur
  PROVE  Queue!RenewClaim(s, t, w, e, at, dur) = RenewClaim(s, t, w, e, at, dur)
BY DEF RenewClaim, Queue!RenewClaim, HoldsClaim, Queue!HoldsClaim,
       LeaseExpired, Queue!LeaseExpired, WithTask, Queue!WithTask

LEMMA QueueTakeover ==
  ASSUME NEW s, NEW t, NEW w, NEW e, NEW at, NEW dur
  PROVE  Queue!Takeover(s, t, w, e, at, dur) = Takeover(s, t, w, e, at, dur)
BY DEF Takeover, Queue!Takeover, LeaseExpired, Queue!LeaseExpired, WithTask,
       Queue!WithTask, Granted, Queue!Granted

LEMMA QueueComment ==
  ASSUME NEW s, NEW t, NEW w, NEW e
  PROVE  Queue!Comment(s, t, w, e) = Comment(s, t, w, e)
BY DEF Comment, Queue!Comment, HoldsClaim, Queue!HoldsClaim, WithTask,
       Queue!WithTask

LEMMA QueueClose ==
  ASSUME NEW s, NEW t, NEW w, NEW b, NEW e, NEW r
  PROVE  Queue!Close(s, t, w, b, e, r) = Close(s, t, w, b, e, r)
BY DEF Close, Queue!Close, HoldsClaim, Queue!HoldsClaim, WithTask,
       Queue!WithTask, Ended, Queue!Ended, NoLease, Queue!NoLease, NoResult,
       Queue!NoResult

LEMMA QueueReopen ==
  ASSUME NEW s, NEW t
  PROVE  Queue!Reopen(s, t) = Reopen(s, t)
BY DEF Reopen, Queue!Reopen, WithTask, Queue!WithTask, Ended, Queue!Ended,
       NoLease, Queue!NoLease

LEMMA QueueResume ==
  ASSUME NEW s, NEW t, NEW st, NEW e
  PROVE  Queue!Resume(s, t, st, e) = Resume(s, t, st, e)
BY DEF Resume, Queue!Resume, WithTask, Queue!WithTask, Ended, Queue!Ended,
       NoLease, Queue!NoLease

LEMMA QueueRelease ==
  ASSUME NEW s, NEW t, NEW w, NEW e
  PROVE  Queue!Release(s, t, w, e) = Release(s, t, w, e)
BY DEF Release, Queue!Release, HoldsClaim, Queue!HoldsClaim, WithTask,
       Queue!WithTask, Ended, Queue!Ended, NoLease, Queue!NoLease

LEMMA QueueRecordFailure ==
  ASSUME NEW s, NEW t, NEW w, NEW e
  PROVE  Queue!RecordFailure(s, t, w, e) = RecordFailure(s, t, w, e)
BY DEF RecordFailure, Queue!RecordFailure, HoldsClaim, Queue!HoldsClaim,
       WithTask, Queue!WithTask, Ended, Queue!Ended, NoLease, Queue!NoLease

LEMMA QueueSetIntentRevision ==
  ASSUME NEW s, NEW i, NEW rev, NEW e
  PROVE  Queue!SetIntentRevision(s, i, rev, e) = SetIntentRevision(s, i, rev, e)
BY DEF SetIntentRevision, Queue!SetIntentRevision

LEMMA QueuePrepareOperation ==
  ASSUME NEW s, NEW o, NEW t, NEW w, NEW e, NEW r, NEW x, NEW y, NEW i, NEW
         rev
  PROVE  Queue!PrepareOperation(s, o, t, w, e, r, x, y, i, rev) = PrepareOperation(s, o, t, w, e, r, x, y, i, rev)
BY DEF PrepareOperation, Queue!PrepareOperation, HoldsClaim,
       Queue!HoldsClaim, IntentCurrent, Queue!IntentCurrent, NoRecovery,
       Queue!NoRecovery

LEMMA QueueObserveOperation ==
  ASSUME NEW s, NEW o, NEW w, NEW e, NEW at
  PROVE  Queue!ObserveOperation(s, o, w, e, at) = ObserveOperation(s, o, w, e, at)
BY DEF ObserveOperation, Queue!ObserveOperation, OperationAuthorized,
       Queue!OperationAuthorized, Observed, Queue!Observed, HoldsClaim,
       Queue!HoldsClaim, IntentCurrent, Queue!IntentCurrent, LeaseExpired,
       Queue!LeaseExpired, WithTask, Queue!WithTask, Ended, Queue!Ended,
       NoLease, Queue!NoLease

-----------------------------------------------------------------------------
(***************************************************************************)
(* What a client has in hand.  Between its read and its commit a job keeps  *)
(* the snapshot it read, and the next one it computed from it by a command. *)
(* None of this mentions the queue, which other clients change meanwhile.   *)
(***************************************************************************)

\* A snapshot as the queue ref has held it at some time.
Readable(s) == s \in State /\ WellFormed(s) /\ Unused(s)

\* The grants of worker w, and the commands with a bound of the model.
Grants(s, n, w, now) ==
  \E t \in Tasks, at \in 0..now, dur \in Durations :
    \/ n \in Claim(s, t, w, at, dur)
    \/ n \in ClaimReady(s, w, at, dur)
    \/ \E e \in Nat : n \in Takeover(s, t, w, e, at, dur)

ClosesByHand(s, n) ==
  \E t \in Tasks, w \in Workers, b \in BOOLEAN, e \in Nat :
    n \in Close(s, t, w, b, e, NoRecipe)

Revises(s, n) ==
  \E i \in Intents, rev \in 1..MaxRevision, e \in Nat :
    n \in SetIntentRevision(s, i, rev, e)

Records(s, n) ==
  \E o \in Operations, t \in Tasks, w \in Workers, e \in Nat,
     r \in EffectRefs, x \in Objects, y \in Objects \cup {NoObject},
     i \in Intents, rev \in 1..MaxRevision :
    n \in PrepareOperation(s, o, t, w, e, r, x, y, i, rev)

\* The snapshots that keep every generation.
KeepsGrants(s, n, now) ==
  \/ Adds(s, n) \/ MarksReady(s, n) \/ Edits(s, n) \/ Renews(s, n, now)
  \/ Comments(s, n) \/ ClosesByHand(s, n) \/ Reopens(s, n) \/ Resumes(s, n)
  \/ Releases(s, n) \/ RecordsFailure(s, n) \/ Revises(s, n) \/ Records(s, n)

\* What a job of phase commit or claimReady may write for worker w.
StoreWrite(s, n, w, now) == Grants(s, n, w, now) \/ KeepsGrants(s, n, now)

\* An operation about to be observed, and the effect that goes with it.
EffectJob(j, now) ==
  /\ j.phase \in {"apply", "complete", "readback", "move", "verify"}
  /\ Readable(j.prev)
  /\ j.operation \in Operations
  /\ j.worker \in Workers
  /\ j.epoch \in Nat
  /\ \E at \in 0..now :
       j.next \in ObserveOperation(j.prev, j.operation, j.worker, j.epoch, at)
  /\ j.ref = j.prev.operations[j.operation].ref
  /\ j.object = j.prev.operations[j.operation].object

\* A close whose proof was verified at the branch and recipe the job names.
ProvenJob(j, w) ==
  /\ j.phase \in {"proof", "verify"}
  /\ j.task \in Tasks
  /\ j.epoch \in Nat
  /\ j.ref \in EffectRefs
  /\ j.object # NoObject
  /\ j.recipe \in Recipes
  /\ j.phase = "verify" =>
       /\ Readable(j.prev)
       /\ j.next \in Close(j.prev, j.task, w, TRUE, j.epoch, j.recipe)

PrepareJob(j) ==
  /\ j.phase = "prepare"
  /\ Readable(j.prev)
  /\ j.operation \in Operations
  /\ j.request \in RecordedOperation
  /\ j.request.revision \in 1..MaxRevision

WriteJob(j, w, now) ==
  /\ j.phase \in {"commit", "claimReady"}
  /\ Readable(j.prev)
  /\ StoreWrite(j.prev, j.next, w, now)

JobOK(j, w, now) ==
  \/ j.phase = "idle"
  \/ WriteJob(j, w, now)
  \/ PrepareJob(j)
  \/ EffectJob(j, now)
  \/ ProvenJob(j, w)

TypeOK ==
  /\ queue \in State
  /\ refs \in [EffectRefs -> Objects \cup {NoObject}]
  /\ clock \in Nat
  /\ job \in [Clients -> Job]
  /\ told \in [Clients -> [Tasks -> Nat]]

StoreInv ==
  /\ TypeOK
  /\ Readable(queue)
  /\ \A c \in Clients : JobOK(job[c], WorkerOf[c], clock)

-----------------------------------------------------------------------------
(* Facts about jobs. *)

LEMMA StoreWriteCommand ==
  ASSUME NEW s, NEW n, NEW w \in Workers, NEW now, StoreWrite(s, n, w, now)
  PROVE  QuietCommand(s, n, now)
<1>r. 1..MaxRevision \subseteq Nat  BY ScenariosAssumption
<1>1. CASE Grants(s, n, w, now)
  BY <1>1 DEF Grants, ClaimsNamed, ClaimsReady, TakesOver, QuietCommand
<1>2. CASE ClosesByHand(s, n)
  BY <1>2 DEF ClosesByHand, Closes, QuietCommand
<1>3. CASE Revises(s, n)
  BY <1>3, <1>r DEF Revises, SetsIntent, QuietCommand
<1>4. CASE Records(s, n)
  BY <1>4, <1>r DEF Records, Prepares, QuietCommand
<1> QED
  BY <1>1, <1>2, <1>3, <1>4 DEF StoreWrite, KeepsGrants, QuietCommand

\* What a job may write is a command on what it read.
LEMMA JobCommand ==
  ASSUME NEW j, NEW w \in Workers, NEW now \in Nat, JobOK(j, w, now),
         j.phase \in {"commit", "claimReady", "move", "verify"}
  PROVE  Readable(j.prev) /\ Command(j.prev, j.next, now)
<1>1. CASE WriteJob(j, w, now)
  BY <1>1, StoreWriteCommand DEF WriteJob, Command
<1>2. CASE EffectJob(j, now)
  <2>1. PICK at \in 0..now :
          j.next \in ObserveOperation(j.prev, j.operation, j.worker, j.epoch,
                                      at)
    BY <1>2 DEF EffectJob
  <2>2. at \in Nat  OBVIOUS
  <2> QED  BY <1>2, <2>1, <2>2 DEF EffectJob, Command, Observes
<1>3. CASE ProvenJob(j, w)
  BY <1>3 DEF ProvenJob, Command, QuietCommand, Closes
<1> QED  BY <1>1, <1>2, <1>3 DEF JobOK, PrepareJob

\* What another client or the environment does leaves a job as good as it was.
LEMMA JobLater ==
  ASSUME NEW j, NEW w, NEW now \in Nat, NEW later \in Nat, now <= later,
         JobOK(j, w, now)
  PROVE  JobOK(j, w, later)
<1>0. 0..now \subseteq 0..later  OBVIOUS
<1>1. CASE WriteJob(j, w, now)
  <2>1. Grants(j.prev, j.next, w, now) => Grants(j.prev, j.next, w, later)
    BY <1>0 DEF Grants
  <2>2. Renews(j.prev, j.next, now) => Renews(j.prev, j.next, later)
    BY <1>0 DEF Renews
  <2> QED
    BY <1>1, <2>1, <2>2 DEF WriteJob, StoreWrite, KeepsGrants, JobOK
<1>2. CASE EffectJob(j, now)  BY <1>0, <1>2 DEF EffectJob, JobOK
<1> QED  BY <1>1, <1>2 DEF JobOK

\* A committed snapshot is one the next command can read.
LEMMA ReadableNext ==
  ASSUME NEW s, Readable(s), NEW now \in Nat, NEW n, Command(s, n, now),
         NEW v \in Nat
  PROVE  Readable(n) /\ Readable([n EXCEPT !.version = v])
<1>1. n \in State  BY CommandType DEF Readable
<1>2. ClaimSteps(s, n, now)  BY CommandClaims DEF Readable
<1>3. WellFormed(n)  BY <1>2 DEF ClaimSteps, ClaimStep, WellFormed
<1>4. Unused(n)
  BY <1>2 DEF ClaimSteps, ClaimStep, Unused, Readable, Exists
<1> DEFINE m == [n EXCEPT !.version = v]
<1>5. m \in State /\ m.tasks = n.tasks  BY <1>1 DEF State
<1> HIDE DEF m
<1>6. WellFormed(m) /\ Unused(m)
  BY <1>3, <1>4, <1>5 DEF WellFormed, Unused, Exists
<1> QED  BY <1>1, <1>3, <1>4, <1>5, <1>6 DEF Readable, m

-----------------------------------------------------------------------------
(* Steps of a client keep what is in hand. *)

LEMMA NoJobType == NoJob \in Job
<1>1. EmptyState \in State
  BY DEF EmptyState, State, NoTask, Task, Lease, Result, Statuses, Operation
<1> QED  BY <1>1 DEF NoJob, Job, Phases, Operation

\* A step that only gives a client another job.
LEMMA SetJobInv ==
  ASSUME StoreInv, NEW c \in Clients, NEW j \in Job,
         JobOK(j, WorkerOf[c], clock), SetJob(c, j),
         UNCHANGED <<queue, refs, clock, told>>
  PROVE  StoreInv'
<1>1. /\ job' \in [Clients -> Job]
      /\ \A d \in Clients : job'[d] = IF d = c THEN j ELSE job[d]
  BY DEF SetJob, StoreInv, TypeOK
<1>2. TypeOK'  BY <1>1 DEF StoreInv, TypeOK
<1>3. \A d \in Clients : JobOK(job'[d], WorkerOf[d], clock')
  BY <1>1 DEF StoreInv
<1> QED  BY <1>2, <1>3 DEF StoreInv

LEMMA DoneInv ==
  ASSUME StoreInv, NEW c \in Clients, Done(c),
         UNCHANGED <<queue, refs, clock, told>>
  PROVE  StoreInv'
BY NoJobType, SetJobInv DEF Done, NoJob, JobOK

\* The first step of a queue-only command, and a try of claimReady.
LEMMA WriteJobOK ==
  ASSUME StoreInv, NEW c \in Clients, NEW n,
         StoreWrite(queue, n, WorkerOf[c], clock), NEW a \in Nat, NEW j,
         \/ j = [NoJob EXCEPT !.phase = "commit", !.prev = queue, !.next = n]
         \/ j = [NoJob EXCEPT !.phase = "claimReady", !.prev = queue,
                              !.next = n, !.attempt = a]
  PROVE  j \in Job /\ JobOK(j, WorkerOf[c], clock)
<1>0. WorkerOf[c] \in Workers  BY ClientsAssumption
<1>1. n \in State
  BY <1>0, StoreWriteCommand, CommandType DEF Command, StoreInv, TypeOK
<1>2. j \in Job
  <2>1. queue \in State  BY DEF StoreInv, TypeOK
  <2>2. "commit" \in Phases /\ "claimReady" \in Phases  BY DEF Phases
  <2>3. CASE j = [NoJob EXCEPT !.phase = "commit", !.prev = queue, !.next = n]
    BY <1>1, <2>1, <2>2, <2>3, NoJobType DEF Job
  <2>4. CASE j = [NoJob EXCEPT !.phase = "claimReady", !.prev = queue,
                               !.next = n, !.attempt = a]
    BY <1>1, <2>1, <2>2, <2>4, NoJobType DEF Job
  <2> QED  BY <2>3, <2>4
<1>3. j.phase \in {"commit", "claimReady"} /\ j.prev = queue /\ j.next = n
  BY DEF NoJob
<1>4. JobOK(j, WorkerOf[c], clock)
  BY <1>3 DEF JobOK, WriteJob, StoreInv
<1> QED  BY <1>2, <1>4

LEMMA BeginInv ==
  ASSUME StoreInv, NEW c \in Clients, NEW command, NEW nexts,
         Begin(c, command, nexts),
         \A n \in nexts : StoreWrite(queue, n, WorkerOf[c], clock)
  PROVE  StoreInv'
<1>1. PICK n \in nexts :
        SetJob(c, [NoJob EXCEPT !.phase = "commit", !.prev = queue,
                                !.next = n])
  BY DEF Begin
<1> DEFINE j == [NoJob EXCEPT !.phase = "commit", !.prev = queue, !.next = n]
<1>2. j \in Job /\ JobOK(j, WorkerOf[c], clock)  BY WriteJobOK
<1> QED  BY <1>1, <1>2, SetJobInv DEF Begin

LEMMA TryClaimReadyInv ==
  ASSUME StoreInv, NEW c \in Clients, NEW a \in Nat, NEW at \in 0..clock,
         NEW dur \in Durations, TryClaimReady(c, a, at, dur),
         UNCHANGED <<queue, refs, clock, told>>
  PROVE  StoreInv'
<1>1. PICK n \in ClaimReady(queue, WorkerOf[c], at, dur) :
        SetJob(c, [NoJob EXCEPT !.phase = "claimReady", !.prev = queue,
                                !.next = n, !.attempt = a])
  BY DEF TryClaimReady
<1> DEFINE j == [NoJob EXCEPT !.phase = "claimReady", !.prev = queue,
                              !.next = n, !.attempt = a]
<1>2. PICK t \in Tasks : TRUE
  BY <1>1 DEF ClaimReady, ReadyTasks
<1>3. StoreWrite(queue, n, WorkerOf[c], clock)
  BY <1>1, <1>2 DEF StoreWrite, Grants
<1>4. j \in Job /\ JobOK(j, WorkerOf[c], clock)  BY <1>3, WriteJobOK
<1> QED  BY <1>1, <1>4, SetJobInv

\* The one step of a client that changes the queue.
LEMMA CommitInv ==
  ASSUME StoreInv, NEW c \in Clients, CompareAndSwap(c), Done(c),
         job[c].phase \in {"commit", "claimReady", "move", "verify"},
         clock' = clock,
         refs' \in [EffectRefs -> Objects \cup {NoObject}],
         told' \in [Clients -> [Tasks -> Nat]]
  PROVE  StoreInv'
<1> DEFINE v == job[c].prev.version + 1
<1>0. WorkerOf[c] \in Workers  BY ClientsAssumption
<1>1. Readable(job[c].prev) /\ Command(job[c].prev, job[c].next, clock)
  BY <1>0, JobCommand DEF StoreInv, TypeOK
<1>2. v \in Nat  BY <1>1 DEF Readable, State
<1>3. Readable(queue')
  BY <1>1, <1>2, ReadableNext DEF CompareAndSwap, StoreInv, TypeOK
<1>4. /\ job' \in [Clients -> Job]
      /\ \A d \in Clients : job'[d] = IF d = c THEN NoJob ELSE job[d]
  BY NoJobType DEF Done, SetJob, StoreInv, TypeOK
<1>5. TypeOK'  BY <1>3, <1>4 DEF StoreInv, TypeOK, Readable
<1>6. \A d \in Clients : JobOK(job'[d], WorkerOf[d], clock')
  BY <1>4 DEF StoreInv, JobOK, NoJob
<1> QED  BY <1>3, <1>5, <1>6 DEF StoreInv

\* The steps in which a queue-only command reads and decides.
BeginsWrite(c) ==
  \/ BeginAdd(c) \/ BeginMarkReady(c) \/ BeginEdit(c) \/ BeginClaim(c)
  \/ BeginRenewClaim(c) \/ BeginTakeover(c) \/ BeginComment(c)
  \/ BeginClose(c) \/ BeginReopen(c) \/ BeginResume(c) \/ BeginRelease(c)
  \/ BeginRecordFailure(c) \/ BeginSetIntentRevision(c)

LEMMA BeginsWriteInv ==
  ASSUME StoreInv, NEW c \in Clients, BeginsWrite(c)
  PROVE  StoreInv'
<1> DEFINE W(n) == StoreWrite(queue, n, WorkerOf[c], clock)
<1>0. WorkerOf[c] \in Workers  BY ClientsAssumption
<1>t. \A at \in Times : at \in 0..clock  BY DEF Times
<1>e. \A t \in Tasks : /\ queue.tasks[t].epoch \in Nat
                       /\ queue.tasks[t].status \in Statuses
                       /\ told[c][t] \in Nat
  BY TaskOf DEF Task, TypeOK, StoreInv
<1>i. \A i \in Intents : queue.intents[i] \in Nat
  BY DEF State, TypeOK, StoreInv
<1>b. ASSUME NEW command, NEW nexts, Begin(c, command, nexts),
             \A n \in nexts : W(n)
      PROVE  StoreInv'
  BY <1>b, BeginInv
<1> HIDE DEF W
<1>k. ASSUME NEW n, KeepsGrants(queue, n, clock)  PROVE W(n)
  BY <1>k DEF W, StoreWrite
<1>g. ASSUME NEW n, Grants(queue, n, WorkerOf[c], clock)  PROVE W(n)
  BY <1>g DEF W, StoreWrite
<1>1. CASE BeginAdd(c)
  BY <1>1, <1>b, <1>k, Zenon DEF BeginAdd, KeepsGrants, Adds
<1>2. CASE BeginMarkReady(c)
  BY <1>2, <1>b, <1>k, Zenon DEF BeginMarkReady, KeepsGrants, MarksReady
<1>3. CASE BeginEdit(c)
  <2>1. PICK t \in Tasks, d \in SUBSET Tasks, lane \in BOOLEAN,
             r \in Recipes \cup {NoRecipe}, text \in BOOLEAN :
          Begin(c, "edit", Edit(queue, t, d, lane, r, text))
    BY <1>3 DEF BeginEdit
  <2>2. \A n \in Edit(queue, t, d, lane, r, text) : Edits(queue, n)
    BY DEF Edits
  <2> QED  BY <2>1, <2>2, <1>b, <1>k, Zenon DEF KeepsGrants
<1>4. CASE BeginClaim(c)
  <2>1. PICK t \in Tasks, at \in 0..clock, dur \in Durations :
          Begin(c, "claim", Claim(queue, t, WorkerOf[c], at, dur))
    BY <1>4, <1>t DEF BeginClaim
  <2>2. \A n \in Claim(queue, t, WorkerOf[c], at, dur) :
          Grants(queue, n, WorkerOf[c], clock)
    BY Zenon DEF Grants
  <2> QED  BY <2>1, <2>2, <1>b, <1>g, Zenon
<1>5. CASE BeginRenewClaim(c)
  <2>1. PICK t \in Tasks, at \in 0..clock, dur \in Durations :
          Begin(c, "renewClaim",
                RenewClaim(queue, t, WorkerOf[c], told[c][t], at, dur))
    BY <1>5, <1>t DEF BeginRenewClaim
  <2>2. \A n \in RenewClaim(queue, t, WorkerOf[c], told[c][t], at, dur) :
          Renews(queue, n, clock)
    BY <1>0, <1>e DEF Renews
  <2> QED  BY <2>1, <2>2, <1>b, <1>k, Zenon DEF KeepsGrants
<1>6. CASE BeginTakeover(c)
  <2>1. PICK t \in Tasks, at \in 0..clock, dur \in Durations :
          Begin(c, "takeover",
                Takeover(queue, t, WorkerOf[c], queue.tasks[t].epoch, at, dur))
    BY <1>6, <1>t DEF BeginTakeover
  <2>2. \A n \in Takeover(queue, t, WorkerOf[c], queue.tasks[t].epoch, at,
                          dur) : Grants(queue, n, WorkerOf[c], clock)
    BY <1>e DEF Grants
  <2> QED  BY <2>1, <2>2, <1>b, <1>g, Zenon
<1>7. CASE BeginComment(c)
  BY <1>0, <1>7, <1>e, <1>b, <1>k, Zenon
     DEF BeginComment, KeepsGrants, Comments
<1>8. CASE BeginClose(c)
  BY <1>0, <1>8, <1>e, <1>b, <1>k, Zenon
     DEF BeginClose, KeepsGrants, ClosesByHand
<1>9. CASE BeginReopen(c)
  BY <1>9, <1>b, <1>k, Zenon DEF BeginReopen, KeepsGrants, Reopens
<1>10. CASE BeginResume(c)
  BY <1>10, <1>e, <1>b, <1>k, Zenon DEF BeginResume, KeepsGrants, Resumes
<1>11. CASE BeginRelease(c)
  BY <1>0, <1>11, <1>e, <1>b, <1>k, Zenon
     DEF BeginRelease, KeepsGrants, Releases
<1>12. CASE BeginRecordFailure(c)
  BY <1>0, <1>12, <1>e, <1>b, <1>k, Zenon
     DEF BeginRecordFailure, KeepsGrants, RecordsFailure
<1>13. CASE BeginSetIntentRevision(c)
  BY <1>13, <1>i, <1>b, <1>k, Zenon
     DEF BeginSetIntentRevision, KeepsGrants, Revises
<1> QED
  BY <1>1, <1>2, <1>3, <1>4, <1>5, <1>6, <1>7, <1>8, <1>9, <1>10, <1>11,
     <1>12, <1>13 DEF BeginsWrite

LEMMA ClaimReadyInv ==
  ASSUME StoreInv, NEW c \in Clients, BeginClaimReady(c) \/ RetryClaimReady(c)
  PROVE  StoreInv'
<1>1. CASE BeginClaimReady(c)
  BY <1>1, TryClaimReadyInv DEF BeginClaimReady, Times
<1>2. CASE RetryClaimReady(c)
  <2>1. job[c].attempt + 1 \in Nat  BY DEF StoreInv, TypeOK, Job
  <2>2. CASE Done(c)  BY <1>2, <2>2, DoneInv DEF RetryClaimReady
  <2>3. CASE \E at \in Times, dur \in Durations :
               TryClaimReady(c, job[c].attempt + 1, at, dur)
    BY <1>2, <2>1, <2>3, TryClaimReadyInv DEF RetryClaimReady, Times
  <2> QED  BY <1>2, <2>2, <2>3 DEF RetryClaimReady
<1> QED  BY <1>1, <1>2

\* The claim an operation is prepared for is held, so it has an owner.
LEMMA PrepareHolds ==
  ASSUME NEW s, Readable(s), NEW o, NEW t \in Tasks, NEW w, NEW e, NEW r,
         NEW x, NEW y, NEW i, NEW rev,
         PrepareOperation(s, o, t, w, e, r, x, y, i, rev) # {}
  PROVE  w \in Workers /\ e \in Nat /\ i \in Intents /\ e = s.tasks[t].epoch
<1>1. HoldsClaim(s, t, w, e) /\ i \in Intents
  BY DEF PrepareOperation, IntentCurrent
<1>2. ClaimWellFormed(s.tasks[t]) /\ s.tasks[t] \in Task
  BY TaskOf DEF Readable, WellFormed
<1> QED  BY <1>1, <1>2 DEF HoldsClaim, ClaimWellFormed, Task

\* The operation a prepare asks for, and the job that carries it.
Requested(t, r, x, i, rev) ==
  [status |-> "prepared", task |-> t, owner |-> queue.tasks[t].owner,
   epoch |-> queue.tasks[t].epoch, ref |-> r, object |-> x,
   expected |-> NoObject, intent |-> i, revision |-> rev,
   recovery |-> NoRecovery]

PrepareOf(o, request) ==
  [NoJob EXCEPT !.phase = "prepare", !.prev = queue, !.operation = o,
                !.request = request]

LEMMA BeginPrepareInv ==
  ASSUME StoreInv, NEW c \in Clients, BeginPrepare(c)
  PROVE  StoreInv'
<1>1. PICK o \in Operations, t \in Tasks, r \in EffectRefs, x \in Objects,
           i \in Intents, rev \in 1..MaxRevision :
        /\ PrepareOperation(queue, o, t, queue.tasks[t].owner,
                            queue.tasks[t].epoch, r, x, NoObject, i, rev) # {}
        /\ SetJob(c, PrepareOf(o, Requested(t, r, x, i, rev)))
  <2>1. PICK o \in Operations, t \in Tasks, r \in EffectRefs,
             x \in Objects, i \in Intents, rev \in 1..MaxRevision :
          LET task == queue.tasks[t] IN
          /\ Idle(c, "prepareOperation")
          /\ PrepareOperation(queue, o, t, task.owner, task.epoch, r, x,
                              NoObject, i, rev) # {}
          /\ SetJob(c, [NoJob EXCEPT
                          !.phase = "prepare", !.prev = queue,
                          !.operation = o,
                          !.request = [status |-> "prepared", task |-> t,
                                       owner |-> task.owner,
                                       epoch |-> task.epoch,
                                       ref |-> r, object |-> x,
                                       expected |-> NoObject, intent |-> i,
                                       revision |-> rev,
                                       recovery |-> NoRecovery]])
          /\ UNCHANGED <<queue, refs, clock, told>>
    BY DEF BeginPrepare
  <2> QED  BY <2>1, Zenon DEF PrepareOf, Requested
<1> DEFINE request == Requested(t, r, x, i, rev)
           j == PrepareOf(o, request)
<1>2. queue.tasks[t].owner \in Workers /\ queue.tasks[t].epoch \in Nat
  BY <1>1, PrepareHolds DEF StoreInv
<1>3. rev \in Nat  BY ScenariosAssumption
<1>4. request \in RecordedOperation /\ request.revision = rev
  BY <1>2, <1>3 DEF Requested, RecordedOperation, Recovery
<1> HIDE DEF request
<1>6. j \in Job
  BY <1>4, NoJobType
     DEF PrepareOf, Job, StoreInv, TypeOK, Phases, Operation
<1>7. /\ j.phase = "prepare" /\ j.prev = queue /\ j.operation = o
      /\ j.request = request
  BY DEF PrepareOf, NoJob
<1> HIDE DEF j
<1>8. JobOK(j, WorkerOf[c], clock)
  BY <1>4, <1>7 DEF JobOK, PrepareJob, StoreInv
<1>9. SetJob(c, j)  BY <1>1 DEF j, request
<1>10. UNCHANGED <<queue, refs, clock, told>>  BY DEF BeginPrepare
<1> QED  BY <1>6, <1>8, <1>9, <1>10, SetJobInv

LEMMA PrepareReadsRefInv ==
  ASSUME StoreInv, NEW c \in Clients, PrepareReadsRef(c)
  PROVE  StoreInv'
<1> DEFINE i == job[c]
           y == refs[i.request.ref]
<1>1. PICK n \in PrepareOperation(i.prev, i.operation, i.request.task,
                                  i.request.owner, i.request.epoch,
                                  i.request.ref, i.request.object, y,
                                  i.request.intent, i.request.revision) :
        SetJob(c, [NoJob EXCEPT !.phase = "commit", !.prev = i.prev,
                                !.next = n])
  BY DEF PrepareReadsRef
<1> DEFINE j == [NoJob EXCEPT !.phase = "commit", !.prev = i.prev, !.next = n]
<1>2. PrepareJob(i)
  BY DEF StoreInv, JobOK, WriteJob, EffectJob, ProvenJob, PrepareReadsRef
<1>3. /\ i.request.task \in Tasks /\ i.request.owner \in Workers
      /\ i.request.epoch \in Nat /\ i.request.ref \in EffectRefs
      /\ i.request.object \in Objects /\ i.request.intent \in Intents
  BY <1>2 DEF PrepareJob, RecordedOperation
<1>4. y \in Objects \cup {NoObject}  BY <1>3 DEF StoreInv, TypeOK
<1>5. Records(i.prev, n)
  BY <1>1, <1>2, <1>3, <1>4, Zenon DEF Records, PrepareJob
<1>6. StoreWrite(i.prev, n, WorkerOf[c], clock)
  BY <1>5 DEF StoreWrite, KeepsGrants
<1>7. n \in State
  <2>1. QuietCommand(i.prev, n, clock)
    BY <1>6, ClientsAssumption, StoreWriteCommand
  <2> QED
    BY <1>2, <2>1, CommandType
       DEF Command, StoreInv, TypeOK, PrepareJob, Readable
<1>8. j \in Job
  BY <1>2, <1>7, NoJobType DEF Job, Phases, PrepareJob, Readable
<1>9. j.phase = "commit" /\ j.prev = i.prev /\ j.next = n  BY DEF NoJob
<1> HIDE DEF j
<1>10. JobOK(j, WorkerOf[c], clock)
  BY <1>2, <1>6, <1>9 DEF JobOK, WriteJob, PrepareJob
<1> QED  BY <1>1, <1>8, <1>10, SetJobInv DEF PrepareReadsRef, j

\* Whoever may observe an operation holds the claim on its task.
LEMMA ObserveHolds ==
  ASSUME NEW s, Readable(s), NEW o \in Operations, NEW w, NEW e, NEW at,
         OperationAuthorized(s, o, w, e, at)
  PROVE  LET operation == s.operations[o] IN
         /\ operation \in RecordedOperation
         /\ operation.status = "prepared"
         /\ w \in Workers
         /\ e \in Nat
         /\ e = s.tasks[operation.task].epoch
<1> DEFINE operation == s.operations[o]
           task == s.tasks[operation.task]
<1>1. operation.status = "prepared" /\ HoldsClaim(s, operation.task, w, e)
  BY DEF OperationAuthorized
<1>2. operation \in RecordedOperation
  BY <1>1, PreparedIsRecorded DEF Readable
<1>3. operation.task \in Tasks  BY <1>2 DEF RecordedOperation
<1>4. ClaimWellFormed(task) /\ task \in Task
  BY <1>3, TaskOf DEF Readable, WellFormed
<1> QED
  BY <1>1, <1>2, <1>4 DEF HoldsClaim, ClaimWellFormed, Task

\* The job of a client that runs an operation.
EffectOf(phase, n, o, w, e) ==
  [NoJob EXCEPT !.phase = phase, !.prev = queue, !.next = n, !.operation = o,
                !.worker = w, !.epoch = e, !.ref = queue.operations[o].ref,
                !.object = queue.operations[o].object]

LEMMA BeginEffectInv ==
  ASSUME StoreInv, NEW c \in Clients, NEW command,
         NEW phase \in {"apply", "complete"}, BeginEffect(c, command, phase)
  PROVE  StoreInv'
<1>1. PICK o \in Operations :
        \E id \in Identities(c, o) :
          \E n \in ObserveOperation(queue, o, id[1], id[2], clock) :
            SetJob(c, EffectOf(phase, n, o, id[1], id[2]))
  BY DEF BeginEffect, EffectOf
<1>i. PICK id \in Identities(c, o) :
        \E n \in ObserveOperation(queue, o, id[1], id[2], clock) :
          SetJob(c, EffectOf(phase, n, o, id[1], id[2]))
  BY <1>1
<1>2. PICK n \in ObserveOperation(queue, o, id[1], id[2], clock) :
        SetJob(c, EffectOf(phase, n, o, id[1], id[2]))
  BY <1>i
<1> DEFINE w == id[1]
           e == id[2]
           j == EffectOf(phase, n, o, w, e)
<1>3. OperationAuthorized(queue, o, w, e, clock)
  BY <1>2 DEF ObserveOperation
<1>4. /\ queue.operations[o] \in RecordedOperation
      /\ w \in Workers /\ e \in Nat
  BY <1>3, ObserveHolds DEF StoreInv
<1>5. n \in State
  BY <1>2, <1>4, ObserveOperationType DEF StoreInv, TypeOK
<1> HIDE DEF w, e
<1>6. phase \in Phases  BY DEF Phases
<1>7. j \in Job
  BY <1>4, <1>5, <1>6, NoJobType
     DEF EffectOf, Job, StoreInv, TypeOK, RecordedOperation
<1>8. /\ j.phase = phase /\ j.prev = queue /\ j.next = n /\ j.operation = o
      /\ j.worker = w /\ j.epoch = e
      /\ j.ref = queue.operations[o].ref
      /\ j.object = queue.operations[o].object
  BY DEF EffectOf, NoJob
<1> HIDE DEF j
<1>9. n \in ObserveOperation(queue, o, w, e, clock) /\ clock \in 0..clock
  BY <1>2 DEF w, e, StoreInv, TypeOK
<1>10. JobOK(j, WorkerOf[c], clock)
  BY <1>4, <1>8, <1>9 DEF JobOK, EffectJob, StoreInv
<1>11. SetJob(c, j)  BY <1>2 DEF j, w, e
<1> QED  BY <1>7, <1>10, <1>11, SetJobInv DEF BeginEffect

\* An operation's job goes on to its next phase, whatever it read.
LEMMA PhaseInv ==
  ASSUME StoreInv, NEW c \in Clients,
         job[c].phase \in {"apply", "complete", "readback"},
         NEW p \in {"move", "readback", "verify"},
         SetJob(c, [job[c] EXCEPT !.phase = p]),
         UNCHANGED <<queue, refs, clock, told>>
  PROVE  StoreInv'
<1> DEFINE i == job[c]
           j == [i EXCEPT !.phase = p]
<1>1. i \in Job  BY DEF StoreInv, TypeOK
<1>2. EffectJob(i, clock)
  BY DEF StoreInv, JobOK, WriteJob, PrepareJob, ProvenJob
<1>3. p \in Phases  BY DEF Phases
<1>4. /\ j \in Job /\ j.phase = p /\ j.prev = i.prev /\ j.next = i.next
      /\ j.operation = i.operation /\ j.worker = i.worker
      /\ j.epoch = i.epoch /\ j.ref = i.ref /\ j.object = i.object
  BY <1>1, <1>3 DEF Job
<1> HIDE DEF j
<1>5. JobOK(j, WorkerOf[c], clock)
  BY <1>2, <1>4 DEF EffectJob, JobOK
<1>6. SetJob(c, j)  BY DEF j
<1> QED  BY <1>4, <1>5, <1>6, SetJobInv

LEMMA ReadsRefInv ==
  ASSUME StoreInv, NEW c \in Clients,
         ApplyReadsRef(c) \/ CompleteReadsRef(c) \/ CompleteReadsBack(c)
  PROVE  StoreInv'
<1>1. CASE Done(c)
  BY <1>1, DoneInv DEF ApplyReadsRef, CompleteReadsRef, CompleteReadsBack
<1>2. CASE ~Done(c)
  <2>1. /\ job[c].phase \in {"apply", "complete", "readback"}
        /\ \E p \in {"move", "readback", "verify"} :
             SetJob(c, [job[c] EXCEPT !.phase = p])
        /\ UNCHANGED <<queue, refs, clock, told>>
    BY <1>2 DEF ApplyReadsRef, CompleteReadsRef, CompleteReadsBack
  <2> QED  BY <2>1, PhaseInv
<1> QED  BY <1>1, <1>2

\* The job of a close whose proof was verified on branch r.
ProofOf(c, t, r) ==
  [NoJob EXCEPT !.phase = "proof", !.task = t, !.epoch = told[c][t],
                !.ref = r, !.object = refs[r],
                !.recipe = queue.tasks[t].laneRecipe]

LEMMA BeginCloseWithProofInv ==
  ASSUME StoreInv, NEW c \in Clients, BeginCloseWithProof(c)
  PROVE  StoreInv'
<1>1. PICK t \in Tasks, r \in EffectRefs :
        /\ queue.tasks[t].laneRecipe # NoRecipe
        /\ refs[r] # NoObject
        /\ SetJob(c, ProofOf(c, t, r))
  BY DEF BeginCloseWithProof, ProofOf
<1> DEFINE j == ProofOf(c, t, r)
<1>2. /\ queue.tasks[t].laneRecipe \in Recipes
      /\ refs[r] \in Objects
      /\ told[c][t] \in Nat
  BY <1>1, TaskOf DEF StoreInv, TypeOK, Task
<1>3. j \in Job
  BY <1>2, NoJobType DEF ProofOf, Job, Phases
<1>4. /\ j.phase = "proof" /\ j.task = t /\ j.epoch = told[c][t]
      /\ j.ref = r /\ j.object = refs[r]
      /\ j.recipe = queue.tasks[t].laneRecipe
  BY DEF ProofOf, NoJob
<1> HIDE DEF j
<1>5. JobOK(j, WorkerOf[c], clock)
  BY <1>1, <1>2, <1>4 DEF JobOK, ProvenJob
<1>6. SetJob(c, j)  BY <1>1 DEF j
<1> QED  BY <1>3, <1>5, <1>6, SetJobInv DEF BeginCloseWithProof

LEMMA CloseReadsQueueInv ==
  ASSUME StoreInv, NEW c \in Clients, CloseReadsQueue(c)
  PROVE  StoreInv'
<1>1. CASE Done(c)  BY <1>1, DoneInv DEF CloseReadsQueue
<1>2. CASE ~Done(c)
  <2> DEFINE i == job[c]
  <2>1. PICK n \in Close(queue, i.task, WorkerOf[c], TRUE, i.epoch,
                         i.recipe) :
          SetJob(c, [i EXCEPT !.phase = "verify", !.prev = queue,
                              !.next = n])
    BY <1>2 DEF CloseReadsQueue
  <2> DEFINE j == [i EXCEPT !.phase = "verify", !.prev = queue, !.next = n]
  <2>2. i \in Job /\ queue \in State  BY DEF StoreInv, TypeOK
  <2>3. ProvenJob(i, WorkerOf[c])
    BY DEF StoreInv, JobOK, WriteJob, PrepareJob, EffectJob, CloseReadsQueue
  <2>4. n \in State
    BY <2>1, <2>2, <2>3, CloseType, ClientsAssumption DEF ProvenJob
  <2>5. /\ j \in Job /\ j.phase = "verify" /\ j.prev = queue /\ j.next = n
        /\ j.task = i.task /\ j.epoch = i.epoch /\ j.ref = i.ref
        /\ j.object = i.object /\ j.recipe = i.recipe
    BY <2>2, <2>4 DEF Job, Phases
  <2> HIDE DEF j
  <2>6. ProvenJob(j, WorkerOf[c])
    BY <2>1, <2>3, <2>5 DEF ProvenJob, StoreInv
  <2>7. SetJob(c, j)  BY <2>1 DEF j
  <2> QED  BY <2>5, <2>6, <2>7, SetJobInv DEF JobOK, CloseReadsQueue
<1> QED  BY <1>1, <1>2

\* The steps that write, and those that end a job or move the world around it.
Commits(c) ==
  CommitSnapshot(c) \/ WriteSnapshotAndRef(c) \/ CommitSnapshotWithRefVerify(c)

LEMMA CommitsInv ==
  ASSUME StoreInv, NEW c \in Clients, Commits(c)
  PROVE  StoreInv'
<1>1. CASE CommitSnapshot(c)
  <2>1. \A t \in Tasks : job[c].next.tasks[t].epoch \in Nat
    BY TaskOf DEF StoreInv, TypeOK, Job, Task
  <2>2. told' \in [Clients -> [Tasks -> Nat]]
    BY <1>1, <2>1 DEF CommitSnapshot, Reply, StoreInv, TypeOK
  <2> QED  BY <1>1, <2>2, CommitInv DEF CommitSnapshot, StoreInv, TypeOK
<1>2. CASE WriteSnapshotAndRef(c)
  <2>1. job[c].ref \in EffectRefs /\ job[c].object \in Objects
    <3>1. EffectJob(job[c], clock)
      BY <1>2 DEF StoreInv, JobOK, WriteJob, PrepareJob, ProvenJob,
                  WriteSnapshotAndRef
    <3>2. PICK at \in 0..clock :
            OperationAuthorized(job[c].prev, job[c].operation, job[c].worker,
                                job[c].epoch, at)
      BY <3>1 DEF EffectJob, ObserveOperation
    <3>3. job[c].prev.operations[job[c].operation] \in RecordedOperation
      BY <3>1, <3>2, ObserveHolds DEF EffectJob
    <3> QED  BY <3>1, <3>3 DEF EffectJob, RecordedOperation
  <2>2. refs' \in [EffectRefs -> Objects \cup {NoObject}]
    BY <1>2, <2>1 DEF WriteSnapshotAndRef, StoreInv, TypeOK
  <2> QED
    BY <1>2, <2>2, CommitInv DEF WriteSnapshotAndRef, StoreInv, TypeOK
<1>3. CASE CommitSnapshotWithRefVerify(c)
  BY <1>3, CommitInv DEF CommitSnapshotWithRefVerify, StoreInv, TypeOK
<1> QED  BY <1>1, <1>2, <1>3 DEF Commits

LEMMA CrashInv ==
  ASSUME StoreInv, NEW c \in Clients, Conflict(c) \/ Crash(c)
  PROVE  StoreInv'
<1>1. CASE Conflict(c)  BY <1>1, DoneInv DEF Conflict
<1>2. CASE Crash(c)
  <2>1. told' \in [Clients -> [Tasks -> Nat]]
    BY <1>2 DEF Crash, StoreInv, TypeOK
  <2>2. /\ job' \in [Clients -> Job]
        /\ \A d \in Clients : job'[d] = IF d = c THEN NoJob ELSE job[d]
    BY <1>2, NoJobType DEF Crash, Done, SetJob, StoreInv, TypeOK
  <2>3. queue' = queue /\ refs' = refs /\ clock' = clock
    BY <1>2 DEF Crash
  <2>4. \A d \in Clients : JobOK(job'[d], WorkerOf[d], clock')
    BY <2>2, <2>3 DEF StoreInv, JobOK, NoJob
  <2> QED  BY <2>1, <2>2, <2>3, <2>4 DEF StoreInv, TypeOK
<1> QED  BY <1>1, <1>2

LEMMA EnvironmentInv ==
  ASSUME StoreInv, Environment
  PROVE  StoreInv'
<1>1. queue' = queue /\ job' = job /\ told' = told
  BY DEF Environment, Queue!MoveRef, Queue!Tick
<1>2. clock' \in Nat /\ clock <= clock'
  BY DEF Environment, Queue!MoveRef, Queue!Tick, StoreInv, TypeOK
<1>3. refs' \in [EffectRefs -> Objects \cup {NoObject}]
  BY DEF Environment, Queue!MoveRef, Queue!Tick, StoreInv, TypeOK
<1>4. \A c \in Clients : JobOK(job'[c], WorkerOf[c], clock')
  BY <1>1, <1>2, JobLater DEF StoreInv, TypeOK
<1> QED  BY <1>1, <1>2, <1>3, <1>4 DEF StoreInv, TypeOK

LEMMA StepInv ==
  ASSUME StoreInv, NEW c \in Clients, Step(c)
  PROVE  StoreInv'
<1>1. CASE BeginsWrite(c)  BY <1>1, BeginsWriteInv
<1>2. CASE BeginClaimReady(c) \/ RetryClaimReady(c)  BY <1>2, ClaimReadyInv
<1>3. CASE BeginPrepare(c)  BY <1>3, BeginPrepareInv
<1>4. CASE PrepareReadsRef(c)  BY <1>4, PrepareReadsRefInv
<1>5. CASE BeginApply(c) \/ BeginComplete(c)
  BY <1>5, BeginEffectInv DEF BeginApply, BeginComplete
<1>6. CASE ApplyReadsRef(c) \/ CompleteReadsRef(c) \/ CompleteReadsBack(c)
  BY <1>6, ReadsRefInv
<1>7. CASE BeginCloseWithProof(c)  BY <1>7, BeginCloseWithProofInv
<1>8. CASE CloseReadsQueue(c)  BY <1>8, CloseReadsQueueInv
<1>9. CASE Commits(c)  BY <1>9, CommitsInv
<1>10. CASE Conflict(c) \/ Crash(c)  BY <1>10, CrashInv
<1> QED
  BY <1>1, <1>2, <1>3, <1>4, <1>5, <1>6, <1>7, <1>8, <1>9, <1>10
     DEF Step, BeginsWrite, Commits

LEMMA StoreInit == Init => StoreInv
<1> SUFFICES ASSUME Init  PROVE StoreInv
  OBVIOUS
<1>1. EmptyState \in State /\ Readable(EmptyState)
  <2>1. EmptyState \in State
    BY DEF EmptyState, State, NoTask, Task, Lease, Result, Statuses, Operation
  <2>2. \A t \in Tasks : EmptyState.tasks[t] = NoTask  BY DEF EmptyState
  <2>3. ClaimWellFormed(NoTask)  BY DEF ClaimWellFormed, NoTask
  <2> QED  BY <2>1, <2>2, <2>3 DEF Readable, WellFormed, Unused
<1>2. \A s \in Imports : Readable(s)
  BY ScenariosAssumption DEF Importable, Readable, WellFormed, Unused
<1>3. queue \in {EmptyState} \cup Imports  BY ScenariosAssumption DEF Init
<1>4. refs \in [EffectRefs -> Objects \cup {NoObject}] /\ clock \in Nat
  BY DEF Init, Queue!Init
<1>5. TypeOK
  BY <1>1, <1>2, <1>3, <1>4, NoJobType DEF Init, TypeOK, Readable
<1>6. \A c \in Clients : JobOK(job[c], WorkerOf[c], clock)
  BY DEF Init, NoJob, JobOK
<1> QED  BY <1>1, <1>2, <1>3, <1>5, <1>6 DEF StoreInv

LEMMA StoreNext == StoreInv /\ [Next]_vars => StoreInv'
<1> SUFFICES ASSUME StoreInv, [Next]_vars  PROVE StoreInv'
  OBVIOUS
<1>1. CASE Environment  BY <1>1, EnvironmentInv
<1>2. CASE \E c \in Clients : Step(c)  BY <1>2, StepInv
<1>3. CASE UNCHANGED vars
  BY <1>3 DEF vars, StoreInv, TypeOK
<1> QED  BY <1>1, <1>2, <1>3 DEF Next

-----------------------------------------------------------------------------
(***************************************************************************)
(* Refinement.  A compare-and-swap succeeds only on the snapshot the job    *)
(* read, so at that instant the job's command is one on the queue itself;   *)
(* every other step of a client is invisible to the queue.                  *)
(***************************************************************************)

LEMMA SwapWrites ==
  ASSUME NEW c, CompareAndSwap(c), UNCHANGED <<refs, clock>>, NEW nexts,
         job[c].next \in nexts
  PROVE  Queue!Writes(nexts)
BY DEF CompareAndSwap, Queue!Writes, Queue!Commit

\* A grant is one of the queue's, and so is every other write.
LEMMA GrantImplements ==
  ASSUME StoreInv, NEW c \in Clients, CompareAndSwap(c),
         UNCHANGED <<refs, clock>>,
         Grants(queue, job[c].next, WorkerOf[c], clock)
  PROVE  Queue!Next
<1> DEFINE n == job[c].next
           w == WorkerOf[c]
<1>w. ASSUME NEW nexts, n \in nexts  PROVE Queue!Writes(nexts)
  BY <1>w, SwapWrites
<1>0. w \in Workers  BY ClientsAssumption
<1>1. PICK t \in Tasks, at \in 0..clock, dur \in Durations :
        \/ n \in Claim(queue, t, w, at, dur)
        \/ n \in ClaimReady(queue, w, at, dur)
        \/ \E e \in Nat : n \in Takeover(queue, t, w, e, at, dur)
  BY DEF Grants
<1> HIDE DEF n, w
<1>2. at \in Queue!Times  BY DEF Queue!Times
<1>3. CASE n \in Claim(queue, t, w, at, dur)
  <2>1. Queue!Writes(Queue!Claim(queue, t, w, at, dur))
    BY <1>3, <1>w, QueueClaim
  <2> QED  BY <1>0, <1>2, <2>1 DEF Queue!Next, Queue!ClaimTask
<1>4. CASE n \in ClaimReady(queue, w, at, dur)
  <2>1. Queue!Writes(Queue!ClaimReady(queue, w, at, dur))
    BY <1>4, <1>w, QueueClaimReady
  <2> QED  BY <1>0, <1>2, <2>1 DEF Queue!Next, Queue!ClaimReadyTask
<1>5. CASE \E e \in Nat : n \in Takeover(queue, t, w, e, at, dur)
  <2>1. n \in Takeover(queue, t, w, queue.tasks[t].epoch, at, dur)
    BY <1>5 DEF Takeover
  <2>2. Queue!Writes(Queue!Takeover(queue, t, w, queue.tasks[t].epoch, at,
                                    dur))
    BY <2>1, <1>w, QueueTakeover
  <2> QED  BY <1>0, <1>2, <2>2 DEF Queue!Next, Queue!TakeoverTask
<1> QED  BY <1>1, <1>3, <1>4, <1>5

LEMMA WriteImplements ==
  ASSUME StoreInv, NEW c \in Clients, CompareAndSwap(c),
         UNCHANGED <<refs, clock>>,
         KeepsGrants(queue, job[c].next, clock)
  PROVE  Queue!Next
<1> DEFINE n == job[c].next
<1>w. ASSUME NEW nexts, n \in nexts  PROVE Queue!Writes(nexts)
  BY <1>w, SwapWrites
<1>k. KeepsGrants(queue, n, clock)  OBVIOUS
<1> HIDE DEF n
<1>1. CASE Adds(queue, n)
  <2>1. PICK t \in Tasks, d \in SUBSET Tasks, lane \in BOOLEAN,
             r \in Recipes \cup {NoRecipe} : n \in Add(queue, t, d, lane, r)
    BY <1>1 DEF Adds
  <2>2. Queue!Writes(Queue!Add(queue, t, d, lane, r))
    BY <2>1, <1>w, QueueAdd
  <2> QED  BY <2>2 DEF Queue!Next, Queue!AddTask
<1>2. CASE MarksReady(queue, n)
  <2>1. PICK t \in Tasks, b \in BOOLEAN : n \in MarkReady(queue, t, b)
    BY <1>2 DEF MarksReady
  <2>2. Queue!Writes(Queue!MarkReady(queue, t, b))
    BY <2>1, <1>w, QueueMarkReady
  <2> QED  BY <2>2 DEF Queue!Next, Queue!MarkTaskReady
<1>3. CASE Edits(queue, n)
  <2>1. PICK t \in Tasks, d \in SUBSET Tasks, lane \in BOOLEAN,
             r \in Recipes \cup {NoRecipe}, text \in BOOLEAN :
          n \in Edit(queue, t, d, lane, r, text)
    BY <1>3 DEF Edits
  <2>2. Queue!Writes(Queue!Edit(queue, t, d, lane, r, text))
    BY <2>1, <1>w, QueueEdit
  <2> QED  BY <2>2 DEF Queue!Next, Queue!EditTask
<1>4. CASE Renews(queue, n, clock)
  <2>1. PICK t \in Tasks, w \in Workers, e \in Nat, at \in 0..clock,
             dur \in Durations : n \in RenewClaim(queue, t, w, e, at, dur)
    BY <1>4 DEF Renews
  <2>2. n \in RenewClaim(queue, t, w, queue.tasks[t].epoch, at, dur)
    BY <2>1 DEF RenewClaim, HoldsClaim
  <2>3. Queue!Writes(Queue!RenewClaim(queue, t, w, queue.tasks[t].epoch, at,
                                      dur))
    BY <2>2, <1>w, QueueRenewClaim
  <2>4. at \in Queue!Times  BY DEF Queue!Times
  <2> QED  BY <2>3, <2>4 DEF Queue!Next, Queue!RenewTaskClaim
<1>5. CASE Comments(queue, n)
  <2>1. PICK t \in Tasks, w \in Workers, e \in Nat : n \in Comment(queue, t, w, e)
    BY <1>5 DEF Comments
  <2>2. n \in Comment(queue, t, w, queue.tasks[t].epoch)
    BY <2>1 DEF Comment, HoldsClaim
  <2>3. Queue!Writes(Queue!Comment(queue, t, w, queue.tasks[t].epoch))
    BY <2>2, <1>w, QueueComment
  <2> QED  BY <2>3 DEF Queue!Next, Queue!CommentTask
<1>6. CASE ClosesByHand(queue, n)
  <2>1. PICK t \in Tasks, w \in Workers, b \in BOOLEAN, e \in Nat :
          n \in Close(queue, t, w, b, e, NoRecipe)
    BY <1>6 DEF ClosesByHand
  <2>2. n \in Close(queue, t, w, b, queue.tasks[t].epoch, NoRecipe)
    BY <2>1 DEF Close, HoldsClaim
  <2>3. Queue!Writes(Queue!Close(queue, t, w, b, queue.tasks[t].epoch,
                                 NoRecipe))
    BY <2>2, <1>w, QueueClose
  <2> QED  BY <2>3 DEF Queue!Next, Queue!CloseTask
<1>7. CASE Reopens(queue, n)
  <2>1. PICK t \in Tasks : n \in Reopen(queue, t)  BY <1>7 DEF Reopens
  <2>2. Queue!Writes(Queue!Reopen(queue, t))  BY <2>1, <1>w, QueueReopen
  <2> QED  BY <2>2 DEF Queue!Next, Queue!ReopenTask
<1>8. CASE Resumes(queue, n)
  <2>1. PICK t \in Tasks, st \in Statuses, e \in Nat :
          n \in Resume(queue, t, st, e)
    BY <1>8 DEF Resumes
  <2>2. n \in Resume(queue, t, queue.tasks[t].status, queue.tasks[t].epoch)
    BY <2>1 DEF Resume
  <2>3. Queue!Writes(Queue!Resume(queue, t, queue.tasks[t].status,
                                  queue.tasks[t].epoch))
    BY <2>2, <1>w, QueueResume
  <2> QED  BY <2>3 DEF Queue!Next, Queue!ResumeTask
<1>9. CASE Releases(queue, n)
  <2>1. PICK t \in Tasks, w \in Workers, e \in Nat : n \in Release(queue, t, w, e)
    BY <1>9 DEF Releases
  <2>2. n \in Release(queue, t, w, queue.tasks[t].epoch)
    BY <2>1 DEF Release, HoldsClaim
  <2>3. Queue!Writes(Queue!Release(queue, t, w, queue.tasks[t].epoch))
    BY <2>2, <1>w, QueueRelease
  <2> QED  BY <2>3 DEF Queue!Next, Queue!ReleaseTask
<1>10. CASE RecordsFailure(queue, n)
  <2>1. PICK t \in Tasks, w \in Workers, e \in Nat :
          n \in RecordFailure(queue, t, w, e)
    BY <1>10 DEF RecordsFailure
  <2>2. n \in RecordFailure(queue, t, w, queue.tasks[t].epoch)
    BY <2>1 DEF RecordFailure, HoldsClaim
  <2>3. Queue!Writes(Queue!RecordFailure(queue, t, w, queue.tasks[t].epoch))
    BY <2>2, <1>w, QueueRecordFailure
  <2> QED  BY <2>3 DEF Queue!Next, Queue!RecordTaskFailure
<1>11. CASE Revises(queue, n)
  <2>1. PICK i \in Intents, rev \in 1..MaxRevision, e \in Nat :
          n \in SetIntentRevision(queue, i, rev, e)
    BY <1>11 DEF Revises
  <2>2. n \in SetIntentRevision(queue, i, rev, queue.intents[i])
    BY <2>1 DEF SetIntentRevision
  <2>3. Queue!Writes(Queue!SetIntentRevision(queue, i, rev, queue.intents[i]))
    BY <2>2, <1>w, QueueSetIntentRevision
  <2> QED  BY <2>3 DEF Queue!Next, Queue!SetIntent
<1>12. CASE Records(queue, n)
  <2>1. PICK o \in Operations, t \in Tasks, w \in Workers, e \in Nat,
             r \in EffectRefs, x \in Objects, y \in Objects \cup {NoObject},
             i \in Intents, rev \in 1..MaxRevision :
          n \in PrepareOperation(queue, o, t, w, e, r, x, y, i, rev)
    BY <1>12 DEF Records
  <2>2. e = queue.tasks[t].epoch
    BY <2>1, PrepareHolds DEF StoreInv
  <2>3. Queue!Writes(Queue!PrepareOperation(queue, o, t, w,
                       queue.tasks[t].epoch, r, x, y, i, rev))
    BY <2>1, <2>2, <1>w, QueuePrepareOperation
  <2>4. Queue!Prepare  BY <2>3, Zenon DEF Queue!Prepare
  <2> QED  BY <2>4 DEF Queue!Next
<1> QED
  BY <1>k, <1>1, <1>2, <1>3, <1>4, <1>5, <1>6, <1>7, <1>8, <1>9, <1>10,
     <1>11, <1>12 DEF KeepsGrants

\* What an observing job knows of the queue when its swap succeeds.
LEMMA EffectAtSwap ==
  ASSUME StoreInv, NEW c \in Clients, EffectJob(job[c], clock),
         CompareAndSwap(c), clock' = clock
  PROVE  \E o \in Operations, w \in Workers, at \in Queue!Times :
           LET operation == queue.operations[o]
               epoch == queue.tasks[operation.task].epoch
           IN /\ operation.status = "prepared"
              /\ queue.version < MaxVersion
              /\ job[c].ref = operation.ref
              /\ job[c].object = operation.object
              /\ operation = job[c].prev.operations[job[c].operation]
              /\ job[c].next \in Queue!ObserveOperation(queue, o, w, epoch, at)
<1> DEFINE j == job[c]
           o == j.operation
           operation == queue.operations[o]
           epoch == queue.tasks[operation.task].epoch
<1>1. j.prev = queue /\ queue.version < MaxVersion  BY DEF CompareAndSwap
<1>2. PICK at \in 0..clock :
        j.next \in ObserveOperation(queue, o, j.worker, j.epoch, at)
  BY <1>1 DEF EffectJob
<1>3. o \in Operations /\ j.worker \in Workers
        /\ j.ref = operation.ref /\ j.object = operation.object
  BY <1>1 DEF EffectJob
<1>4. OperationAuthorized(queue, o, j.worker, j.epoch, at)
  BY <1>2 DEF ObserveOperation
<1>5. operation.status = "prepared" /\ j.epoch = epoch
  BY <1>3, <1>4, ObserveHolds DEF StoreInv
<1>6. j.next \in Queue!ObserveOperation(queue, o, j.worker, epoch, at)
  BY <1>2, <1>5, QueueObserveOperation
<1>7. at \in Queue!Times  BY DEF Queue!Times
<1> QED  BY <1>1, <1>3, <1>5, <1>6, <1>7

LEMMA CommitsImplement ==
  ASSUME StoreInv, NEW c \in Clients, Commits(c)
  PROVE  Queue!Next
<1>1. CASE CommitSnapshot(c)
  <2>1. WriteJob(job[c], WorkerOf[c], clock)
    BY <1>1 DEF StoreInv, JobOK, PrepareJob, EffectJob, ProvenJob,
                CommitSnapshot
  <2>2. StoreWrite(queue, job[c].next, WorkerOf[c], clock)
    BY <1>1, <2>1 DEF WriteJob, CommitSnapshot, CompareAndSwap
  <2> QED
    BY <1>1, <2>2, GrantImplements, WriteImplements
       DEF StoreWrite, CommitSnapshot
<1>2. CASE WriteSnapshotAndRef(c)
  <2>1. EffectJob(job[c], clock)
    BY <1>2 DEF StoreInv, JobOK, WriteJob, PrepareJob, ProvenJob,
                WriteSnapshotAndRef
  <2>2. PICK o \in Operations, w \in Workers, at \in Queue!Times :
          LET operation == queue.operations[o]
              epoch == queue.tasks[operation.task].epoch
          IN /\ operation.status = "prepared"
             /\ queue.version < MaxVersion
             /\ job[c].ref = operation.ref
             /\ job[c].object = operation.object
             /\ operation = job[c].prev.operations[job[c].operation]
             /\ job[c].next
                  \in Queue!ObserveOperation(queue, o, w, epoch, at)
    BY <1>2, <2>1, EffectAtSwap DEF WriteSnapshotAndRef
  <2> DEFINE operation == queue.operations[o]
             epoch == queue.tasks[operation.task].epoch
             nexts == Queue!ObserveOperation(queue, o, w, epoch, at)
  <2>3. queue' \in Queue!Commit(queue, nexts)
    BY <1>2, <2>2 DEF WriteSnapshotAndRef, CompareAndSwap, Queue!Commit
  <2>4. /\ refs[operation.ref] = operation.expected
        /\ refs' = [refs EXCEPT ![operation.ref] = operation.object]
        /\ UNCHANGED clock
    BY <1>2, <2>2 DEF WriteSnapshotAndRef
  <2>5. Queue!Apply  BY <2>2, <2>3, <2>4 DEF Queue!Apply
  <2> QED  BY <2>5 DEF Queue!Next
<1>3. CASE CommitSnapshotWithRefVerify(c) /\ EffectJob(job[c], clock)
  <2>1. PICK o \in Operations, w \in Workers, at \in Queue!Times :
          LET operation == queue.operations[o]
              epoch == queue.tasks[operation.task].epoch
          IN /\ operation.status = "prepared"
             /\ queue.version < MaxVersion
             /\ job[c].ref = operation.ref
             /\ job[c].object = operation.object
             /\ operation = job[c].prev.operations[job[c].operation]
             /\ job[c].next
                  \in Queue!ObserveOperation(queue, o, w, epoch, at)
    BY <1>3, EffectAtSwap DEF CommitSnapshotWithRefVerify
  <2> DEFINE operation == queue.operations[o]
             epoch == queue.tasks[operation.task].epoch
             nexts == Queue!ObserveOperation(queue, o, w, epoch, at)
  <2>2. Queue!Writes(nexts)
    BY <1>3, <2>1, SwapWrites DEF CommitSnapshotWithRefVerify
  <2>3. refs[operation.ref] = operation.object
    BY <1>3, <2>1 DEF CommitSnapshotWithRefVerify
  <2>4. Queue!Complete  BY <2>1, <2>2, <2>3 DEF Queue!Complete
  <2> QED  BY <2>4 DEF Queue!Next
<1>4. CASE CommitSnapshotWithRefVerify(c) /\ ProvenJob(job[c], WorkerOf[c])
  <2> DEFINE j == job[c]
             t == j.task
             w == WorkerOf[c]
  <2>1. j.prev = queue /\ j.next \in Close(queue, t, w, TRUE, j.epoch, j.recipe)
    BY <1>4 DEF ProvenJob, CommitSnapshotWithRefVerify, CompareAndSwap
  <2>2. t \in Tasks /\ w \in Workers /\ j.ref \in EffectRefs
          /\ j.recipe \in Recipes
    BY <1>4, ClientsAssumption DEF ProvenJob
  <2>3. j.recipe # NoRecipe  BY <2>2, ConstantsAssumption
  <2>4. /\ queue.tasks[t].proofRequired
        /\ j.recipe = queue.tasks[t].laneRecipe
        /\ j.epoch = queue.tasks[t].epoch
    BY <2>1, <2>3 DEF Close, HoldsClaim
  <2>5. refs[j.ref] # NoObject
    BY <1>4 DEF ProvenJob, CommitSnapshotWithRefVerify
  <2>6. Queue!Writes(Queue!Close(queue, t, w, TRUE, queue.tasks[t].epoch,
                                 queue.tasks[t].laneRecipe))
    BY <1>4, <2>1, <2>4, SwapWrites, QueueClose
       DEF CommitSnapshotWithRefVerify
  <2>7. Queue!CloseTaskWithProof
    BY <2>2, <2>4, <2>5, <2>6 DEF Queue!CloseTaskWithProof
  <2> QED  BY <2>7 DEF Queue!Next
<1>5. CommitSnapshotWithRefVerify(c) =>
        EffectJob(job[c], clock) \/ ProvenJob(job[c], WorkerOf[c])
  BY DEF StoreInv, JobOK, WriteJob, PrepareJob, CommitSnapshotWithRefVerify
<1> QED  BY <1>1, <1>2, <1>3, <1>4, <1>5 DEF Commits

\* Every other step of a client leaves the queue, the refs and the clock alone.
LEMMA OtherStepsStutter ==
  ASSUME NEW c \in Clients, Step(c), ~Commits(c)
  PROVE  UNCHANGED <<queue, refs, clock>>
BY DEF Step, Commits, BeginAdd, BeginMarkReady, BeginEdit, BeginClaim,
       BeginClaimReady, RetryClaimReady, BeginRenewClaim, BeginTakeover,
       BeginComment, BeginClose, BeginReopen, BeginResume, BeginRelease,
       BeginRecordFailure, BeginSetIntentRevision, BeginPrepare,
       PrepareReadsRef, BeginApply, ApplyReadsRef, BeginComplete,
       CompleteReadsRef, CompleteReadsBack, BeginCloseWithProof,
       CloseReadsQueue, Conflict, Crash, Begin, BeginEffect

LEMMA NextImplements ==
  ASSUME StoreInv, [Next]_vars
  PROVE  [Queue!Next]_(Queue!vars)
<1>1. CASE Environment
  BY <1>1 DEF Environment, Queue!Next
<1>2. ASSUME NEW c \in Clients, Step(c)
      PROVE  Queue!Next \/ UNCHANGED <<queue, refs, clock>>
  BY <1>2, CommitsImplement, OtherStepsStutter
<1>3. CASE UNCHANGED vars  BY <1>3 DEF vars, Queue!vars
<1> QED  BY <1>1, <1>2, <1>3 DEF Next, Queue!vars

-----------------------------------------------------------------------------
(* Theorems. *)

\* Every job of every client has the shape its next step expects, and what it
\* is about to write is a command on the snapshot it read.
THEOREM JobsAreSound == Spec => []StoreInv
BY StoreInit, StoreNext, PTL DEF Spec

\* Whatever reads, compare-and-swaps, crashes, branch moves and clocks of any
\* number of clients interleave, what the queue ref and the effect refs go
\* through is a behaviour of commands that act one at a time.
THEOREM StoreImplementsQueue == Spec => ImplementsTaskQueue
<1>1. Init => Queue!Init  BY DEF Init
<1>2. StoreInv /\ [Next]_vars => [Queue!Next]_(Queue!vars)
  BY NextImplements
<1> QED
  BY <1>1, <1>2, StoreInit, StoreNext, PTL
     DEF Spec, ImplementsTaskQueue, Queue!Spec

-----------------------------------------------------------------------------
(***************************************************************************)
(* Generations.  Only claim, claimReady and takeover change a generation,   *)
(* and the one they write is new and belongs to the client that commits it. *)
(***************************************************************************)

LEMMA WithTaskKeepsEpochs ==
  ASSUME NEW s \in State, NEW t \in Tasks, NEW b, b.epoch = s.tasks[t].epoch,
         NEW u \in Tasks
  PROVE  WithTask(s, t, b).tasks[u].epoch = s.tasks[u].epoch
BY DEF WithTask, State

LEMMA EndedKeepsEpoch ==
  ASSUME NEW a \in Task, NEW st
  PROVE  Ended(a, st).epoch = a.epoch
BY DEF Ended, Task

LEMMA WritesKeepEpochs ==
  ASSUME NEW s, Readable(s), NEW n, NEW now \in Nat, KeepsGrants(s, n, now),
         NEW u \in Tasks
  PROVE  n.tasks[u].epoch = s.tasks[u].epoch
<1>s. s \in State  BY DEF Readable
<1>k. ASSUME NEW t \in Tasks, NEW b, b.epoch = s.tasks[t].epoch,
             n = WithTask(s, t, b)
      PROVE  n.tasks[u].epoch = s.tasks[u].epoch
  BY <1>s, <1>k, WithTaskKeepsEpochs
<1>t. \A t \in Tasks : s.tasks[t] \in Task  BY <1>s, TaskOf
<1>1. CASE Adds(s, n)
  <2>1. PICK t \in Tasks, d \in SUBSET Tasks, lane \in BOOLEAN,
             r \in Recipes \cup {NoRecipe} : n \in Add(s, t, d, lane, r)
    BY <1>1 DEF Adds
  <2>2. ~Exists(s, t)  BY <2>1 DEF Add
  <2>3. s.tasks[t].epoch = 0  BY <2>2 DEF Readable, Unused, NoTask
  <2> QED  BY <2>1, <2>3, <1>k DEF Add, NoTask
<1>2. CASE MarksReady(s, n)
  BY <1>2, <1>k, <1>t DEF MarksReady, MarkReady, Task
<1>3. CASE Edits(s, n)
  <2>1. PICK t \in Tasks, d \in SUBSET Tasks, lane \in BOOLEAN,
             r \in Recipes \cup {NoRecipe}, text \in BOOLEAN :
          n \in Edit(s, t, d, lane, r, text)
    BY <1>3 DEF Edits
  <2> DEFINE a == s.tasks[t]
             b == [a EXCEPT !.dependencies = d, !.lane = a.lane \/ lane,
                            !.laneRecipe = r]
             b1 == [b EXCEPT !.status = "open"]
  <2>2. n = WithTask(s, t, b) \/ n = WithTask(s, t, b1)
    BY <2>1 DEF Edit
  <2>3. b.epoch = a.epoch /\ b1.epoch = a.epoch  BY <1>t DEF Task
  <2> HIDE DEF b, b1
  <2> QED  BY <2>2, <2>3, <1>k
<1>4. CASE Renews(s, n, now)
  <2>1. PICK t \in Tasks, w \in Workers, e \in Nat, at \in 0..now,
             dur \in Durations : n \in RenewClaim(s, t, w, e, at, dur)
    BY <1>4 DEF Renews
  <2> DEFINE b == [s.tasks[t] EXCEPT
                     !.lease = [@ EXCEPT !.renew = at, !.duration = dur]]
  <2>2. n = WithTask(s, t, b)  BY <2>1 DEF RenewClaim
  <2>3. b.epoch = s.tasks[t].epoch  BY <1>t DEF Task
  <2> QED  BY <2>2, <2>3, <1>k
<1>5. CASE Comments(s, n)
  <2>1. PICK t \in Tasks, w \in Workers :
          n = WithTask(s, t, [s.tasks[t] EXCEPT !.comments = @ \cup {w}])
    BY <1>5 DEF Comments, Comment
  <2> DEFINE b == [s.tasks[t] EXCEPT !.comments = @ \cup {w}]
  <2>2. b.epoch = s.tasks[t].epoch  BY <1>t DEF Task
  <2> QED  BY <2>1, <2>2, <1>k
<1>6. CASE ClosesByHand(s, n)
  <2>1. PICK t \in Tasks :
          n = WithTask(s, t, [Ended(s.tasks[t], "done") EXCEPT
                                !.result = NoResult])
    BY <1>6 DEF ClosesByHand, Close
  <2> DEFINE b == [Ended(s.tasks[t], "done") EXCEPT !.result = NoResult]
  <2>2. b.epoch = s.tasks[t].epoch  BY <1>t DEF Ended, Task
  <2> QED  BY <2>1, <2>2, <1>k
<1>7. CASE Reopens(s, n)
  BY <1>7, <1>k, <1>t, EndedKeepsEpoch DEF Reopens, Reopen
<1>8. CASE Resumes(s, n)
  BY <1>8, <1>k, <1>t, EndedKeepsEpoch DEF Resumes, Resume
<1>9. CASE Releases(s, n)
  BY <1>9, <1>k, <1>t, EndedKeepsEpoch DEF Releases, Release
<1>10. CASE RecordsFailure(s, n)
  <2>1. PICK t \in Tasks, w \in Workers, e \in Nat :
          n \in RecordFailure(s, t, w, e)
    BY <1>10 DEF RecordsFailure
  <2> DEFINE failed == [s.tasks[t] EXCEPT !.attempts = @ + 1]
             ended == Ended(failed, "blocked")
             blocked == [ended EXCEPT !.gates = @ \cup {"retries-exhausted"}]
  <2>2. n = WithTask(s, t, failed) \/ n = WithTask(s, t, blocked)
    BY <2>1 DEF RecordFailure
  <2>3. failed.epoch = s.tasks[t].epoch  BY <1>t DEF Task
  <2>4. ended.epoch = s.tasks[t].epoch  BY <1>t DEF Ended, Task
  <2>5. blocked.epoch = ended.epoch  BY <1>t DEF Ended, Task
  <2> HIDE DEF failed, ended, blocked
  <2> QED  BY <2>2, <2>3, <2>4, <2>5, <1>k
<1>11. CASE Revises(s, n)
  BY <1>s, <1>11 DEF Revises, SetIntentRevision, State
<1>12. CASE Records(s, n)
  BY <1>s, <1>12 DEF Records, PrepareOperation, State
<1> QED
  BY <1>1, <1>2, <1>3, <1>4, <1>5, <1>6, <1>7, <1>8, <1>9, <1>10, <1>11,
     <1>12 DEF KeepsGrants

LEMMA GrantsAreOwned ==
  ASSUME NEW s \in State, NEW n, NEW w, NEW now \in Nat, Grants(s, n, w, now),
         NEW u \in Tasks, n.tasks[u].epoch # s.tasks[u].epoch
  PROVE  n.tasks[u].owner = w
<1>1. PICK t \in Tasks, at \in 0..now, dur \in Durations :
        n.tasks = [s.tasks EXCEPT ![t] = Granted(s.tasks[t], w, at, dur)]
  <2>1. PICK t \in Tasks, at \in 0..now, dur \in Durations :
          \/ n \in Claim(s, t, w, at, dur)
          \/ n \in ClaimReady(s, w, at, dur)
          \/ \E e \in Nat : n \in Takeover(s, t, w, e, at, dur)
    BY DEF Grants
  <2>2. CASE n \in ClaimReady(s, w, at, dur)
    BY <2>2 DEF ClaimReady, ReadyTasks, WithTask, State
  <2>3. CASE n \in Claim(s, t, w, at, dur)
    BY <2>3 DEF Claim, WithTask, State
  <2>4. CASE \E e \in Nat : n \in Takeover(s, t, w, e, at, dur)
    <3> DEFINE granted == WithTask(s, t, Granted(s.tasks[t], w, at, dur))
    <3>1. \E ops : n = [granted EXCEPT !.operations = ops]
      BY <2>4 DEF Takeover
    <3>2. /\ granted = [s EXCEPT !.tasks = granted.tasks]
          /\ granted.tasks = [s.tasks EXCEPT
                                ![t] = Granted(s.tasks[t], w, at, dur)]
      BY DEF WithTask, State
    <3> HIDE DEF granted
    <3>3. n.tasks = granted.tasks  BY <3>1, <3>2 DEF State
    <3> QED  BY <3>2, <3>3
  <2> QED  BY <2>1, <2>2, <2>3, <2>4
<1>2. u = t  BY <1>1 DEF State
<1> QED  BY <1>1, <1>2, TaskOf DEF Granted, State, Task

\* A new generation has the owner that commits it.
LEMMA NewGenerationOwned ==
  ASSUME NEW s, Readable(s), NEW n, NEW w \in Workers, NEW now \in Nat,
         StoreWrite(s, n, w, now), NEW u \in Tasks,
         n.tasks[u].epoch # s.tasks[u].epoch
  PROVE  n.tasks[u].owner = w
BY WritesKeepEpochs, GrantsAreOwned DEF StoreWrite, Readable

\* OneClientPerGeneration, for what two clients were told of one task.
ToldOf(generation, worker, task) ==
  generation # 0 =>
    /\ generation <= task.epoch
    /\ (task.status = "claimed" /\ generation = task.epoch)
         => task.owner = worker

LEMMA ToldEach ==
  OneClientPerGeneration <=>
    \A c \in Clients, t \in Tasks :
      /\ ToldOf(told[c][t], WorkerOf[c], queue.tasks[t])
      /\ told[c][t] # 0 =>
           \A d \in Clients \ {c} : told[d][t] # told[c][t]
BY DEF OneClientPerGeneration, ToldOf

\* What a client was told survives a commit of anyone.
LEMMA ToldStays ==
  ASSUME NEW a \in Task, NEW b \in Task, ClaimWellFormed(a),
         NEW now, ClaimStep(a, b, now), NEW g \in Nat, NEW w \in Workers,
         ToldOf(g, w, a)
  PROVE  ToldOf(g, w, b)
<1> SUFFICES ASSUME g # 0
             PROVE  /\ g <= b.epoch
                    /\ b.status = "claimed" /\ g = b.epoch => b.owner = w
  BY DEF ToldOf
<1>1. g <= a.epoch /\ a.epoch \in Nat /\ b.epoch \in Nat /\ b.epoch >= a.epoch
  BY DEF ToldOf, ClaimStep, Task
<1>2. ASSUME b.status = "claimed", g = b.epoch  PROVE b.owner = w
  <2>1. b.epoch = a.epoch  BY <1>1, <1>2
  <2>2. b.owner \in Workers  BY <1>2 DEF ClaimStep, ClaimWellFormed
  <2>3. b.owner = a.owner
    BY <1>1, <2>1, <2>2, ConstantsAssumption DEF ClaimStep
  <2>4. a.status = "claimed"
    BY <2>2, <2>3, ConstantsAssumption DEF ClaimWellFormed
  <2> QED  BY <1>2, <2>1, <2>3, <2>4 DEF ToldOf
<1> QED  BY <1>1, <1>2

\* Every commit takes each claim one step.
LEMMA CommitSteps ==
  ASSUME StoreInv, NEW c \in Clients, Commits(c)
  PROVE  /\ queue'.tasks = job[c].next.tasks
         /\ queue = job[c].prev
         /\ \A t \in Tasks :
              ClaimStep(queue.tasks[t], job[c].next.tasks[t], clock)
<1>1. /\ job[c].phase \in {"commit", "claimReady", "move", "verify"}
      /\ CompareAndSwap(c)
  BY DEF Commits, CommitSnapshot, WriteSnapshotAndRef,
         CommitSnapshotWithRefVerify
<1>2. queue = job[c].prev  BY <1>1 DEF CompareAndSwap
<1>3. Readable(queue) /\ Command(queue, job[c].next, clock)
  BY <1>1, <1>2, JobCommand, ClientsAssumption DEF StoreInv, TypeOK
<1>4. ClaimSteps(queue, job[c].next, clock)
  BY <1>3, CommandClaims DEF Readable, StoreInv, TypeOK
<1>5. job[c].next \in State  BY DEF StoreInv, TypeOK, Job
<1>6. queue'.tasks = job[c].next.tasks
  BY <1>1, <1>5 DEF CompareAndSwap, State
<1> QED  BY <1>2, <1>4, <1>6 DEF ClaimSteps

GrantInv == StoreInv /\ OneClientPerGeneration

\* A commit that tells nobody anything new.
LEMMA QuietCommitTold ==
  ASSUME GrantInv, NEW c \in Clients, Commits(c), told' = told
  PROVE  OneClientPerGeneration'
<1>1. \A t \in Tasks : queue.tasks[t] \in Task /\ queue'.tasks[t] \in Task
  <2>1. queue \in State /\ queue' \in State
    BY CommitsInv DEF GrantInv, StoreInv, TypeOK
  <2> QED  BY <2>1, TaskOf
<1>2. \A t \in Tasks : /\ ClaimWellFormed(queue.tasks[t])
                       /\ ClaimStep(queue.tasks[t], queue'.tasks[t], clock)
  BY CommitSteps DEF GrantInv, StoreInv, Readable, WellFormed
<1>3. \A d \in Clients, t \in Tasks :
        ToldOf(told[d][t], WorkerOf[d], queue'.tasks[t])
  <2> TAKE d \in Clients, t \in Tasks
  <2>1. told[d][t] \in Nat /\ WorkerOf[d] \in Workers
    BY ClientsAssumption DEF GrantInv, StoreInv, TypeOK
  <2>2. ToldOf(told[d][t], WorkerOf[d], queue.tasks[t])
    BY ToldEach DEF GrantInv
  <2> QED  BY <1>1, <1>2, <2>1, <2>2, ToldStays
<1>4. \A d \in Clients, t \in Tasks :
        told[d][t] # 0 => \A e \in Clients \ {d} : told[e][t] # told[d][t]
  BY ToldEach DEF GrantInv
<1> QED  BY <1>3, <1>4 DEF OneClientPerGeneration, ToldOf

\* A commit that tells its client of the generations it wrote.
LEMMA ReplyTold ==
  ASSUME GrantInv, NEW c \in Clients, CommitSnapshot(c)
  PROVE  OneClientPerGeneration'
<1> DEFINE n == job[c].next
<1>0. /\ Commits(c) /\ queue = job[c].prev
      /\ clock \in Nat /\ Readable(queue) /\ queue' \in State
  BY CommitsInv
     DEF Commits, CommitSnapshot, CompareAndSwap, GrantInv, StoreInv, TypeOK
<1>1. /\ queue'.tasks = n.tasks
      /\ \A t \in Tasks : ClaimStep(queue.tasks[t], n.tasks[t], clock)
  BY <1>0, CommitSteps DEF GrantInv
<1>2. StoreWrite(queue, n, WorkerOf[c], clock)
  BY <1>0 DEF GrantInv, StoreInv, JobOK, WriteJob, PrepareJob, EffectJob,
              ProvenJob, CommitSnapshot
<1> HIDE DEF n
<1>3. \A t \in Tasks :
        /\ queue.tasks[t] \in Task /\ n.tasks[t] \in Task
        /\ ClaimWellFormed(queue.tasks[t])
        /\ queue.tasks[t].epoch \in Nat /\ n.tasks[t].epoch \in Nat
        /\ n.tasks[t].epoch >= queue.tasks[t].epoch
        /\ n.tasks[t].epoch # queue.tasks[t].epoch
             => n.tasks[t].owner = WorkerOf[c]
  <2> TAKE t \in Tasks
  <2>1. queue.tasks[t] \in Task /\ n.tasks[t] \in Task
    BY <1>0, <1>1, TaskOf DEF Readable
  <2>2. n.tasks[t].epoch # queue.tasks[t].epoch
          => n.tasks[t].owner = WorkerOf[c]
    BY <1>0, <1>2, NewGenerationOwned, ClientsAssumption
  <2>3. ClaimStep(queue.tasks[t], n.tasks[t], clock)  BY <1>1
  <2> QED
    BY <1>0, <2>1, <2>2, <2>3 DEF Readable, WellFormed, ClaimStep, Task
<1>4. /\ \A d \in Clients \ {c} : told'[d] = told[d]
      /\ \A t \in Tasks :
           told'[c][t] = IF n.tasks[t].epoch # queue.tasks[t].epoch
                         THEN n.tasks[t].epoch ELSE told[c][t]
  BY <1>0 DEF CommitSnapshot, Reply, GrantInv, StoreInv, TypeOK, n
<1>5. \A d \in Clients, t \in Tasks :
        /\ told[d][t] \in Nat /\ WorkerOf[d] \in Workers
        /\ ToldOf(told[d][t], WorkerOf[d], queue.tasks[t])
        /\ told[d][t] # 0 =>
             \A e \in Clients \ {d} : told[e][t] # told[d][t]
  BY ToldEach, ClientsAssumption DEF GrantInv, StoreInv, TypeOK
<1>6. \A d \in Clients, t \in Tasks :
        /\ ToldOf(told[d][t], WorkerOf[d], n.tasks[t])
        /\ told[d][t] <= queue.tasks[t].epoch
  <2> TAKE d \in Clients, t \in Tasks
  <2>1. ToldOf(told[d][t], WorkerOf[d], n.tasks[t])
    BY <1>1, <1>3, <1>5, ToldStays
  <2>2. told[d][t] <= queue.tasks[t].epoch
    BY <1>3, <1>5 DEF ToldOf
  <2> QED  BY <2>1, <2>2
<1>7. ASSUME NEW d \in Clients, NEW t \in Tasks
      PROVE  /\ ToldOf(told'[d][t], WorkerOf[d], queue'.tasks[t])
             /\ told'[d][t] # 0 =>
                  \A e \in Clients \ {d} : told'[e][t] # told'[d][t]
  <2>1. CASE n.tasks[t].epoch = queue.tasks[t].epoch
    <3>1. \A e \in Clients : told'[e][t] = told[e][t]
      BY <1>4, <2>1
    <3> QED  BY <1>1, <1>5, <1>6, <3>1
  <2>2. CASE n.tasks[t].epoch # queue.tasks[t].epoch
    <3>1. \A e \in Clients : told'[e][t] = IF e = c THEN n.tasks[t].epoch
                                                    ELSE told[e][t]
      BY <1>4, <2>2
    <3>2. \A e \in Clients : told[e][t] < n.tasks[t].epoch
      <4> TAKE e \in Clients
      <4>1. told[e][t] <= queue.tasks[t].epoch  BY <1>6
      <4>2. told[e][t] \in Nat  BY <1>5
      <4> QED  BY <1>3, <2>2, <4>1, <4>2
    <3>3. ToldOf(n.tasks[t].epoch, WorkerOf[c], n.tasks[t])
      BY <1>3, <2>2 DEF ToldOf
    <3>4. ToldOf(told'[d][t], WorkerOf[d], queue'.tasks[t])
      BY <1>1, <1>6, <3>1, <3>3
    <3>5. \A e \in Clients : told[e][t] # n.tasks[t].epoch
      <4> TAKE e \in Clients
      <4>1. told[e][t] < n.tasks[t].epoch  BY <3>2
      <4> QED  BY <1>3, <1>5, <4>1
    <3> QED  BY <1>5, <3>1, <3>4, <3>5
  <2> QED  BY <2>1, <2>2
<1> QED  BY <1>7 DEF OneClientPerGeneration, ToldOf

LEMMA NextTold == GrantInv /\ [Next]_vars => OneClientPerGeneration'
<1> SUFFICES ASSUME GrantInv, [Next]_vars  PROVE OneClientPerGeneration'
  OBVIOUS
<1>1. CASE queue' = queue /\ told' = told
  BY <1>1 DEF GrantInv, OneClientPerGeneration
<1>2. ASSUME NEW c \in Clients, CommitSnapshot(c)
      PROVE  OneClientPerGeneration'
  BY <1>2, ReplyTold
<1>3. ASSUME NEW c \in Clients,
             WriteSnapshotAndRef(c) \/ CommitSnapshotWithRefVerify(c)
      PROVE  OneClientPerGeneration'
  BY <1>3, QuietCommitTold
     DEF Commits, WriteSnapshotAndRef, CommitSnapshotWithRefVerify
<1>4. ASSUME NEW c \in Clients, Crash(c)  PROVE OneClientPerGeneration'
  <2>1. queue' = queue
          /\ \A d \in Clients, t \in Tasks :
               told'[d][t] = IF d = c THEN 0 ELSE told[d][t]
    BY <1>4 DEF Crash, GrantInv, StoreInv, TypeOK
  <2> QED  BY <2>1 DEF GrantInv, OneClientPerGeneration
<1>5. ASSUME NEW c \in Clients, Step(c), ~Commits(c), ~Crash(c)
      PROVE  queue' = queue /\ told' = told
  BY <1>5 DEF Step, Commits, BeginAdd, BeginMarkReady, BeginEdit, BeginClaim,
       BeginClaimReady, RetryClaimReady, BeginRenewClaim, BeginTakeover,
       BeginComment, BeginClose, BeginReopen, BeginResume, BeginRelease,
       BeginRecordFailure, BeginSetIntentRevision, BeginPrepare,
       PrepareReadsRef, BeginApply, ApplyReadsRef, BeginComplete,
       CompleteReadsRef, CompleteReadsBack, BeginCloseWithProof,
       CloseReadsQueue, Conflict, Begin, BeginEffect
<1>6. CASE Environment
  BY <1>1, <1>6 DEF Environment, Queue!MoveRef, Queue!Tick
<1>7. CASE UNCHANGED vars  BY <1>1, <1>7 DEF vars
<1>8. ASSUME NEW c \in Clients, Step(c)  PROVE OneClientPerGeneration'
  BY <1>1, <1>2, <1>3, <1>4, <1>5, <1>8 DEF Commits
<1> QED  BY <1>6, <1>7, <1>8 DEF Next

\* No two clients are ever told that they hold the same generation of a task,
\* however often their compare-and-swaps collide and they crash, and the one
\* that was told is the owner as long as that generation lasts.
THEOREM GenerationsToldOnce == Spec => []OneClientPerGeneration
<1>1. Init => GrantInv
  <2> SUFFICES ASSUME Init  PROVE GrantInv
    OBVIOUS
  <2>1. \A c \in Clients, t \in Tasks : told[c][t] = 0  BY DEF Init
  <2> QED  BY <2>1, StoreInit DEF GrantInv, OneClientPerGeneration
<1>2. GrantInv /\ [Next]_vars => GrantInv'
  BY NextTold, StoreNext DEF GrantInv
<1>3. GrantInv => OneClientPerGeneration  BY DEF GrantInv
<1> QED  BY <1>1, <1>2, <1>3, PTL DEF Spec
=============================================================================
