----------------------------- MODULE TaskStore -----------------------------
(***************************************************************************)
(* The Git-ref task store as its clients run it: several processes on one  *)
(* repository, none of them holding a lock.  A command reads the snapshot, *)
(* computes the next one from what it read, perhaps reads an effect ref,   *)
(* and finally asks Git to move refs/krn/queue from the object it read.    *)
(* Between any two of these steps other clients commit, branches move,     *)
(* leases run out and clients crash.                                       *)
(*                                                                         *)
(* The oid of a snapshot is the hash of its content, version included, so  *)
(* Git's comparison of oids is the comparison of snapshots.                *)
(***************************************************************************)
EXTENDS TaskState

CONSTANTS
  Clients,        \* processes
  WorkerOf,       \* the worker name each process runs under
  Scenarios,      \* bound: how a behaviour may start, and what clients call
  ClaimAttempts,  \* tries of claimReady before it gives up (8 in the code)
  Imports, MaxVersion, MaxClock, MaxRevision    \* as in TaskQueue

ASSUME ClientsAssumption ==
  /\ WorkerOf \in [Clients -> Workers]
  /\ ClaimAttempts \in Nat \ {0}

ASSUME ScenariosAssumption ==
  /\ \A s \in Scenarios : s.queues \subseteq {EmptyState} \cup Imports
  /\ \A s \in Imports : Importable(s)
  /\ MaxVersion \in Nat /\ MaxClock \in Nat /\ MaxRevision \in Nat

VARIABLES
  queue, refs, clock,
  job,            \* job[c]: what client c has read and is about to write
  told,           \* told[c][t]: the generation of t that c was last granted
  bounds          \* bound: the commands clients call, and the commits they do

storeVars == <<queue, refs, clock>>
vars == <<queue, refs, clock, job, told, bounds>>

Queue == INSTANCE TaskQueue WITH queue <- queue, refs <- refs, clock <- clock

-----------------------------------------------------------------------------
(* A client's job. *)

Phases == {"idle", "commit", "claimReady", "prepare", "apply", "complete",
           "readback", "move", "verify", "proof"}

Job == [phase : Phases, prev : State, next : State, attempt : Nat,
        operation : Operations \cup {NoOperation}, request : Operation,
        worker : Workers \cup {NoWorker}, epoch : Nat,
        ref : EffectRefs \cup {NoRef}, object : Objects \cup {NoObject},
        task : Tasks \cup {0}, recipe : Recipes \cup {NoRecipe}]

NoJob == [phase |-> "idle", prev |-> EmptyState, next |-> EmptyState,
          attempt |-> 0, operation |-> NoOperation,
          request |-> AbsentOperation, worker |-> NoWorker, epoch |-> 0,
          ref |-> NoRef, object |-> NoObject, task |-> 0,
          recipe |-> NoRecipe]

Init ==
  /\ Queue!Init
  /\ \E s \in Scenarios :
       /\ queue \in s.queues
       /\ refs \in s.refs
       /\ bounds = [commands |-> s.commands, commits |-> s.commits]
  /\ job = [c \in Clients |-> NoJob]
  /\ told = [c \in Clients |-> [t \in Tasks |-> 0]]

\* A caller takes the time of a claim, renewal or takeover before its command
\* reads the snapshot; an operation's lease is judged after the read.
Times == 0..clock

\* Bound: a command begins only if there is a commit left to make.
Idle(c, command) ==
  /\ command \in bounds.commands
  /\ queue.version < bounds.commits
  /\ job[c].phase = "idle"

SetJob(c, j) == job' = [job EXCEPT ![c] = j]

Done(c) == SetJob(c, NoJob)

\* readSnapshot and the change of a queue-only command; the commit is a later
\* step.  A command that throws leaves no trace.
Begin(c, command, nexts) ==
  /\ Idle(c, command)
  /\ \E n \in nexts :
       SetJob(c, [NoJob EXCEPT !.phase = "commit", !.prev = queue, !.next = n])
  /\ UNCHANGED <<queue, refs, clock, told>>

-----------------------------------------------------------------------------
(* The commands that need one read. *)

BeginAdd(c) ==
  \E t \in Tasks, d \in SUBSET Tasks, lane \in BOOLEAN,
     r \in Recipes \cup {NoRecipe} :
    Begin(c, "add", Add(queue, t, d, lane, r))

BeginMarkReady(c) ==
  \E t \in Tasks, admitBlocked \in BOOLEAN :
    Begin(c, "markReady", MarkReady(queue, t, admitBlocked))

BeginEdit(c) ==
  \E t \in Tasks, d \in SUBSET Tasks, lane \in BOOLEAN,
     r \in Recipes \cup {NoRecipe}, text \in BOOLEAN :
    Begin(c, "edit", Edit(queue, t, d, lane, r, text))

BeginClaim(c) ==
  \E t \in Tasks, at \in Times, dur \in Durations :
    Begin(c, "claim", Claim(queue, t, WorkerOf[c], at, dur))

BeginRenewClaim(c) ==
  \E t \in Tasks, at \in Times, dur \in Durations :
    Begin(c, "renewClaim",
          RenewClaim(queue, t, WorkerOf[c], told[c][t], at, dur))

\* The generation to take over comes from an earlier read of the task.
BeginTakeover(c) ==
  \E t \in Tasks, at \in Times, dur \in Durations :
    Begin(c, "takeover",
          Takeover(queue, t, WorkerOf[c], queue.tasks[t].epoch, at, dur))

BeginComment(c) ==
  \E t \in Tasks :
    Begin(c, "comment", Comment(queue, t, WorkerOf[c], told[c][t]))

\* Without a proof the earlier read of the task decides nothing.
BeginClose(c) ==
  \E t \in Tasks, withEpoch \in BOOLEAN :
    Begin(c, "close",
          Close(queue, t, WorkerOf[c], withEpoch, told[c][t], NoRecipe))

BeginReopen(c) == \E t \in Tasks : Begin(c, "reopen", Reopen(queue, t))

BeginResume(c) ==
  \E t \in Tasks :
    Begin(c, "resume",
          Resume(queue, t, queue.tasks[t].status, queue.tasks[t].epoch))

BeginRelease(c) ==
  \E t \in Tasks :
    Begin(c, "release", Release(queue, t, WorkerOf[c], told[c][t]))

BeginRecordFailure(c) ==
  \E t \in Tasks :
    Begin(c, "recordFailure", RecordFailure(queue, t, WorkerOf[c], told[c][t]))

BeginSetIntentRevision(c) ==
  \E i \in Intents, rev \in 1..MaxRevision :
    Begin(c, "setIntentRevision",
          SetIntentRevision(queue, i, rev, queue.intents[i]))

-----------------------------------------------------------------------------
(* claimReady: the one command that retries. *)

TryClaimReady(c, attempt, at, dur) ==
  \E n \in ClaimReady(queue, WorkerOf[c], at, dur) :
    SetJob(c, [NoJob EXCEPT !.phase = "claimReady", !.prev = queue,
                            !.next = n, !.attempt = attempt])

BeginClaimReady(c) ==
  /\ Idle(c, "claimReady")
  /\ \E at \in Times, dur \in Durations : TryClaimReady(c, 1, at, dur)
  /\ UNCHANGED <<queue, refs, clock, told>>

\* Slip: a lost compare-and-swap is tried again with the same old snapshot.
RetryClaimReady_SameSnapshot(c) ==
  /\ job[c].phase = "claimReady"
  /\ queue # job[c].prev
  /\ SetJob(c, [job[c] EXCEPT !.attempt = 3 - @])
  /\ UNCHANGED <<queue, refs, clock, told>>

\* A lost compare-and-swap reads again, up to ClaimAttempts times in all, and
\* gives up when nothing unblocked is ready any more.
RetryClaimReady(c) ==
  /\ job[c].phase = "claimReady"
  /\ queue # job[c].prev
  /\ IF job[c].attempt < ClaimAttempts /\ ReadyTasks(queue) # {}
     THEN \E at \in Times, dur \in Durations :
            TryClaimReady(c, job[c].attempt + 1, at, dur)
     ELSE Done(c)
  /\ UNCHANGED <<queue, refs, clock, told>>

-----------------------------------------------------------------------------
(* prepareOperation reads the snapshot, then the effect ref. *)

\* The owner and generation an operation is prepared for are read from the
\* task by the CLI, so any client may prepare in the name of the owner.  An id
\* in use is refused or answered without a write.
BeginPrepare(c) ==
  \E o \in Operations, t \in Tasks, r \in EffectRefs, x \in Objects,
     i \in Intents, rev \in 1..MaxRevision :
    LET task == queue.tasks[t] IN
    /\ Idle(c, "prepareOperation")
    /\ PrepareOperation(queue, o, t, task.owner, task.epoch, r, x, NoObject, i,
                        rev) # {}
    /\ SetJob(c, [NoJob EXCEPT
                    !.phase = "prepare", !.prev = queue, !.operation = o,
                    !.request = [status |-> "prepared", task |-> t,
                                 owner |-> task.owner, epoch |-> task.epoch,
                                 ref |-> r, object |-> x,
                                 expected |-> NoObject, intent |-> i,
                                 revision |-> rev, recovery |-> NoRecovery]])
    /\ UNCHANGED <<queue, refs, clock, told>>

PrepareReadsRef(c) ==
  LET j == job[c] IN
  /\ j.phase = "prepare"
  /\ \E n \in PrepareOperation(j.prev, j.operation, j.request.task,
                               j.request.owner, j.request.epoch,
                               j.request.ref, j.request.object,
                               refs[j.request.ref], j.request.intent,
                               j.request.revision) :
       SetJob(c, [NoJob EXCEPT !.phase = "commit", !.prev = j.prev,
                               !.next = n])
  /\ UNCHANGED <<queue, refs, clock, told>>

-----------------------------------------------------------------------------
(* applyOperation and completeOperation. *)

\* A caller that names no identity acts as the operation's own owner.
Identities(c, o) ==
  {<<queue.operations[o].owner, queue.operations[o].epoch>>,
   <<WorkerOf[c], IF queue.operations[o].task \in Tasks
                  THEN told[c][queue.operations[o].task] ELSE 0>>}

BeginEffect(c, command, phase) ==
  /\ Idle(c, command)
  /\ \E o \in Operations : \E id \in Identities(c, o) :
       \E n \in ObserveOperation(queue, o, id[1], id[2], clock) :
         SetJob(c, [NoJob EXCEPT !.phase = phase, !.prev = queue, !.next = n,
                                 !.operation = o, !.worker = id[1],
                                 !.epoch = id[2],
                                 !.ref = queue.operations[o].ref,
                                 !.object = queue.operations[o].object])
  /\ UNCHANGED <<queue, refs, clock, told>>

BeginApply(c) == BeginEffect(c, "applyOperation", "apply")

\* The effect ref moved since it was prepared: "ambiguous", nothing written.
ApplyReadsRef(c) ==
  /\ job[c].phase = "apply"
  /\ IF refs[job[c].ref] = job[c].prev.operations[job[c].operation].expected
     THEN SetJob(c, [job[c] EXCEPT !.phase = "move"])
     ELSE Done(c)
  /\ UNCHANGED <<queue, refs, clock, told>>

BeginComplete(c) == BeginEffect(c, "completeOperation", "complete")

\* The first readback, before the authority was judged the first time.
CompleteReadsRef(c) ==
  /\ job[c].phase = "complete"
  /\ IF refs[job[c].ref] = job[c].object
     THEN SetJob(c, [job[c] EXCEPT !.phase = "readback"])
     ELSE Done(c)
  /\ UNCHANGED <<queue, refs, clock, told>>

\* The second readback judges the same snapshot again, at a later time.
CompleteReadsBack(c) ==
  LET j == job[c] IN
  /\ j.phase = "readback"
  /\ IF /\ refs[j.ref] = j.object
        /\ OperationAuthorized(j.prev, j.operation, j.worker, j.epoch, clock)
     THEN SetJob(c, [j EXCEPT !.phase = "verify"])
     ELSE Done(c)
  /\ UNCHANGED <<queue, refs, clock, told>>

-----------------------------------------------------------------------------
(* Close with a retrospective proof. *)

\* The proof is verified against the task as first read and the branch as it
\* is then; the verification runs the deciding check, which takes its time.
BeginCloseWithProof(c) ==
  /\ Idle(c, "closeWithProof")
  /\ \E t \in Tasks, r \in EffectRefs :
       /\ HoldsClaim(queue, t, WorkerOf[c], told[c][t])
       /\ queue.tasks[t].proofRequired
       /\ ~queue.tasks[t].lane
       /\ queue.tasks[t].laneRecipe # NoRecipe
       /\ refs[r] # NoObject
       /\ SetJob(c, [NoJob EXCEPT !.phase = "proof", !.task = t,
                                  !.epoch = told[c][t], !.ref = r,
                                  !.object = refs[r],
                                  !.recipe = queue.tasks[t].laneRecipe])
  /\ UNCHANGED <<queue, refs, clock, told>>

\* Slip: after the proof was verified the claim is not looked at again.
CloseReadsQueue_ClaimNotChecked(c) ==
  LET j == job[c] IN
  /\ j.phase = "proof"
  /\ SetJob(c, [j EXCEPT !.phase = "verify", !.prev = queue,
                          !.next = WithTask(queue, j.task,
                                     [Ended(queue.tasks[j.task], "done") EXCEPT
                                        !.result = NoResult])])
  /\ UNCHANGED <<queue, refs, clock, told>>

\* The transition reads the queue again.
CloseReadsQueue(c) ==
  LET j == job[c]
      nexts == Close(queue, j.task, WorkerOf[c], TRUE, j.epoch, j.recipe)
  IN /\ j.phase = "proof"
     /\ \/ \E n \in nexts : SetJob(c, [j EXCEPT !.phase = "verify",
                                                !.prev = queue, !.next = n])
        \/ nexts = {} /\ Done(c)
     /\ UNCHANGED <<queue, refs, clock, told>>

-----------------------------------------------------------------------------
(* The commit. *)

\* What the reply tells: claim, claimReady and takeover return the task with
\* the generation they granted; no other command changes one.
Reply(c) ==
  told' = [told EXCEPT ![c] = [t \in Tasks |->
             IF job[c].next.tasks[t].epoch # job[c].prev.tasks[t].epoch
             THEN job[c].next.tasks[t].epoch ELSE told[c][t]]]

\* Slip: the queue ref is written whatever it holds.
CompareAndSwap_AnyOldValue(c) ==
  /\ queue.version < MaxVersion
  /\ queue' = [job[c].next EXCEPT !.version = job[c].prev.version + 1]

\* Git's compare-and-swap of refs/krn/queue, up to the bound on commits.
CompareAndSwap(c) ==
  /\ queue.version < MaxVersion
  /\ queue = job[c].prev
  /\ queue' = [job[c].next EXCEPT !.version = job[c].prev.version + 1]

CommitSnapshot(c) ==
  /\ job[c].phase \in {"commit", "claimReady"}
  /\ CompareAndSwap(c)
  /\ Reply(c)
  /\ Done(c)
  /\ UNCHANGED <<refs, clock>>

\* Slip: the effect ref is forced, whatever it holds by now.
WriteSnapshotAndRef_Forced(c) ==
  /\ job[c].phase = "move"
  /\ CompareAndSwap(c)
  /\ refs' = [refs EXCEPT ![job[c].ref] = job[c].object]
  /\ Done(c)
  /\ UNCHANGED <<clock, told>>

\* One transaction: the queue and the effect ref both from their old values.
WriteSnapshotAndRef(c) ==
  /\ job[c].phase = "move"
  /\ CompareAndSwap(c)
  /\ refs[job[c].ref] = job[c].prev.operations[job[c].operation].expected
  /\ refs' = [refs EXCEPT ![job[c].ref] = job[c].object]
  /\ Done(c)
  /\ UNCHANGED <<clock, told>>

\* One transaction: verify the ref that was read back, and move the queue.
CommitSnapshotWithRefVerify(c) ==
  /\ job[c].phase = "verify"
  /\ CompareAndSwap(c)
  /\ refs[job[c].ref] = job[c].object
  /\ Done(c)
  /\ UNCHANGED <<refs, clock, told>>

\* Git refuses: StoreConflict reaches the caller and nothing is written.
Conflict(c) ==
  /\ \/ /\ job[c].phase \in {"commit", "move", "verify"}
        /\ queue # job[c].prev
     \/ /\ job[c].phase = "move"
        /\ refs[job[c].ref] # job[c].prev.operations[job[c].operation].expected
     \/ /\ job[c].phase = "verify"
        /\ refs[job[c].ref] # job[c].object
  /\ Done(c)
  /\ UNCHANGED <<queue, refs, clock, told>>

\* A client dies, before its commit or after it but before the reply is used.
Crash(c) ==
  /\ "crash" \in bounds.commands
  /\ job[c].phase # "idle" \/ \E t \in Tasks : told[c][t] # 0
  /\ Done(c)
  /\ told' = [told EXCEPT ![c] = [t \in Tasks |-> 0]]
  /\ UNCHANGED <<queue, refs, clock>>

Step(c) ==
  \/ BeginAdd(c) \/ BeginMarkReady(c) \/ BeginEdit(c) \/ BeginClaim(c)
  \/ BeginClaimReady(c) \/ RetryClaimReady(c) \/ BeginRenewClaim(c)
  \/ BeginTakeover(c) \/ BeginComment(c) \/ BeginClose(c) \/ BeginReopen(c)
  \/ BeginResume(c) \/ BeginRelease(c) \/ BeginRecordFailure(c)
  \/ BeginSetIntentRevision(c) \/ BeginPrepare(c) \/ PrepareReadsRef(c)
  \/ BeginApply(c) \/ ApplyReadsRef(c) \/ BeginComplete(c)
  \/ CompleteReadsRef(c) \/ CompleteReadsBack(c) \/ BeginCloseWithProof(c)
  \/ CloseReadsQueue(c) \/ CommitSnapshot(c) \/ WriteSnapshotAndRef(c)
  \/ CommitSnapshotWithRefVerify(c) \/ Conflict(c) \/ Crash(c)

\* Branches move and time passes whatever the clients do.
Environment ==
  /\ \/ "moveRef" \in bounds.commands /\ Queue!MoveRef
     \/ Queue!Tick
  /\ UNCHANGED <<job, told>>

Next ==
  /\ Environment \/ \E c \in Clients : Step(c)
  /\ UNCHANGED bounds

Spec == Init /\ [][Next]_vars

-----------------------------------------------------------------------------
(* Fairness. *)

\* A worker that is told of no claim asks with `task claim --ready`, and asks
\* again when the command failed, which is the caller's part; a process that has
\* begun the command runs it to its end, which is claimReady's.  A worker that
\* has a claim need do nothing.
AsksForWork(c) ==
  /\ \/ BeginClaimReady(c) /\ \A t \in Tasks : told[c][t] = 0
     \/ RetryClaimReady(c)
     \/ CommitSnapshot(c)
     \/ Conflict(c)
  /\ UNCHANGED bounds

Fairness == \A c \in Clients : WF_vars(AsksForWork(c))

FairSpec == Spec /\ Fairness

-----------------------------------------------------------------------------
(* Properties. *)

\* Reads and commits of concurrent clients, crashes and branch moves add up to
\* commands that act one at a time: no update is lost, no stale decision lands,
\* and an effect ref moves in the same instant as the queue that records it.
ImplementsTaskQueue == Queue!Spec

\* Two clients are never told that they hold the same generation of a task,
\* and the one that was told is its owner while the generation is current.
OneClientPerGeneration ==
  \A c \in Clients, t \in Tasks :
    told[c][t] # 0 =>
      /\ told[c][t] <= queue.tasks[t].epoch
      /\ (queue.tasks[t].status = "claimed"
            /\ told[c][t] = queue.tasks[t].epoch)
           => queue.tasks[t].owner = WorkerOf[c]
      /\ \A d \in Clients \ {c} : told[d][t] # told[c][t]

\* With as many workers as ready tasks, every ready task is claimed in the end,
\* however often their compare-and-swaps collide: a conflict means that another
\* client committed, and the retry decides again on what it committed.
ReadyTasksGetClaimed == <>[](ReadyTasks(queue) = {})
=============================================================================
