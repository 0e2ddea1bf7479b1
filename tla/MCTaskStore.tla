---------------------------- MODULE MCTaskStore ----------------------------
(* Instances of TaskStore for TLC. *)
EXTENDS TaskStore, TLC

CONSTANTS w1, w2, c1, c2, main, x, y, recipe

\* Each client runs under a worker name of its own.
MCWorkerOf == (c1 :> w1) @@ (c2 :> w2)

-----------------------------------------------------------------------------
(* Snapshots to start from. *)

Open == [NoTask EXCEPT !.status = "open", !.laneRecipe = recipe]

Ready == [NoTask EXCEPT !.status = "ready", !.laneRecipe = recipe,
                        !.proofRequired = TRUE]

ClaimedLane ==
  [Ready EXCEPT !.status = "claimed", !.epoch = 1, !.owner = w1, !.lane = TRUE,
                !.lease = [worker |-> w1, epoch |-> 1, renew |-> 0,
                           duration |-> 1]]

Deferred == [Ready EXCEPT !.status = "deferred", !.gates = {"human"}]

\* The tasks 1 and 2, or an id that is not in use.
Imported(first, second) ==
  [EmptyState EXCEPT !.version = 1,
                     !.tasks = (1 :> first) @@ (2 :> second)]

AtRest == {[r \in EffectRefs |-> NoObject]}
Anywhere == [EffectRefs -> Objects \cup {NoObject}]

-----------------------------------------------------------------------------
(* Scenarios. *)

\* Two tasks to claim.
Claiming ==
  [queues |-> {Imported(Ready, Ready)}, refs |-> AtRest, commits |-> 4,
   commands |-> {"claim", "claimReady", "renewClaim", "takeover", "release",
                 "recordFailure", "comment", "crash"}]

\* A lane task claimed by a worker that is gone.
Applying ==
  [queues |-> {Imported(ClaimedLane, NoTask)}, refs |-> Anywhere,
   commits |-> 5,
   commands |-> {"setIntentRevision", "prepareOperation", "applyOperation",
                 "completeOperation", "takeover", "crash", "moveRef"}]

\* A task only a retrospective proof can close.
Proving ==
  [queues |-> {Imported(Ready, NoTask)}, refs |-> Anywhere, commits |-> 5,
   commands |-> {"claim", "release", "takeover", "closeWithProof", "close",
                 "edit", "reopen", "markReady", "moveRef"}]

\* Tasks to edit, reopen and resume; and a queue nobody has written yet.
Editing ==
  [queues |-> {Imported([Ready EXCEPT !.proofRequired = FALSE], Deferred),
               Imported(Open, NoTask)},
   refs |-> AtRest, commits |-> 3,
   commands |-> {"add", "markReady", "edit", "close", "reopen", "resume"}]

Starting ==
  [queues |-> {EmptyState}, refs |-> AtRest, commits |-> 2,
   commands |-> {"add", "markReady", "edit"}]

MCScenarios == {Claiming, Applying, Proving, Editing, Starting}

\* Workers that ask for work until there is none.
Asking ==
  [queues |-> {Imported(Ready, Ready)}, refs |-> AtRest, commits |-> 9,
   commands |-> {"claimReady", "release", "recordFailure"}]

AskScenarios == {Asking}

MCImports == UNION {s.queues : s \in MCScenarios \cup AskScenarios}
               \ {EmptyState}
=============================================================================
