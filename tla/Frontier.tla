------------------------------ MODULE Frontier ------------------------------
(***************************************************************************)
(* The lane loop: scripts/lane/run-frontier.sh picks a task, claims it,    *)
(* runs one isolated lane on it (run-ticket.sh), merges the lane's branch  *)
(* into a candidate, checks the candidate, and lands it with a prepared    *)
(* operation.  Several loops share one repository with people who push,    *)
(* merge with integrate.sh and run `krn task' by hand.                     *)
(*                                                                         *)
(* The shell runs under set -e, so whatever refuses a lane ends its loop   *)
(* and leaves the task claimed.  A `krn task' command acts at one instant  *)
(* here; TaskStore shows that its reads and its compare-and-swap amount to *)
(* that.                                                                   *)
(***************************************************************************)
EXTENDS TaskState, LaneRun

CONSTANTS
  Runners,      \* frontier loops
  Worker,       \* Worker[r]: the WORKER_NAME of loop r
  MovingBase,   \* recipes whose Repository-base is the target branch itself
  Intent,       \* KRN_INTENT_ID
  Scenarios,    \* how a behaviour starts and which hand commands it has
  Main,         \* the branch checked out in the repository
  MaxEpoch,     \* bound: generations of a claim
  MaxPushes,    \* bound: commits pushed by hand
  MaxVersion,   \* bound: commits of the queue ref
  MaxClock      \* bound: ticks of the clock

VARIABLES
  queue,        \* the snapshot refs/krn/queue points at
  head,         \* the commit Main points at
  clock,
  lane,         \* what each loop is doing
  receipt,      \* the check each prepared operation carries a green result of
  hands         \* the hand commands of this behaviour

frontierVars == <<queue, head, clock, lane, receipt, hands>>

-----------------------------------------------------------------------------
(* Commits. *)

\* A piece of work: of the generation e of task t, or the n-th push <<0, n>>.
Work == (Tasks \X (1..MaxEpoch)) \cup ({0} \X (1..MaxPushes))

\* A commit: the work its history contains, the recipes whose deciding check
\* passes on it, and what made it, for two commits may hold the same work.
Commits == [has : SUBSET Work, green : SUBSET Recipes,
            by : {"base", "work", "merge", "hand"} \X Work
                   \cup {<<"base", <<0, 0>>>>}]

\* The commits of the queue are those of the repository. A behaviour starts from a
\* queue the commands can have written: nothing prepared, no lane task done. Every
\* generation of its tasks has an operation id.
ASSUME FrontierAssumption ==
  /\ Objects = Commits
  /\ Worker \in [Runners -> Workers]
  /\ Main \in EffectRefs
  /\ Intent \in Intents
  /\ MaxEpoch \in Nat /\ MaxPushes \in Nat
  /\ \A scenario \in Scenarios :
       /\ scenario.recipes \subseteq Recipes
       /\ scenario.queue \in State
       /\ scenario.queue.operations = EmptyState.operations
       /\ \A t \in Tasks :
            LET task == scenario.queue.tasks[t] IN
            /\ ClaimWellFormed(task)
            /\ task.status = "absent" => task = NoTask
            /\ task.lane => task.status # "done"
            /\ task.status # "absent" => {t} \X (1..MaxEpoch) \subseteq Operations

FirstCommit == [has |-> {}, green |-> {}, by |-> <<"base", <<0, 0>>>>]

\* What `git merge-tree' of two commits may give, by this maker: the tree of
\* the one that contains the other, any tree otherwise.
Merged(x, y, by) ==
  {[has |-> x.has \cup y.has, green |-> g, by |-> by] :
     g \in IF x.has \subseteq y.has THEN {y.green}
           ELSE IF y.has \subseteq x.has THEN {x.green} ELSE SUBSET hands.recipes}

\* The commit Repository-base names at this moment.
BaseOf(recipe) == IF recipe \in MovingBase THEN head ELSE FirstCommit

-----------------------------------------------------------------------------
(* Lanes. *)

Between(runs) == [pc |-> "idle", runs |-> runs, task |-> 0, epoch |-> 0,
               revision |-> 0, base |-> NoObject, work |-> NoObject,
               recipe |-> NoRecipe, target |-> NoObject,
               candidate |-> NoObject]

Goes(r, next) == lane' = [lane EXCEPT ![r] = next]

At(r, pc) == lane[r].pc = pc

\* The generation the lane works for.
Generation(r) == <<lane[r].task, lane[r].epoch>>

\* The operation id the lane writes down: integrate:<task>:<epoch>.
OperationId(r) == Generation(r)

RecipeOf(t) == queue.tasks[t].laneRecipe

\* Anything that fails ends the loop; nothing is undone.
Stop(r) ==
  /\ lane[r].pc \notin {"finished", "stopped"}
  /\ Goes(r, [Between(lane[r].runs) EXCEPT !.pc = "stopped"])
  /\ UNCHANGED <<queue, head, clock, receipt, hands>>

\* `krn task next': the unblocked ready tasks; the loop takes the first.
Pick(r) ==
  /\ At(r, "idle")
  /\ \/ /\ lane[r].runs = hands.maxRuns \/ ReadyTasks(queue) = {}
        /\ Goes(r, [Between(lane[r].runs) EXCEPT !.pc = "finished"])
     \/ /\ lane[r].runs # hands.maxRuns
        /\ \E t \in ReadyTasks(queue) :
             /\ \A u \in ReadyTasks(queue) : t <= u
             /\ Goes(r, [lane[r] EXCEPT !.pc = "picked", !.runs = @ + 1,
                                        !.task = t])
  /\ UNCHANGED <<queue, head, clock, receipt, hands>>

\* The revision of the outcome; a provided one must be the stored one.
ReadIntent(r) ==
  /\ At(r, "picked")
  /\ queue.intents[Intent] >= 1
  /\ hands.given \in {0, queue.intents[Intent]}
  /\ Goes(r, [lane[r] EXCEPT !.pc = "intended",
                             !.revision = queue.intents[Intent]])
  /\ UNCHANGED <<queue, head, clock, receipt, hands>>

Writes(nexts) ==
  /\ queue.version < MaxVersion
  /\ queue' \in {[n EXCEPT !.version = queue.version + 1] : n \in nexts}

ClaimPicked(r) ==
  LET t == lane[r].task IN
  /\ At(r, "intended")
  /\ queue.tasks[t].epoch < MaxEpoch
  /\ \E d \in Durations : Writes(Claim(queue, t, Worker[r], clock, d))
  /\ Goes(r, [lane[r] EXCEPT !.pc = "claimed",
                             !.epoch = queue'.tasks[t].epoch])
  /\ UNCHANGED <<head, clock, receipt, hands>>

\* The lane starts: it clones the repository at Repository-base and runs the
\* deciding check there.
Cut(r) ==
  LET recipe == RecipeOf(lane[r].task) IN
  /\ At(r, "claimed")
  /\ recipe # NoRecipe
  /\ \E host \in Hosts, present \in BOOLEAN, loads \in BOOLEAN,
        answer \in RecallAnswers, writable \in BOOLEAN,
        report \in ProbeReports :
       Preflight(host, ClassifyCheck("file", present, loads,
                                     recipe \in BaseOf(recipe).green),
                 SnapshotRecall(answer, writable), {report}) = 0
  /\ Goes(r, [lane[r] EXCEPT !.pc = "cut", !.base = BaseOf(recipe)])
  /\ UNCHANGED <<queue, head, clock, receipt, hands>>

\* The worker session in the clone.  What it committed is fetched as a branch
\* of the repository; a lane that ends with 0 has passed the worker gate.  A
\* lane with nothing to fetch may pass that gate too, but has no branch.
WorkerSession(r) ==
  /\ At(r, "cut")
  /\ \E session \in Sessions, gate \in BOOLEAN, g \in SUBSET hands.recipes :
       /\ HasCommit(session)
       /\ LaneExit(session, TRUE, "file", gate) = 0
       /\ Goes(r, [lane[r] EXCEPT
                     !.pc = "worked",
                     !.work = [has |-> lane[r].base.has \cup {Generation(r)},
                               green |-> g,
                               by |-> <<"work", Generation(r)>>]])
  /\ UNCHANGED <<queue, head, clock, receipt, hands>>

\* Slip: what passed before the merge is taken to pass after it.
Proven_Presumed(recipe, c) == TRUE

\* The deciding check passes on the candidate.
Proven(recipe, c) == ClassifyCheck("file", TRUE, TRUE, recipe \in c.green) = 0

\* Behind the publication gate: the task is read again, the target branch must
\* be where Repository-base is now, the two are merged without touching the
\* branch, and the candidate passes the deciding check and the contract check.
Merge(r) ==
  LET recipe == RecipeOf(lane[r].task) IN
  /\ At(r, "worked")
  /\ recipe # NoRecipe
  /\ BaseOf(recipe) = head
  /\ \E c \in Merged(head, lane[r].work, <<"merge", Generation(r)>>) :
       /\ Proven(recipe, c)
       /\ Goes(r, [lane[r] EXCEPT !.pc = "merged", !.base = NoObject,
                                  !.recipe = recipe, !.target = head,
                                  !.candidate = c])
  /\ UNCHANGED <<queue, head, clock, receipt, hands>>

\* Slip: the receipt is not compared with the task.
ReceiptFits_Any(r) == TRUE

\* The receipt is of the check the task has now.
ReceiptFits(r) == lane[r].recipe = RecipeOf(lane[r].task)

\* `krn task operation prepare' writes the operation down in the name of the
\* owner and generation the task has now, if the receipt is of its check.
Prepare(r) ==
  LET t == lane[r].task
      task == queue.tasks[t]
      o == OperationId(r)
  IN /\ At(r, "merged")
     /\ task.status = "claimed" /\ task.lane /\ task.laneRecipe # NoRecipe
     /\ ReceiptFits(r)
     /\ head = lane[r].target
     /\ Writes(PrepareOperation(queue, o, t, task.owner, task.epoch, Main,
                                lane[r].candidate, lane[r].target, Intent,
                                lane[r].revision))
     /\ receipt' = [receipt EXCEPT ![o] = lane[r].recipe]
     /\ Goes(r, [lane[r] EXCEPT !.pc = "prepared", !.recipe = NoRecipe,
                                !.target = NoObject])
     /\ UNCHANGED <<head, clock, hands>>

\* Slip: the branch is moved from wherever it is.
StillExpected_Anywhere(o) == TRUE

StillExpected(o) == head = queue.operations[o].expected

\* `krn task operation apply': branch and queue move in one transaction.
Lands(o, worker, epoch) ==
  /\ queue.operations[o].status = "prepared"
  /\ StillExpected(o)
  /\ Writes(ObserveOperation(queue, o, worker, epoch, clock))
  /\ head' = queue.operations[o].object

\* Applying an operation that is already observed changes nothing.
Apply(r) ==
  LET o == OperationId(r) IN
  /\ At(r, "prepared")
  /\ \/ Lands(o, Worker[r], lane[r].epoch)
     \/ /\ queue.operations[o].status = "observed"
        /\ UNCHANGED <<queue, head>>
  /\ Goes(r, [lane[r] EXCEPT !.pc = "applied"])
  /\ UNCHANGED <<clock, receipt, hands>>

\* The branch still reads as the candidate: on to the next task.
Readback(r) ==
  /\ At(r, "applied")
  /\ head = lane[r].candidate
  /\ Goes(r, Between(lane[r].runs))
  /\ UNCHANGED <<queue, head, clock, receipt, hands>>

-----------------------------------------------------------------------------
(* Hands. *)

\* People only add commits to the branch.
Push ==
  /\ "push" \in hands.commands
  /\ \E n \in 1..MaxPushes, g \in SUBSET hands.recipes :
       /\ <<0, n>> \notin head.has
       /\ n > 1 => <<0, n - 1>> \in head.has
       /\ head' = [has |-> head.has \cup {<<0, n>>}, green |-> g,
                   by |-> <<"hand", <<0, n>>>>]
  /\ UNCHANGED <<queue, clock, lane, receipt, hands>>

\* integrate.sh merges the branch of a lane where the branch is; its checks run
\* on the merge and only report.
Integrate ==
  /\ "integrate" \in hands.commands
  /\ \E r \in Runners :
       /\ lane[r].work # NoObject
       /\ ~(lane[r].work.has \subseteq head.has)
       /\ head' \in Merged(head, lane[r].work, <<"hand", Generation(r)>>)
  /\ UNCHANGED <<queue, clock, lane, receipt, hands>>

\* A `krn task' command by hand that writes only the queue.
HandCommand(t) ==
  \/ /\ "takeover" \in hands.commands
     /\ queue.tasks[t].epoch < MaxEpoch
     /\ \E w \in Workers, d \in Durations :
          Writes(Takeover(queue, t, w, queue.tasks[t].epoch, clock, d))
  \/ /\ "reclaim" \in hands.commands
     /\ queue.tasks[t].epoch < MaxEpoch
     /\ \E w \in Workers, d \in Durations :
          Writes(Claim(queue, t, w, clock, d))
  \/ /\ "release" \in hands.commands
     /\ Writes(Release(queue, t, queue.tasks[t].owner, queue.tasks[t].epoch))
  \/ /\ "reopen" \in hands.commands
     /\ Writes(Reopen(queue, t))
  \/ /\ "ready" \in hands.commands
     /\ Writes(MarkReady(queue, t, FALSE))
  \/ /\ "edit" \in hands.commands
     /\ \E recipe \in Recipes :
          Writes(Edit(queue, t, queue.tasks[t].dependencies,
                      queue.tasks[t].lane, recipe, FALSE))
  \/ /\ "intent" \in hands.commands
     /\ queue.intents[Intent] = 1
     /\ Writes(SetIntentRevision(queue, Intent, 2, 1))

TaskByHand ==
  /\ \E t \in Tasks : HandCommand(t)
  /\ UNCHANGED <<head, clock, lane, receipt, hands>>

\* The owner of a task applies or completes any of its operations.
OperationByHand ==
  /\ "apply" \in hands.commands
  /\ \E o \in Operations :
       LET operation == queue.operations[o]
           task == queue.tasks[operation.task]
       IN /\ operation.status = "prepared"
          /\ \/ Lands(o, task.owner, task.epoch)
             \/ /\ head = operation.object
                /\ Writes(ObserveOperation(queue, o, task.owner, task.epoch,
                                           clock))
                /\ UNCHANGED head
  /\ UNCHANGED <<clock, lane, receipt, hands>>

Tick ==
  /\ "tick" \in hands.commands
  /\ clock < MaxClock
  /\ clock' = clock + 1
  /\ UNCHANGED <<queue, head, lane, receipt, hands>>

-----------------------------------------------------------------------------
FrontierInit ==
  /\ hands \in Scenarios
  /\ queue = hands.queue
  /\ head = FirstCommit
  /\ clock = 0
  /\ lane = [r \in Runners |->
               [Between(0) EXCEPT !.pc = IF r \in hands.runners THEN "idle"
                                                             ELSE "finished"]]
  /\ receipt = [o \in Operations |-> NoRecipe]

LoopStep(r) ==
  \/ Pick(r) \/ ReadIntent(r) \/ ClaimPicked(r) \/ Cut(r) \/ WorkerSession(r)
  \/ Merge(r) \/ Prepare(r) \/ Apply(r) \/ Readback(r)

FrontierNext ==
  \/ \E r \in Runners : LoopStep(r) \/ Stop(r)
  \/ Push \/ Integrate \/ TaskByHand \/ OperationByHand \/ Tick

FrontierSpec == FrontierInit /\ [][FrontierNext]_frontierVars

-----------------------------------------------------------------------------
(* Properties. *)

\* A receipt is true of the candidate it came with: whoever prepared the
\* operation, whatever moved or was edited between the check and the writing,
\* the commit an operation may land passes the check its receipt names, and
\* contains the branch it is to replace. A lane task is done only when the work
\* its operation names is on the branch.
ReceiptsTrue ==
  /\ \A o \in Operations :
       LET operation == queue.operations[o] IN
       operation.status # "absent" =>
         /\ receipt[o] \in operation.object.green
         /\ operation.expected.has \subseteq operation.object.has
  /\ \A t \in Tasks :
       LET task == queue.tasks[t] IN
       (task.lane /\ task.status = "done") =>
         task.result.object.has \subseteq head.has

\* Nothing that reached the branch is lost: not by a lane cut before a push, nor
\* by two lanes that land in turn, nor by an operation applied long after it was
\* prepared (run-frontier.sh pins its expected value before the lane starts). And
\* what a task's own generation lands proves the recipe the task has at that
\* moment. (An operation a takeover handed over may carry the receipt of a recipe
\* the task no longer has; ReceiptsTrue is what still holds of it.)
LandsAsClaimed ==
  [][/\ head.has \subseteq head'.has
     /\ \A o \in Operations :
          LET operation == queue.operations[o]  task == queue.tasks[operation.task] IN
          (/\ operation.status = "prepared" /\ queue'.operations[o].status = "observed"
           /\ operation.epoch = task.epoch)
            => receipt[o] = RecipeOf(operation.task)]_frontierVars
=============================================================================
