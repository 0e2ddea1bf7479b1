---------------------------- MODULE MCTaskQueue ----------------------------
(* One instance for the task queue and for its check beside the history of     *)
(* HEAD. A behaviour is of one of them, its subject; the variables of the other *)
(* one stay as they start.                                                     *)
EXTENDS TaskQueue, TaskCheck, TLC

CONSTANTS w1, w2, main, side, x, y, recipe

VARIABLE subject

\* Tasks as the importer writes them.  A claimed one whose ticket carried a ci
\* gate and one failure:
ImportedClaimed ==
  [NoTask EXCEPT !.status = "claimed", !.epoch = 1, !.owner = w1,
                 !.lease = [worker |-> w1, epoch |-> 1, renew |-> 0,
                            duration |-> 1],
                 !.laneRecipe = recipe, !.proofRequired = TRUE,
                 !.gates = {"external"}, !.attempts = 1]

\* One in review behind a human gate:
ImportedInReview ==
  [NoTask EXCEPT !.status = "in-review", !.epoch = 1, !.laneRecipe = recipe,
                 !.proofRequired = TRUE, !.gates = {"human"},
                 !.dependencies = {1}]

\* A lane task (its ticket has an Integration field) ready to be claimed again:
ImportedLane ==
  [NoTask EXCEPT !.status = "ready", !.epoch = 2, !.laneRecipe = recipe,
                 !.proofRequired = TRUE, !.lane = TRUE]

MCImports ==
  {[EmptyState EXCEPT !.version = 1, !.tasks = ts] :
     ts \in {(1 :> ImportedClaimed) @@ (2 :> ImportedInReview),
             (1 :> ImportedLane) @@ (2 :> NoTask)}}

\* Operation ids are interchangeable.
OperationSymmetry == Permutations(Operations)

-----------------------------------------------------------------------------
(* What is checked: a task under way whose ticket says `Gate: none', and one    *)
(* that waits for it; one under way with an empty Gate line (both have failed   *)
(* once); one done by the last commit, beside a recipe that names a new test; a   *)
(* lane task, in a repository with two branches.                                *)

Board(first, second) ==
  [EmptyState EXCEPT !.version = 1, !.tasks = (1 :> first) @@ (2 :> second)]

UnderWay ==
  [NoTask EXCEPT !.status = "claimed", !.owner = w1, !.epoch = 1, !.attempts = 1,
                 !.lease = [worker |-> w1, epoch |-> 1, renew |-> 0, duration |-> 1]]

ImportedProving == [UnderWay EXCEPT !.proofRequired = TRUE, !.laneRecipe = recipe]

ImportedDone ==
  [NoTask EXCEPT !.status = "done", !.proofRequired = TRUE, !.laneRecipe = recipe]

NoFailure == [s \in Signatures \cup {NoSignature} |-> 0]

Unmarked == Marks("unrecorded", <<>>, NoFailure, 0, {})

FailedOnce(record, lines) ==
  Marks(record, lines, [s \in Signatures \cup {NoSignature} |->
                          IF s = NoSignature THEN 0 ELSE 1], 0, {})

OnLine(id, changes) == [id |-> id, changes |-> changes]

CheckCase(first, second, mark, commits, others) ==
  [board |-> [Board(first, second) EXCEPT !.intents = [i \in Intents |-> 1]],
   marks |-> <<mark, Unmarked>>, branches |-> (main :> commits) @@ (side :> others),
   head |-> main, made |-> Len(commits)]

MCCheckCases ==
  {CheckCase(ImportedProving, [NoTask EXCEPT !.status = "open", !.dependencies = {1}],
             FailedOnce("none", <<"none">>), <<OnLine(1, Hunks)>>, <<>>),
   CheckCase(UnderWay, NoTask, FailedOnce("unrecorded", <<"">>), <<OnLine(1, Hunks)>>,
             <<>>),
   CheckCase(ImportedDone, [NoTask EXCEPT !.status = "ready", !.laneRecipe = recipe],
             Marks("unrecorded", <<>>, NoFailure, 2, {"work"}),
             <<OnLine(1, {}), OnLine(2, {"work"})>>, <<>>),
   CheckCase([ImportedLane EXCEPT !.epoch = 0, !.attempts = 1], NoTask,
             Marks("unrecorded", <<>>, [NoFailure EXCEPT ![NoSignature] = 1], 0, {}),
             <<OnLine(1, {"test"}), OnLine(2, {})>>, <<OnLine(1, {"test"})>>)}

MCInit ==
  \/ /\ subject = "queue" /\ Init
     /\ board = EmptyState /\ marks = <<Unmarked, Unmarked>>
     /\ branches = [b \in Branches |-> <<>>] /\ head = main /\ made = 0
     /\ candidates = [o \in Objects |-> <<>>] /\ onto = [o \in Operations |-> 0]
     /\ gone = {} /\ aside = {}
  \/ /\ subject = "check" /\ TaskCheckInit
     /\ queue = EmptyState /\ refs = [r \in EffectRefs |-> NoObject] /\ clock = 0

MCNext ==
  /\ UNCHANGED subject
  /\ \/ subject = "queue" /\ Next /\ UNCHANGED taskCheckVars
     \/ subject = "check" /\ TaskCheckNext /\ UNCHANGED vars
=============================================================================
