------------------------------ MODULE TaskCheck ------------------------------
(***************************************************************************)
(* `krn task check' and `krn task next' on the selected queue              *)
(* (ticket-check.mjs): what they find wrong with the queue beside the      *)
(* history of HEAD, and what they offer.  One error empties the offer, for *)
(* all tasks; the lane loop then stops.                                    *)
(*                                                                         *)
(* An imported lane task is done by an operation on its effect ref, which  *)
(* need not be the branch HEAD is on.                                      *)
(*                                                                         *)
(* Left out: warnings; the scope and the contract of the one task that a   *)
(* check may name; the Markdown files `checkTickets' reads without a queue.*)
(***************************************************************************)
EXTENDS TaskState, Sequences

CONSTANTS
  Signatures,   \* of failures
  NoSignature,  \* a failure recorded without one
  Hunks,        \* what commits change
  Observer,     \* the hunk that adds the test file of the careless recipes
  Careless,     \* recipes on the branch itself that name a test file and have
                \* neither package.json in their scope nor it in their acceptance
  Branches,     \* branches that may be checked out, the effect refs among them
  CheckCases,   \* queues and histories to start from
  MaxMade,      \* bound: commits made
  MaxClaims     \* bound: generations of a task

ASSUME MadeAssumption == MaxMade \in Nat /\ EffectRefs \subseteq Branches

VARIABLES
  board,      \* the snapshot refs/krn/queue points at
  marks,      \* what else of a task the check reads
  branches,   \* the commits of each branch's history, <<>> before it exists
  head,       \* the branch HEAD is on
  candidates, \* the commits of each object's history, <<>> before there is one
  onto,       \* the commit the effect ref had when an operation was prepared
  made,       \* how many commits there have been
  gone,       \* history: commits that HEAD has left behind
  aside       \* history: commits an operation landed where HEAD was not

gitVars == <<branches, head, candidates, onto, made, gone, aside>>

taskCheckVars == <<board, marks, gitVars>>

\* Any commit: its id, and what it changes.
LineCommits == [id : 1..MaxMade, changes : SUBSET Hunks]

Ids(commits) == {commits[i].id : i \in DOMAIN commits}

Contents(commits) == UNION {commits[i].changes : i \in DOMAIN commits}

\* The commit a history ends in, 0 of none.
Tip(commits) == IF commits = <<>> THEN 0 ELSE commits[Len(commits)].id

\* HEAD's history.
Mainline == branches[head]

\* The commit the Evidence of a ticket names, or the proof of its last close.
CommitOf(mark) == IF mark.proof # 0 THEN mark.proof ELSE mark.imported

\* The last of the Gate lines is shown.
LastLine(lines) == IF lines = <<>> THEN "" ELSE lines[Len(lines)]

\* A behaviour starts from a queue and a history without an error: whoever is
\* blocked has a gate, whoever is done with proof names a commit of the line, and
\* no failure is told apart without being counted.
MarkSound(task, mark, commits) ==
  /\ task.status = "blocked" => mark.gate # "none" /\ LastLine(mark.gateLines) # ""
  /\ task.status = "done" /\ task.proofRequired => CommitOf(mark) \in Ids(commits)
  /\ \A s \in Signatures :
       /\ mark.failures[s] <= task.attempts
       /\ mark.failures[s] >= MaxAttempts => "retries-exhausted" \in task.gates

ASSUME CasesAssumption ==
  \A case \in CheckCases :
    /\ case.board \in State /\ NoTaskStoreErrors(case.board)
    /\ case.board.operations = EmptyState.operations
    /\ case.branches \in [Branches -> Seq(LineCommits)] /\ case.head \in Branches
    /\ case.made \in Nat /\ \A b \in Branches : Ids(case.branches[b]) \subseteq 1..case.made
    /\ case.marks \in [Tasks -> [gate : STRING, gateLines : Seq(STRING),
                                 failures : [Signatures \cup {NoSignature} -> Nat],
                                 imported : Nat, patch : SUBSET Hunks, proof : Nat]]
    /\ \A t \in Tasks :
         /\ ClaimWellFormed(case.board.tasks[t])
         /\ ~Exists(case.board, t) => case.board.tasks[t] = NoTask
         /\ case.board.tasks[t].result = NoResult
         /\ MarkSound(case.board.tasks[t], case.marks[t], case.branches[case.head])

-----------------------------------------------------------------------------
(* The view of a task. *)

\* record is the kind of the typed gate, or "unrecorded"; gateLines are all the
\* Gate lines of the fields, in order; failures counts the Attempts lines by
\* signature; imported and proof are the commits that the Evidence line of the
\* ticket and the proof of a close name (0: none), patch is the patch id there.
Marks(record, gateLines, failures, imported, patch) ==
  [gate |-> record, gateLines |-> gateLines, failures |-> failures,
   imported |-> imported, patch |-> patch, proof |-> 0]

\* Slip: of several Gate lines the first one is shown.
ShownGate_First(t) ==
  IF marks[t].gateLines = <<>> THEN "" ELSE Head(marks[t].gateLines)

ShownGate(t) == LastLine(marks[t].gateLines)

\* Slip: what an operation did is not looked at.
Integrated_TicketOnly(t) == CommitOf(marks[t])

\* The commit a done task names: the effect of the operation it was done by,
\* before what its proof or its ticket says.
Integrated(t) ==
  LET result == board.tasks[t].result IN
  IF result.operation # NoOperation THEN Tip(candidates[result.object])
                                    ELSE CommitOf(marks[t])

-----------------------------------------------------------------------------
(* The check. base is how much of the line lies behind --base, 0 without it. *)

Error(rule, tasks) == {[rule |-> rule, task |-> t] : t \in tasks}

\* Only the whole of a range has a patch id here: `git log -p' prints none.
RangePatchIds(base) ==
  LET range == Contents(SubSeq(Mainline, base + 1, Len(Mainline)))
  IN IF base = 0 \/ range = {} THEN {} ELSE {range}

\* A done task that needs proof names no commit of HEAD's history, and its
\* patch is not that of the range.
Unanchored(t, base) ==
  /\ board.tasks[t].status = "done" /\ board.tasks[t].proofRequired
  /\ Integrated(t) \notin Ids(Mainline)
  /\ Integrated(t) # 0 => marks[t].patch \notin RangePatchIds(base)

\* A ready task whose deciding test neither exists at its base nor is wired in.
Unwired(t) ==
  /\ board.tasks[t].status = "ready"
  /\ board.tasks[t].laneRecipe \in Careless
  /\ Observer \notin Contents(Mainline)

BlockedWithoutGate(t) ==
  /\ board.tasks[t].status = "blocked"
  /\ ShownGate(t) = "" \/ marks[t].gate = "none"

\* The same failure again and again, whatever became of the task since.
Stalled(t) == \E s \in Signatures : marks[t].failures[s] >= MaxAttempts

Errors(base) ==
  (IF NoTaskStoreErrors(board) THEN {} ELSE Error("task-store-invalid", {0}))
    \cup Error("unknown-blocker",
               {t \in Tasks : ~\A d \in board.tasks[t].dependencies : Exists(board, d)})
    \cup Error("dependency-cycle",
               {t \in Tasks : Exists(board, t) /\ HasDependencyCycle(board, t)})
    \cup Error("evidence-anchor-missing", {t \in Tasks : Unanchored(t, base)})
    \cup Error("scope-missing-package-json", {t \in Tasks : Unwired(t)})
    \cup Error("blocked-without-gate", {t \in Tasks : BlockedWithoutGate(t)})
    \cup Error("stalled-signature", {t \in Tasks : Stalled(t)})

\* `krn task next': the unblocked ready tasks, unless there is any error.
Offered == IF Errors(0) = {} THEN ReadyTasks(board) ELSE {}

-----------------------------------------------------------------------------
(* Commands. *)

ClaimLeft(t) == board.tasks[t].epoch < MaxClaims

Leaves(next) == board' \in next

\* The first moment at which the lease of t is over. A lease can run out at any
\* time, so there is no clock.
Expiry(t) == board.tasks[t].lease.renew + board.tasks[t].lease.duration

\* What a queue command leaves of the rest.
Plainly(next) == Leaves(next) /\ UNCHANGED <<marks, gitVars>>

\* The lane loop takes the first of what is offered.
ClaimOffered ==
  \E t \in Offered, w \in Workers :
    /\ \A u \in Offered : t <= u
    /\ ClaimLeft(t)
    /\ \E d \in Durations : Plainly(Claim(board, t, w, 0, d))

QueueByHand(t) ==
  \/ Plainly(MarkReady(board, t, FALSE))
  \/ /\ ClaimLeft(t)
     /\ \E w \in Workers, d \in Durations : Plainly(Claim(board, t, w, 0, d))
  \/ Plainly(Reopen(board, t))
  \/ Plainly(Release(board, t, board.tasks[t].owner, board.tasks[t].epoch))
  \/ /\ ClaimLeft(t)
     /\ \E w \in Workers, d \in Durations :
          Plainly(Takeover(board, t, w, board.tasks[t].epoch, Expiry(t), d))
  \/ \E status \in {"blocked", "in-review", "deferred"} :
       Plainly(Resume(board, t, status, board.tasks[t].epoch))
  \/ \E dependencies \in SUBSET {u \in Tasks : Exists(board, u)} :
       Plainly(Edit(board, t, dependencies, board.tasks[t].lane,
                    board.tasks[t].laneRecipe, FALSE))

\* Slip: the typed gate stays beside the new line.
Parked_KeepsRecord(mark) ==
  [mark EXCEPT !.gateLines = Append(@, "retries-exhausted")]

\* The failure that spends the budget drops the typed gate and adds a Gate line.
Parked(mark) ==
  [mark EXCEPT !.gate = "unrecorded", !.gateLines = Append(@, "retries-exhausted")]

\* `krn task fail'.
Fail(t, signature) ==
  /\ Leaves(RecordFailure(board, t, board.tasks[t].owner, board.tasks[t].epoch))
  /\ LET failed == [marks[t] EXCEPT !.failures[signature] = @ + 1]
     IN marks' = [marks EXCEPT ![t] =
                    IF board'.tasks[t].status = "blocked" THEN Parked(failed)
                                                           ELSE failed]
  /\ UNCHANGED gitVars

\* A close with a retrospective proof, which is checked on HEAD and written
\* together with the look at the branch.
CloseProven(t) ==
  /\ Mainline # <<>>
  /\ Leaves(Close(board, t, board.tasks[t].owner, TRUE, board.tasks[t].epoch,
                  board.tasks[t].laneRecipe))
  /\ board.tasks[t].proofRequired
  /\ marks' = [marks EXCEPT ![t].proof = Tip(Mainline)]
  /\ UNCHANGED gitVars

-----------------------------------------------------------------------------
(* Git. *)

\* Branches come to have these histories, and HEAD is on this one of them.
GitMoves(histories, on) ==
  /\ branches' = histories /\ head' = on
  /\ gone' = (gone \cup Ids(Mainline)) \ Ids(histories[on])

\* People move the branch HEAD is on.
MovesTo(commits) ==
  /\ GitMoves([branches EXCEPT ![head] = commits], head)
  /\ UNCHANGED <<board, marks, candidates, onto, aside>>

CommitChange(c) ==
  /\ made < MaxMade /\ c \notin Contents(Mainline)
  /\ MovesTo(Append(Mainline, [id |-> made + 1, changes |-> {c}]))
  /\ made' = made + 1

\* The commits after the i-th become one: a squash merge, or, of a single one,
\* an amend or a rebase.
Squash(i) ==
  /\ made < MaxMade /\ i < Len(Mainline)
  /\ MovesTo(Append(SubSeq(Mainline, 1, i),
                    [id |-> made + 1,
                     changes |-> Contents(SubSeq(Mainline, i + 1, Len(Mainline)))]))
  /\ made' = made + 1

\* Another branch, or a candidate, that HEAD's history leads to.
FastForward(commits) ==
  /\ Len(Mainline) < Len(commits) /\ SubSeq(commits, 1, Len(Mainline)) = Mainline
  /\ MovesTo(commits)
  /\ UNCHANGED made

Switch(b) ==
  /\ b # head /\ branches[b] # <<>>
  /\ GitMoves(branches, b)
  /\ UNCHANGED <<board, marks, candidates, onto, made, aside>>

-----------------------------------------------------------------------------
(* Lane tasks, done by an operation. *)

\* A lane works on a branch for a claimed task, and its work passes the recipe.
Candidate(x) ==
  /\ candidates[x] = <<>> /\ made < MaxMade
  /\ \E t \in Tasks : board.tasks[t].status = "claimed" /\ board.tasks[t].lane
  /\ \E b \in Branches : \E c \in Hunks \ Contents(branches[b]) :
       candidates' = [candidates EXCEPT
         ![x] = Append(branches[b], [id |-> made + 1, changes |-> {c}])]
  /\ made' = made + 1
  /\ UNCHANGED <<board, marks, branches, head, onto, gone, aside>>

\* `krn task operation prepare'. A branch may be at any commit, where the queue's
\* own record knows candidates only: onto has the value to expect.
PrepareLane(o, t) ==
  LET task == board.tasks[t] IN
  /\ task.lane /\ task.laneRecipe # NoRecipe
  /\ \E x \in Objects, r \in EffectRefs, i \in Intents :
       /\ candidates[x] # <<>>
       /\ Leaves(PrepareOperation(board, o, t, task.owner, task.epoch, r, x,
                                  NoObject, i, board.intents[i]))
       /\ onto' = [onto EXCEPT ![o] = Tip(branches[r])]
  /\ UNCHANGED <<marks, branches, head, candidates, made, gone, aside>>

\* What apply and complete write, while the lease of the claim runs.
Lands(o) ==
  LET operation == board.operations[o]
      task == board.tasks[operation.task]
  IN /\ operation.status = "prepared"
     /\ \E w \in Workers :
          Leaves(ObserveOperation(board, o, w, task.epoch, task.lease.renew))
     /\ aside' = IF operation.ref = head THEN aside
                 ELSE aside \cup {Tip(candidates[operation.object])}
     /\ UNCHANGED <<marks, candidates, onto, made>>

\* The effect ref moves with the queue, whatever it left behind.
ApplyLane(o) ==
  LET operation == board.operations[o] IN
  /\ Lands(o)
  /\ Tip(branches[operation.ref]) = onto[o]
  /\ GitMoves([branches EXCEPT ![operation.ref] = candidates[operation.object]], head)

\* Slip: complete takes the effect for granted.
CompleteLane_Unread(o) == Lands(o) /\ UNCHANGED <<branches, head, gone>>

\* The effect is there: pushed by hand, or by a lane that died.
CompleteLane(o) ==
  LET operation == board.operations[o] IN
  /\ Lands(o)
  /\ Tip(branches[operation.ref]) = Tip(candidates[operation.object])
  /\ UNCHANGED <<branches, head, gone>>

TaskCheckInit ==
  /\ gone = {} /\ aside = {}
  /\ candidates = [x \in Objects |-> <<>>] /\ onto = [o \in Operations |-> 0]
  /\ \E case \in CheckCases :
       /\ board = case.board /\ marks = case.marks
       /\ branches = case.branches /\ head = case.head /\ made = case.made

TaskCheckNext ==
  \/ ClaimOffered
  \/ \E t \in Tasks : QueueByHand(t) \/ CloseProven(t)
  \/ \E t \in Tasks, s \in Signatures \cup {NoSignature} : Fail(t, s)
  \/ \E c \in Hunks : CommitChange(c)
  \/ \E i \in 1..Len(Mainline) : Squash(i)
  \/ \E b \in Branches : FastForward(branches[b]) \/ Switch(b)
  \/ \E x \in Objects : FastForward(candidates[x]) \/ Candidate(x)
  \/ \E o \in Operations, t \in Tasks : PrepareLane(o, t)
  \/ \E o \in Operations : ApplyLane(o) \/ CompleteLane(o)

TaskCheckSpec == TaskCheckInit /\ [][TaskCheckNext]_taskCheckVars

-----------------------------------------------------------------------------
(* Properties. *)

\* What an error may be about. Recording a failure and repeating its signature
\* are counted apart, in the queue and in the view, yet whoever is stalled has
\* been parked; and a done task names a commit HEAD does not have only where HEAD
\* left the commit, or where an operation landed it on another branch.
Cause(error) ==
  \/ /\ error.rule = "stalled-signature"
     /\ "retries-exhausted" \in board.tasks[error.task].gates
  \/ /\ error.rule = "evidence-anchor-missing"
     /\ Integrated(error.task) \in gone \cup aside
  \/ /\ error.rule = "scope-missing-package-json"
     /\ board.tasks[error.task].laneRecipe \in Careless

\* What holds an offer back, whatever the commands and their order: a parked task
\* that kept failing alike; a commit under a done task that HEAD has left, rewritten
\* or switched away from; an imported lane task whose operation landed on a branch
\* HEAD was not on (the one command that needs nobody to rewrite anything); or a
\* recipe that names a test nobody has committed. No edit makes a cycle or an unknown
\* blocker, no failure a blocked task without a gate, whatever gate its ticket
\* brought along, and an operation landed on HEAD's own branch is found there.
WithheldForCause ==
  \A base \in 0..Len(Mainline) : \A error \in Errors(base) : Cause(error)

\* The work of a done task is on HEAD, by commit or by content.
WorkOnHead(t) ==
  /\ board.tasks[t].status = "done" /\ board.tasks[t].proofRequired
  /\ marks[t].patch # {} /\ marks[t].patch \subseteq Contents(Mainline)

\* ticket-abi.mjs:170-171: the commit may vanish in a squash merge, but the patch
\* id survives as the same content on the base. So work HEAD has is accepted.
SquashedProofsHold == \A t \in Tasks : WorkOnHead(t) => ~Unanchored(t, 0)
=============================================================================
