--------------------------- MODULE QueueWriteLock ---------------------------
(***************************************************************************)
(* The guard of scripts/lib/task/queue-write-lock.mjs, and what runs under *)
(* it: writers of the legacy Markdown queue, and the migration or restore  *)
(* that replaces that queue by the Git-ref one.                            *)
(*                                                                         *)
(* The guard is a directory: renaming a prepared directory to "held" takes *)
(* it, renaming "held" away releases it.  An owner that died keeps the     *)
(* guard until somebody recovers its token, and a Git process it started   *)
(* may live on and finish its one ref transaction at any later time: the   *)
(* actions of Git below need no living parent.  A migration therefore also *)
(* writes a fence ref, and recovery revokes it before it frees the guard.  *)
(*                                                                         *)
(* A writer is one process with one token.  All recoverers of a token give *)
(* the same actor and reason, and a PID is not used again.                 *)
(***************************************************************************)
EXTENDS Naturals, FiniteSets

CONSTANTS
  Writers,      \* processes that call withQueueWriteLock, and their tokens
  Role,         \* what each of them does: "legacy", "migrate" or "restore"
  Recoverers,   \* processes that call recoverQueueWriteLock
  MayCrash,     \* bound: the processes that may be killed
  NoWriter

Fenced == {w \in Writers : Role[w] \in {"migrate", "restore"}}

ASSUME ConstantsAssumption ==
  /\ Role \in [Writers -> {"legacy", "migrate", "restore"}]
  /\ NoWriter \notin Writers
  /\ MayCrash \subseteq Writers \cup Recoverers
  /\ Writers \cap Recoverers = {}

VARIABLES
  held,         \* whose owner record lies in the guard directory
  recoveries,   \* per token: no record, a receipt, or the moved guard as well
  fence,        \* the object refs/krn/queue-activation-fence points at
  tickets,      \* the writes the legacy queue has seen
  queue,        \* the Git-ref queue and its selector: what they were made of
  pc,           \* where each writer is
  alive,        \* the processes that exist
  previous,     \* the fence each migration or restore read before its guard
  imported,     \* the legacy writes each migration has read
  recoverer     \* where each recoverer is

lockVars == <<held, recoveries>>
dataVars == <<tickets, queue>>
writerVars == <<pc, previous, imported>>
vars == <<held, recoveries, fence, tickets, queue, pc, alive, previous,
          imported, recoverer>>

-----------------------------------------------------------------------------

\* Fence objects: unique to a token, and the empty ref.
Active(w) == [token |-> w, state |-> "active"]
Revoked(w) == [token |-> w, state |-> "revoked"]
NoFence == [token |-> NoWriter, state |-> "none"]
Fences == {NoFence} \cup {Active(w) : w \in Writers}
                    \cup {Revoked(w) : w \in Writers}

\* The queue before its activation, made by a migration of n legacy writes, or
\* restored from an archive.
NoQueue == [from |-> "none", tickets |-> 0]
Imported(n) == [from |-> "tickets", tickets |-> n]
Archive == [from |-> "archive", tickets |-> 0]

Phases == {"start", "fencing", "acquire", "fence", "check", "write", "import",
           "transaction", "release", "unlink", "done"}

\* Between taking the guard and giving it back.
Critical == {"fence", "check", "write", "import", "transaction", "release",
             "unlink"}

RecovererPhases == {"idle", "inspect", "judge", "record", "confirm", "fence",
                    "revoke", "move"}

IdleRecoverer == [phase |-> "idle", token |-> NoWriter, receipt |-> FALSE,
                  seen |-> NoFence, attempt |-> 0]

Init ==
  /\ held = NoWriter
  /\ recoveries = [w \in Writers |-> "none"]
  /\ fence = NoFence
  /\ tickets = 0
  /\ queue = NoQueue
  /\ pc = [w \in Writers |-> "start"]
  /\ alive = Writers \cup Recoverers
  /\ previous = [w \in Writers |-> NoFence]
  /\ imported = [w \in Writers |-> 0]
  /\ recoverer = [r \in Recoverers |-> IdleRecoverer]

Goto(w, phase) == pc' = [pc EXCEPT ![w] = phase]

At(w, phase) == w \in alive /\ pc[w] = phase

-----------------------------------------------------------------------------
(* withQueueWriteLock. *)

\* Refused while the guard is held; otherwise a token is drawn.
Start(w) ==
  /\ At(w, "start")
  /\ held = NoWriter
  /\ Goto(w, IF w \in Fenced THEN "fencing" ELSE "acquire")
  /\ UNCHANGED <<lockVars, fence, dataVars, alive, previous, imported,
                 recoverer>>

\* The fence to replace is read before the guard is taken.
PrepareFence(w) ==
  /\ At(w, "fencing")
  /\ previous' = [previous EXCEPT ![w] = fence]
  /\ Goto(w, "acquire")
  /\ UNCHANGED <<lockVars, fence, dataVars, alive, imported, recoverer>>

\* The rename takes the guard, or finds a winner's complete record in it.
Acquire(w) ==
  /\ At(w, "acquire")
  /\ \/ /\ held = NoWriter
        /\ held' = w
        /\ Goto(w, IF w \in Fenced THEN "fence" ELSE "check")
     \/ /\ held # NoWriter
        /\ Goto(w, "done")
        /\ UNCHANGED held
  /\ UNCHANGED <<recoveries, fence, dataVars, alive, previous, imported,
                 recoverer>>

\* Git, for the owner: its fence replaces the one it read, or the call fails.
ReplaceFence(w) ==
  /\ pc[w] = "fence"
  /\ \/ /\ fence = previous[w]
        /\ fence' = Active(w)
        /\ Goto(w, "check")
     \/ /\ fence # previous[w]
        /\ Goto(w, "release")
        /\ UNCHANGED fence
  /\ UNCHANGED <<lockVars, dataVars, alive, previous, imported, recoverer>>

\* The finally block reads whose guard it is ...
Release(w) ==
  /\ At(w, "release")
  /\ Goto(w, IF held = w THEN "unlink" ELSE "done")
  /\ UNCHANGED <<lockVars, fence, dataVars, alive, previous, imported,
                 recoverer>>

\* ... and renames the guard away.
Unlink(w) ==
  /\ At(w, "unlink")
  /\ held' = NoWriter
  /\ Goto(w, "done")
  /\ UNCHANGED <<recoveries, fence, dataVars, alive, previous, imported,
                 recoverer>>

-----------------------------------------------------------------------------
(* What runs under the guard. *)

\* Slip: a legacy writer does not look for an active Git-ref queue.
Check_LegacyTrusts(w) ==
  /\ At(w, "check")
  /\ Goto(w, CASE Role[w] = "legacy"  -> "write"
               [] Role[w] = "migrate" -> "import"
               [] Role[w] = "restore" -> "transaction")
  /\ UNCHANGED <<lockVars, fence, dataVars, alive, previous, imported,
                 recoverer>>

\* A legacy writer and a migration refuse an active queue; a restore accepts
\* the one it would write.
Check(w) ==
  /\ At(w, "check")
  /\ Goto(w, CASE Role[w] = "legacy"  /\ queue = NoQueue -> "write"
               [] Role[w] = "migrate" /\ queue = NoQueue -> "import"
               [] Role[w] = "restore" /\ queue \in {NoQueue, Archive}
                                                         -> "transaction"
               [] OTHER                                  -> "release")
  /\ UNCHANGED <<lockVars, fence, dataVars, alive, previous, imported,
                 recoverer>>

WriteTicket(w) ==
  /\ At(w, "write")
  /\ tickets' = tickets + 1
  /\ Goto(w, "release")
  /\ UNCHANGED <<lockVars, fence, queue, alive, previous, imported, recoverer>>

\* The legacy queue is read, checked and archived, or refused.
ImportTickets(w) ==
  /\ At(w, "import")
  /\ \/ /\ imported' = [imported EXCEPT ![w] = tickets]
        /\ Goto(w, "transaction")
     \/ /\ Goto(w, "release")
        /\ UNCHANGED imported
  /\ UNCHANGED <<lockVars, fence, dataVars, alive, previous, recoverer>>

\* Slip: the transaction does not verify the fence.
Activate_NoVerify(w) ==
  /\ pc[w] = "transaction"
  /\ queue' = IF queue = NoQueue
              THEN IF Role[w] = "migrate" THEN Imported(imported[w])
                                          ELSE Archive
              ELSE queue
  /\ Goto(w, "release")
  /\ UNCHANGED <<lockVars, fence, tickets, alive, previous, imported,
                 recoverer>>

\* Git, for the owner: one transaction verifies the fence and creates the queue
\* and its selector, or verifies the ones a restore found.
Activate(w) ==
  LET snapshot == IF Role[w] = "migrate" THEN Imported(imported[w])
                                         ELSE Archive
  IN /\ pc[w] = "transaction"
     /\ queue' = IF fence = Active(w) /\ queue = NoQueue THEN snapshot
                                                         ELSE queue
     /\ Goto(w, "release")
     /\ UNCHANGED <<lockVars, fence, tickets, alive, previous, imported,
                    recoverer>>

-----------------------------------------------------------------------------
(* recoverQueueWriteLock. *)

Recovering(r, phase) == r \in alive /\ recoverer[r].phase = phase

Become(r, state) == recoverer' = [recoverer EXCEPT ![r] = state]

\* Slip: a receipt that another recoverer left behind stops the recovery.
BeginRecovery_RefusesReceipt(r, w) ==
  /\ Recovering(r, "idle")
  /\ pc[w] \in Critical \cup {"done"}
  /\ recoveries[w] = "none"
  /\ Become(r, [IdleRecoverer EXCEPT !.phase = "inspect", !.token = w])
  /\ UNCHANGED <<lockVars, fence, dataVars, writerVars, alive>>

\* The token was seen in the guard at some time.  A completed recovery answers
\* at once; the receipt of an incomplete one is read.
BeginRecovery(r, w) ==
  /\ Recovering(r, "idle")
  /\ pc[w] \in Critical \cup {"done"}
  /\ recoveries[w] # "moved"
  /\ Become(r, [IdleRecoverer EXCEPT !.phase = "inspect", !.token = w,
                                     !.receipt = recoveries[w] = "receipt"])
  /\ UNCHANGED <<lockVars, fence, dataVars, writerVars, alive>>

InspectOwner(r) ==
  /\ Recovering(r, "inspect")
  /\ Become(r, IF held = recoverer[r].token
               THEN [recoverer[r] EXCEPT !.phase = "judge"]
               ELSE IdleRecoverer)
  /\ UNCHANGED <<lockVars, fence, dataVars, writerVars, alive>>

\* Only a process that does not exist any more has died.
JudgeOwner(r) ==
  /\ Recovering(r, "judge")
  /\ Become(r, IF recoverer[r].token \in alive THEN IdleRecoverer
               ELSE [recoverer[r] EXCEPT !.phase = IF recoverer[r].receipt
                                                   THEN "confirm"
                                                   ELSE "record"])
  /\ UNCHANGED <<lockVars, fence, dataVars, writerVars, alive>>

\* The receipt is published by a rename; the one of another recoverer will do.
RecordReceipt(r) ==
  LET w == recoverer[r].token IN
  /\ Recovering(r, "record")
  /\ recoveries' = [recoveries EXCEPT ![w] = IF @ = "none" THEN "receipt"
                                                           ELSE @]
  /\ Become(r, [recoverer[r] EXCEPT !.phase = "confirm"])
  /\ UNCHANGED <<held, fence, dataVars, writerVars, alive>>

\* The guard is read again, and its owner judged again.
ConfirmOwner(r) ==
  LET w == recoverer[r].token IN
  /\ Recovering(r, "confirm")
  /\ Become(r, IF recoveries[w] # "moved" /\ held = w /\ w \notin alive
               THEN [recoverer[r] EXCEPT !.phase = IF w \in Fenced
                                                   THEN "fence" ELSE "move"]
               ELSE IdleRecoverer)
  /\ UNCHANGED <<lockVars, fence, dataVars, writerVars, alive>>

\* A fence that is neither the owner's nor the one the owner read is an error.
ReadFence(r) ==
  LET w == recoverer[r].token IN
  /\ Recovering(r, "fence")
  /\ Become(r, CASE fence = Revoked(w) ->
                      [recoverer[r] EXCEPT !.phase = "move"]
                 [] fence \in {Active(w), previous[w]} ->
                      [recoverer[r] EXCEPT !.phase = "revoke", !.seen = fence]
                 [] OTHER -> IdleRecoverer)
  /\ UNCHANGED <<lockVars, fence, dataVars, writerVars, alive>>

\* Git, for the recoverer: the second refusal is an error.
RevokeFence(r) ==
  LET w == recoverer[r].token IN
  /\ recoverer[r].phase = "revoke"
  /\ \/ /\ fence = recoverer[r].seen
        /\ fence' = Revoked(w)
        /\ Become(r, [recoverer[r] EXCEPT !.phase = "move"])
     \/ /\ fence # recoverer[r].seen
        /\ Become(r, IF recoverer[r].attempt = 0
                     THEN [recoverer[r] EXCEPT !.phase = "fence",
                                               !.attempt = 1]
                     ELSE IdleRecoverer)
        /\ UNCHANGED fence
  /\ UNCHANGED <<lockVars, dataVars, writerVars, alive>>

\* Slip: the tombstone does not stop the rename.
MoveGuard_NoTombstone(r) ==
  /\ Recovering(r, "move")
  /\ held' = NoWriter
  /\ recoveries' = [recoveries EXCEPT ![recoverer[r].token] = "moved"]
  /\ Become(r, IdleRecoverer)
  /\ UNCHANGED <<fence, dataVars, writerVars, alive>>

\* The rename moves whatever guard is held, unless a guard was moved there
\* before: a directory that is not empty is not replaced.
MoveGuard(r) ==
  LET w == recoverer[r].token IN
  /\ Recovering(r, "move")
  /\ IF held # NoWriter /\ recoveries[w] # "moved"
     THEN /\ held' = NoWriter
          /\ recoveries' = [recoveries EXCEPT ![w] = "moved"]
     ELSE UNCHANGED lockVars
  /\ Become(r, IdleRecoverer)
  /\ UNCHANGED <<fence, dataVars, writerVars, alive>>

-----------------------------------------------------------------------------

\* A process is killed, or has ended.
Crash ==
  /\ \E p \in alive :
       /\ p \in MayCrash \/ (p \in Writers /\ pc[p] = "done")
       /\ alive' = alive \ {p}
  /\ UNCHANGED <<lockVars, fence, dataVars, writerVars, recoverer>>

WriterStep(w) ==
  \/ Start(w) \/ PrepareFence(w) \/ Acquire(w) \/ ReplaceFence(w)
  \/ Check(w) \/ WriteTicket(w) \/ ImportTickets(w) \/ Activate(w)
  \/ Release(w) \/ Unlink(w)

RecovererStep(r) ==
  \/ InspectOwner(r) \/ JudgeOwner(r) \/ RecordReceipt(r) \/ ConfirmOwner(r)
  \/ ReadFence(r) \/ RevokeFence(r) \/ MoveGuard(r)

Next ==
  \/ Crash
  \/ \E w \in Writers : WriterStep(w)
  \/ \E r \in Recoverers : RecovererStep(r)
  \/ \E r \in Recoverers, w \in Writers : BeginRecovery(r, w)

Spec == Init /\ [][Next]_vars

\* Living processes keep running, and operators keep retrying the recovery of
\* a guard whose owner died.  A Git process without a parent owes nothing.
Fairness ==
  /\ \A w \in Writers : WF_vars(w \in alive /\ WriterStep(w))
  /\ \A r \in Recoverers : WF_vars(r \in alive /\ RecovererStep(r))
  /\ \A r \in Recoverers, w \in Writers : SF_vars(BeginRecovery(r, w))

FairSpec == Spec /\ Fairness

-----------------------------------------------------------------------------
(* Properties. *)

TypeOK ==
  /\ held \in Writers \cup {NoWriter}
  /\ recoveries \in [Writers -> {"none", "receipt", "moved"}]
  /\ fence \in Fences
  /\ tickets \in Nat
  /\ queue \in [from : {"none", "tickets", "archive"}, tickets : Nat]
  /\ pc \in [Writers -> Phases]
  /\ alive \subseteq Writers \cup Recoverers
  /\ previous \in [Writers -> Fences]
  /\ imported \in [Writers -> Nat]
  /\ recoverer \in [Recoverers -> [phase : RecovererPhases,
                                   token : Writers \cup {NoWriter},
                                   receipt : BOOLEAN, seen : Fences,
                                   attempt : 0..1]]

\* A living process inside its critical section holds the guard: two of them
\* never run at once, and no recoverer, however late, takes the guard from one.
LiveWritersHoldGuard ==
  \A w \in Writers : (w \in alive /\ pc[w] \in Critical) => held = w

\* The legacy queue is never written once the Git-ref queue is active, the
\* queue is activated once, and what a migration activates holds every write of
\* the legacy queue: also when the Git process of a dead migration or a legacy
\* writer that found no queue goes on after the guard was given to another.
OneQueueOfRecord ==
  [][/\ tickets' # tickets => queue = NoQueue
     /\ queue' # queue =>
          /\ queue = NoQueue
          /\ queue'.from = "tickets" => queue'.tickets = tickets']_vars

\* A guard whose owner died is given back.
DeadGuardsRecovered ==
  \A w \in Writers : (held = w /\ w \notin alive) ~> (held # w)
=============================================================================
