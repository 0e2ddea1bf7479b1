---------------------------- MODULE LegacyTicket ----------------------------
(***************************************************************************)
(* The legacy Markdown queue: scripts/lib/ticket/ticket.mjs and            *)
(* ticket-reconcile.mjs, and how scripts/lib/task/task-import.mjs reads    *)
(* what they leave behind.                                                 *)
(*                                                                         *)
(* A claim is two files: the lock .krn/claims/<id>.lock, written first,    *)
(* and the ticket.  Writers hold the queue guard (QueueWriteLock), so only *)
(* one runs at a time, but it may die, or fail, between any two of its     *)
(* file operations; and people edit ticket files, and Git branches move,   *)
(* without taking the guard.                                               *)
(***************************************************************************)
EXTENDS Naturals, Sequences, FiniteSets

CONSTANTS
  Order,        \* the ticket files, in path order
  Workers,
  Blockers,     \* what each ticket's "Blocked by" names
  MaxAttempts,  \* MAX_ATTEMPTS
  Duration,     \* of a lease, in clock units
  Foul,         \* tickets whose branch may move on, vanish or be squashed
  MaxClock,     \* bound
  MaxEdits,     \* bound: status edits by hand, in all
  MaxCrashes,   \* bound
  NoLease

Tickets == {Order[i] : i \in DOMAIN Order}

ASSUME ConstantsAssumption ==
  /\ Order \in Seq(Tickets)
  /\ \A i, j \in DOMAIN Order : Order[i] = Order[j] => i = j
  /\ Blockers \in [Tickets -> SUBSET Tickets]
  /\ {MaxAttempts, Duration, MaxClock, MaxEdits, MaxCrashes} \subseteq Nat
  /\ Duration > 0
  /\ NoLease \notin [worker : Workers, epoch : Nat, at : Nat]

VARIABLES
  ticket,   \* the fields of each ticket file
  lock,     \* each lock file
  proc,     \* the writer that holds the guard
  branch,   \* the branch an outbox record names, and what HEAD has of it
  clock,
  issued,   \* history: every lease a lock file has held, by ticket
  granted,  \* history: every lease whose claim ended, by ticket
  edits, crashes

vars == <<ticket, lock, proc, branch, clock, issued, granted, edits, crashes>>
histories == <<issued, granted>>
world == <<branch, clock, edits, crashes>>

-----------------------------------------------------------------------------
(* Leases. *)

Leases == [worker : Workers, epoch : Nat, at : Nat]

\* A lock that openSync(.., "wx") has created and nobody has filled.
Absent == [state |-> "absent", lease |-> NoLease]
Unreadable == [state |-> "invalid", lease |-> NoLease]
Holding(lease) == [state |-> "held", lease |-> lease]

leaseExpired(lease, now) == now >= lease.at + Duration

EpochOf(lease) == IF lease = NoLease THEN 0 ELSE lease.epoch

\* Slip: the generation follows the ticket alone.
nextEpoch_TicketOnly(claim, held) == EpochOf(claim) + 1

\* The generation after both the ticket's and the lock's.
nextEpoch(claim, held) ==
  IF EpochOf(claim) >= EpochOf(held) THEN EpochOf(claim) + 1
                                     ELSE EpochOf(held) + 1

\* The ticket's own Claim decides; the lock only when there is none.
claimLease(text, held) == IF text.claim # NoLease THEN text.claim ELSE held

-----------------------------------------------------------------------------

Statuses == {"ready", "claimed", "blocked", "in-review", "done", "abandoned",
             "deferred"}
Terminal == {"done", "abandoned"}

Commits == {"recorded", "moved"}

Texts == [status : Statuses, claim : Leases \cup {NoLease}, attempts : Nat,
          outbox : {"none", "branch", "sha"}]

Idle == [step |-> "idle"]

Init ==
  /\ ticket = [t \in Tickets |-> [status |-> "ready", claim |-> NoLease,
                                  attempts |-> 0, outbox |-> "none"]]
  /\ lock = [t \in Tickets |-> Absent]
  /\ proc = Idle
  /\ branch = [t \in Tickets |-> [tip |-> "recorded", landed |-> {}]]
  /\ clock = 0
  /\ issued = [t \in Tickets |-> {}]
  /\ granted = [t \in Tickets |-> {}]
  /\ edits = 0
  /\ crashes = 0

-----------------------------------------------------------------------------
(* claimTicket. *)

assertClaimUnblocked(t) == \A b \in Blockers[t] : ticket[b].status = "done"

\* Slip: a ready ticket is claimed without a look at its lock's lease.
Claimable_ReadyIsFree(t) ==
  /\ assertClaimUnblocked(t)
  /\ lock[t].state # "invalid"
  /\ ticket[t].status = "ready" \/ (ticket[t].status = "claimed"
                                    /\ lock[t].state = "held"
                                    /\ leaseExpired(lock[t].lease, clock))

\* A ready ticket with no live lock, or a claimed one with an expired lock.
Claimable(t) ==
  /\ assertClaimUnblocked(t)
  /\ lock[t].state # "invalid"
  /\ ticket[t].status = "ready" \/ (ticket[t].status = "claimed"
                                    /\ lock[t].state = "held")
  /\ lock[t].state = "held" => leaseExpired(lock[t].lease, clock)

Claimed(text, lease) == [text EXCEPT !.status = "claimed", !.claim = lease]

\* The bound keeps time for the lease to expire.
BeginClaim(w, t) ==
  /\ proc = Idle
  /\ Claimable(t)
  /\ clock + Duration <= MaxClock
  /\ LET lease == [worker |-> w, at |-> clock,
                   epoch |-> nextEpoch(ticket[t].claim, lock[t].lease)]
     IN proc' = [step |-> IF lock[t].state = "absent" THEN "create" ELSE "lock",
                 id |-> t, lease |-> lease,
                 next |-> Claimed(ticket[t], lease)]
  /\ UNCHANGED <<ticket, lock, histories, world>>

\* No other writer runs, so the exclusive creation succeeds.
CreateLock ==
  /\ proc.step = "create"
  /\ lock' = [lock EXCEPT ![proc.id] = Unreadable]
  /\ proc' = [proc EXCEPT !.step = "lock"]
  /\ UNCHANGED <<ticket, histories, world>>

WriteLock ==
  /\ proc.step = "lock"
  /\ lock' = [lock EXCEPT ![proc.id] = Holding(proc.lease)]
  /\ issued' = [issued EXCEPT ![proc.id] = @ \cup {proc.lease}]
  /\ proc' = [proc EXCEPT !.step = "claim"]
  /\ UNCHANGED <<ticket, granted, world>>

WriteClaim ==
  /\ proc.step = "claim"
  /\ ticket' = [ticket EXCEPT ![proc.id] = proc.next]
  /\ granted' = [granted EXCEPT ![proc.id] = @ \cup {proc.lease}]
  /\ proc' = Idle
  /\ UNCHANGED <<lock, issued, world>>

-----------------------------------------------------------------------------
(* recordAttempt and closeTicket: one read, one write. *)

Attempted(text) ==
  [text EXCEPT !.attempts = @ + 1,
               !.status = IF text.attempts + 1 >= MaxAttempts THEN "blocked"
                                                              ELSE @]

\* Bound: a readmitted ticket fails once more than it may.
BeginAttempt(t) ==
  /\ proc = Idle
  /\ ticket[t].status = "claimed"
  /\ ticket[t].attempts <= MaxAttempts
  /\ proc' = [step |-> "write", id |-> t, next |-> Attempted(ticket[t])]
  /\ UNCHANGED <<ticket, lock, histories, world>>

\* The verdicts on resolution, base, trailer, scope and contract can only
\* refuse.
BeginClose(t) ==
  /\ proc = Idle
  /\ ticket[t].status \in {"claimed", "in-review"}
  /\ proc' = [step |-> "write", id |-> t,
              next |-> [ticket[t] EXCEPT !.status = "done"]]
  /\ UNCHANGED <<ticket, lock, histories, world>>

WriteTicket ==
  /\ proc.step = "write"
  /\ ticket' = [ticket EXCEPT ![proc.id] = proc.next]
  /\ proc' = Idle
  /\ UNCHANGED <<lock, histories, world>>

-----------------------------------------------------------------------------
(* reconcileTickets: every file in turn, with the time of the call. *)

BeginReconcile ==
  /\ proc = Idle
  /\ proc' = [step |-> "scan", at |-> clock, index |-> 1]
  /\ UNCHANGED <<ticket, lock, histories, world>>

\* Slips: the lease is not looked at; any lease forbids the repair.
Repairable_IgnoresLease(t, now) ==
  ticket[t].status = "claimed" /\ ticket[t].outbox # "none"
Repairable_NeverExpires(t, now) ==
  /\ ticket[t].status = "claimed"
  /\ ticket[t].outbox # "none"
  /\ claimLease(ticket[t], lock[t].lease) = NoLease

\* Claimed, with an integration record, and without a lease that still runs.
Repairable(t, now) ==
  LET lease == claimLease(ticket[t], lock[t].lease) IN
  /\ ticket[t].status = "claimed"
  /\ ticket[t].outbox # "none"
  /\ lease # NoLease => leaseExpired(lease, now)

\* The branch tip, or else the recorded sha.
Anchor(t) ==
  IF branch[t].tip # "gone" THEN branch[t].tip
  ELSE IF ticket[t].outbox = "sha" THEN "recorded" ELSE "none"

Landed(t) == Anchor(t) \in branch[t].landed

\* Slip: the tip is not compared with the recorded sha.
Refused_NoMismatch(t) ==
  ticket[t].outbox = "sha" /\ branch[t].tip = "gone" /\ ~Landed(t)

\* reconcile-sha-mismatch, reconcile-sha-unverifiable: the whole call throws.
Refused(t) ==
  /\ ticket[t].outbox = "sha"
  /\ \/ branch[t].tip = "moved"
     \/ branch[t].tip = "gone" /\ ~Landed(t)

Scanning(t) == proc.step = "scan" /\ proc.index <= Len(Order)
               /\ Order[proc.index] = t

ScanNext(p) == [step |-> "scan", at |-> p.at, index |-> p.index + 1]

ScanPast(t) ==
  /\ Scanning(t)
  /\ ~Repairable(t, proc.at) \/ (~Refused(t) /\ ~Landed(t))
  /\ proc' = ScanNext(proc)
  /\ UNCHANGED <<ticket, lock, histories, world>>

ScanRefuse(t) ==
  /\ Scanning(t)
  /\ Repairable(t, proc.at) /\ Refused(t)
  /\ proc' = Idle
  /\ UNCHANGED <<ticket, lock, histories, world>>

ScanRepair(t) ==
  /\ Scanning(t)
  /\ Repairable(t, proc.at) /\ ~Refused(t) /\ Landed(t)
  /\ proc' = [step |-> "repair", at |-> proc.at, index |-> proc.index,
              next |-> [ticket[t] EXCEPT !.status = "done"]]
  /\ UNCHANGED <<ticket, lock, histories, world>>

WriteRepair ==
  /\ proc.step = "repair"
  /\ ticket' = [ticket EXCEPT ![Order[proc.index]] = proc.next]
  /\ proc' = ScanNext(proc)
  /\ UNCHANGED <<lock, histories, world>>

EndReconcile ==
  /\ proc.step = "scan"
  /\ proc.index > Len(Order)
  /\ proc' = Idle
  /\ UNCHANGED <<ticket, lock, histories, world>>

-----------------------------------------------------------------------------
(* What happens around the writers. *)

\* The writer is killed, or a file operation of its throws.
Crash ==
  /\ proc # Idle
  /\ crashes < MaxCrashes
  /\ crashes' = crashes + 1
  /\ proc' = Idle
  /\ UNCHANGED <<ticket, lock, histories, branch, clock, edits>>

Tick ==
  /\ clock < MaxClock
  /\ clock' = clock + 1
  /\ UNCHANGED <<ticket, lock, proc, histories, branch, edits, crashes>>

\* Somebody edits the Status line of an open ticket.
EditStatus(t, status) ==
  /\ edits < MaxEdits
  /\ ticket[t].status \notin Terminal
  /\ status \notin {"done", ticket[t].status}
  /\ edits' = edits + 1
  /\ ticket' = [ticket EXCEPT ![t].status = status]
  /\ UNCHANGED <<lock, proc, histories, branch, clock, crashes>>

\* The lane records the branch it is about to integrate, then integrates it.
RecordOutbox(t, outbox) ==
  /\ ticket[t].status = "claimed"
  /\ ticket[t].outbox = "none"
  /\ ticket' = [ticket EXCEPT ![t].outbox = outbox]
  /\ UNCHANGED <<lock, proc, histories, world>>

\* Lanes land, branches move on or go.  A squashed lane is found by the patch id
\* of everything since its base, so the next commit on HEAD hides it again.
MoveBranches ==
  /\ \E t \in Tickets :
       /\ ticket[t].outbox # "none"
       /\ \/ /\ branch[t].tip # "gone"
             /\ branch' = [branch EXCEPT ![t].landed = @ \cup {branch[t].tip}]
          \/ /\ t \in Foul
             /\ branch[t].tip = "recorded"
             /\ branch' = [branch EXCEPT ![t].tip = "moved"]
          \/ /\ t \in Foul \/ branch[t].tip \in branch[t].landed
             /\ branch' = [branch EXCEPT ![t].tip = "gone"]
          \/ /\ t \in Foul
             /\ branch' = [branch EXCEPT ![t].landed = {}]
  /\ UNCHANGED <<ticket, lock, proc, histories, clock, edits, crashes>>

ReconcileStep ==
  \/ BeginReconcile
  \/ \E t \in Tickets : ScanPast(t) \/ ScanRefuse(t) \/ ScanRepair(t)
  \/ WriteRepair
  \/ EndReconcile

WriterStep == CreateLock \/ WriteLock \/ WriteClaim \/ WriteTicket

Next ==
  \/ \E w \in Workers, t \in Tickets : BeginClaim(w, t)
  \/ \E t \in Tickets : BeginAttempt(t) \/ BeginClose(t)
  \/ WriterStep
  \/ ReconcileStep
  \/ \E t \in Tickets, status \in Statuses : EditStatus(t, status)
  \/ \E t \in Tickets, outbox \in {"branch", "sha"} : RecordOutbox(t, outbox)
  \/ MoveBranches
  \/ Crash
  \/ Tick

Spec == Init /\ [][Next]_vars

\* Time passes, a writer that runs goes on, and reconcile is called again and
\* again: it is what a caller that owns the recovery does before each frontier.
Fairness ==
  /\ WF_vars(Tick)
  /\ WF_vars(WriterStep)
  /\ SF_vars(BeginReconcile)
  /\ WF_vars(ReconcileStep /\ proc # Idle)

FairSpec == Spec /\ Fairness

-----------------------------------------------------------------------------
(* The importer's view of a ticket and its lock: combineClaim. *)

\* Slip: a lock without a Claim in the ticket imports as no claim.
Importable_LockAlone(t) ==
  /\ lock[t].state # "invalid"
  /\ lock[t].state = "held" /\ ticket[t].claim # NoLease
       => ticket[t].claim = lock[t].lease
  /\ ticket[t].status = "claimed" => ticket[t].claim # NoLease

\* The lock is readable, and the two files do not contradict each other.
\* session, which may differ, is left out.
Importable(t) ==
  /\ lock[t].state # "invalid"
  /\ lock[t].state = "held" => ticket[t].claim = lock[t].lease
  /\ ticket[t].status = "claimed" => ticket[t].claim # NoLease

ImportedEpoch(t) == EpochOf(ticket[t].claim)

ImportedLease(t) == IF ticket[t].status = "claimed" THEN ticket[t].claim
                                                    ELSE NoLease

-----------------------------------------------------------------------------
(* Properties. *)

TypeOK ==
  /\ ticket \in [Tickets -> Texts]
  /\ lock \in [Tickets -> {Absent, Unreadable} \cup
                           [state : {"held"}, lease : Leases]]
  /\ proc \in {Idle}
       \cup [step : {"create", "lock", "claim"}, id : Tickets, lease : Leases,
             next : Texts]
       \cup [step : {"write"}, id : Tickets, next : Texts]
       \cup [step : {"scan"}, at : Nat, index : 1..(Len(Order) + 1)]
       \cup [step : {"repair"}, at : Nat, index : DOMAIN Order, next : Texts]
  /\ branch \in [Tickets -> [tip : Commits \cup {"gone"},
                             landed : SUBSET Commits]]
  /\ clock \in Nat
  /\ issued \in [Tickets -> SUBSET Leases]
  /\ granted \in [Tickets -> SUBSET Leases]
  /\ edits \in Nat
  /\ crashes \in Nat

\* No two leases that a lock file has ever held carry the same epoch.
EpochsIssuedOnce ==
  \A t \in Tickets : \A g, h \in issued[t] : g.epoch = h.epoch => g = h

\* At no time do two leases on a ticket run, returned or not.
LeasesDisjoint ==
  \A t \in Tickets : \A g, h \in issued[t] :
    g # h => leaseExpired(g, h.at) \/ leaseExpired(h, g.at)

\* A ticket has one holder at a time, and a generation names one holder for
\* ever, whatever crashed between the lock file and the ticket and whatever was
\* edited. The epoch is what the selected queue later fences by.
OneHolder == EpochsIssuedOnce /\ LeasesDisjoint

\* What the importer accepts carries the last generation ever issued, so that
\* the queue that replaces this one cannot issue it again; and a lease that
\* still runs is imported as it is.
ImportKeepsTheClaim ==
  \A t \in Tickets : proc = Idle /\ Importable(t) =>
    \A g \in issued[t] :
      /\ g.epoch <= ImportedEpoch(t)
      /\ ~leaseExpired(g, clock) /\ ticket[t].status = "claimed"
           => ImportedLease(t) = g

\* The repair closes a ticket on its recorded commit only if HEAD has it, and
\* not under a worker whose claim was granted, meanwhile too, and still runs.
RepairsJustified ==
  [][\A t \in Tickets :
       /\ ScanRepair(t) /\ ticket[t].outbox = "sha"
            => "recorded" \in branch[t].landed
       /\ WriteRepair /\ Order[proc.index] = t /\ ticket[t].status = "claimed"
            => \A g \in granted[t] : leaseExpired(g, clock)]_vars

\* The record of a merge that HEAD has, and whose branch agrees with it.
MergeRecorded(t) ==
  /\ ticket[t].outbox = "sha"
  /\ branch[t].tip # "moved"
  /\ "recorded" \in branch[t].landed

\* A lane that died between its merge and its close does not leave the ticket
\* claimed for ever, unless a writer overwrites the record, the branch moves or
\* HEAD is seen to have the work no more.
MergedWorkIsClosed ==
  \A t \in Tickets :
    ticket[t].status = "claimed" /\ MergeRecorded(t)
      ~> ticket[t].status # "claimed" \/ ~MergeRecorded(t)

=============================================================================
