------------------------- MODULE LegacyTicketProofs -------------------------
(***************************************************************************)
(* What LegacyTicket's claims guarantee for every number of tickets,       *)
(* workers, crashes and edits: a generation is issued once, leases on a    *)
(* ticket never run at the same time, an import carries the last of them,  *)
(* and a repair closes no ticket under a worker whose claim was granted.   *)
(***************************************************************************)
EXTENDS LegacyTicket, TLAPS

-----------------------------------------------------------------------------
(* Types. *)

ClaimProcs == [step : {"create", "lock", "claim"}, id : Tickets,
               lease : Leases, next : Texts]
WriteProcs == [step : {"write"}, id : Tickets, next : Texts]
ScanProcs == [step : {"scan"}, at : Nat, index : 1..(Len(Order) + 1)]
RepairProcs == [step : {"repair"}, at : Nat, index : DOMAIN Order,
                next : Texts]

\* The files of the queue are the elements of Order.
LEMMA OrderFacts ==
  /\ Len(Order) \in Nat
  /\ DOMAIN Order = 1..Len(Order)
  /\ \A i \in DOMAIN Order : Order[i] \in Tickets
  BY ConstantsAssumption DEF ConstantsAssumption, Tickets

\* The edits of a ticket's fields.
LEMMA TextEdits ==
  ASSUME NEW text \in Texts
  PROVE  /\ \A s \in Statuses : [text EXCEPT !.status = s] \in Texts
         /\ \A o \in {"branch", "sha"} : [text EXCEPT !.outbox = o] \in Texts
         /\ \A l \in Leases : Claimed(text, l) \in Texts
         /\ Attempted(text) \in Texts
<1>1. \A s \in Statuses : [text EXCEPT !.status = s] \in Texts
  BY DEF Texts
<1>2. \A o \in {"branch", "sha"} : [text EXCEPT !.outbox = o] \in Texts
  BY DEF Texts
<1>3. ASSUME NEW l \in Leases PROVE Claimed(text, l) \in Texts
  BY DEF Claimed, Texts, Statuses
<1>4. Attempted(text) \in Texts
  <2> DEFINE s == IF text.attempts + 1 >= MaxAttempts THEN "blocked"
                                                      ELSE text.status
  <2>1. text.attempts + 1 \in Nat /\ s \in Statuses
    BY DEF Texts, Statuses
  <2>2. [text EXCEPT !.attempts = text.attempts + 1, !.status = s] \in Texts
    <3> HIDE DEF s
    <3> QED
      BY <2>1 DEF Texts
  <2> QED
    BY <2>2 DEF Attempted
<1> QED
  BY <1>1, <1>2, <1>3, <1>4

\* Every record a step writes has the fields its readers expect.
LEMMA TypeStep == TypeOK /\ [Next]_vars => TypeOK'
<1> SUFFICES ASSUME TypeOK, [Next]_vars PROVE TypeOK'
  OBVIOUS
<1> USE ConstantsAssumption, OrderFacts DEF ConstantsAssumption, TypeOK
<1>0. \A t \in Tickets : ticket[t] \in Texts
  OBVIOUS
<1>1. ASSUME NEW w \in Workers, NEW t \in Tickets, BeginClaim(w, t)
      PROVE  TypeOK'
  <2> DEFINE new == nextEpoch(ticket[t].claim, lock[t].lease)
             lease == [worker |-> w, at |-> clock, epoch |-> new]
  <2>1. new \in Nat
    BY DEF nextEpoch, EpochOf, Texts, Leases, Absent, Unreadable
  <2>2. lease \in Leases
    BY <2>1 DEF Leases
  <2>3. Claimed(ticket[t], lease) \in Texts
    BY <1>0, <2>2, TextEdits
  <2>4. proc' \in ClaimProcs
    BY <1>1, <2>2, <2>3 DEF BeginClaim, ClaimProcs
  <2>5. UNCHANGED <<ticket, lock, histories, world>>
    BY <1>1 DEF BeginClaim
  <2> QED
    BY <2>4, <2>5 DEF ClaimProcs, histories, world
<1>2. CASE CreateLock
  <2>1. proc \in ClaimProcs
    BY <1>2 DEF CreateLock, ClaimProcs, Idle
  <2>2. proc' \in ClaimProcs /\ lock' \in [Tickets ->
          {Absent, Unreadable} \cup [state : {"held"}, lease : Leases]]
    BY <1>2, <2>1 DEF CreateLock, ClaimProcs
  <2> QED
    BY <1>2, <2>2 DEF CreateLock, ClaimProcs, histories, world
<1>3. CASE WriteLock
  <2>1. proc \in ClaimProcs
    BY <1>3 DEF WriteLock, ClaimProcs, Idle
  <2>2. proc' \in ClaimProcs
    BY <1>3, <2>1 DEF WriteLock, ClaimProcs
  <2>3. Holding(proc.lease) \in [state : {"held"}, lease : Leases]
    BY <2>1 DEF Holding, ClaimProcs
  <2>4. issued' \in [Tickets -> SUBSET Leases]
    BY <1>3, <2>1 DEF WriteLock, ClaimProcs
  <2> QED
    BY <1>3, <2>2, <2>3, <2>4 DEF WriteLock, ClaimProcs, world
<1>4. CASE WriteClaim
  <2>1. proc \in ClaimProcs
    BY <1>4 DEF WriteClaim, ClaimProcs, Idle
  <2>2. granted' \in [Tickets -> SUBSET Leases]
    BY <1>4, <2>1 DEF WriteClaim, ClaimProcs
  <2>3. ticket' \in [Tickets -> Texts]
    BY <1>4, <2>1 DEF WriteClaim, ClaimProcs
  <2> QED
    BY <1>4, <2>2, <2>3 DEF WriteClaim, world
<1>5. ASSUME NEW t \in Tickets, BeginAttempt(t) PROVE TypeOK'
  <2>1. Attempted(ticket[t]) \in Texts
    BY <1>0, TextEdits
  <2>2. proc' \in WriteProcs
    BY <1>5, <2>1 DEF BeginAttempt, WriteProcs
  <2> QED
    BY <1>5, <2>2 DEF BeginAttempt, WriteProcs, histories, world
<1>6. ASSUME NEW t \in Tickets, BeginClose(t) PROVE TypeOK'
  <2>1. [ticket[t] EXCEPT !.status = "done"] \in Texts
    BY <1>0, TextEdits DEF Statuses
  <2>2. proc' \in WriteProcs
    BY <1>6, <2>1 DEF BeginClose, WriteProcs
  <2> QED
    BY <1>6, <2>2 DEF BeginClose, WriteProcs, histories, world
<1>7. CASE WriteTicket
  <2>1. proc \in WriteProcs
    BY <1>7 DEF WriteTicket, WriteProcs, Idle
  <2>2. ticket' \in [Tickets -> Texts]
    BY <1>7, <2>1 DEF WriteTicket, WriteProcs
  <2> QED
    BY <1>7, <2>2 DEF WriteTicket, histories, world
<1>8. CASE BeginReconcile
  <2>1. proc' \in ScanProcs
    BY <1>8 DEF BeginReconcile, ScanProcs
  <2> QED
    BY <1>8, <2>1 DEF BeginReconcile, ScanProcs, histories, world
<1>9. ASSUME NEW t \in Tickets, ScanPast(t) PROVE TypeOK'
  <2>1. proc \in ScanProcs
    BY <1>9 DEF ScanPast, Scanning, ScanProcs, Idle
  <2>2. proc' \in ScanProcs
    BY <1>9, <2>1 DEF ScanPast, Scanning, ScanNext, ScanProcs
  <2> QED
    BY <1>9, <2>2 DEF ScanPast, ScanProcs, histories, world
<1>10. ASSUME NEW t \in Tickets, ScanRefuse(t) PROVE TypeOK'
  BY <1>10 DEF ScanRefuse, histories, world
<1>11. ASSUME NEW t \in Tickets, ScanRepair(t) PROVE TypeOK'
  <2>1. proc \in ScanProcs
    BY <1>11 DEF ScanRepair, Scanning, ScanProcs, Idle
  <2>2. [ticket[t] EXCEPT !.status = "done"] \in Texts
    BY <1>0, TextEdits DEF Statuses
  <2>3. proc' \in RepairProcs
    BY <1>11, <2>1, <2>2 DEF ScanRepair, Scanning, ScanProcs, RepairProcs
  <2> QED
    BY <1>11, <2>3 DEF ScanRepair, RepairProcs, histories, world
<1>12. CASE WriteRepair
  <2>1. proc \in RepairProcs
    BY <1>12 DEF WriteRepair, RepairProcs, Idle
  <2>2. ticket' \in [Tickets -> Texts]
    BY <1>12, <2>1 DEF WriteRepair, RepairProcs
  <2>3. proc' \in ScanProcs
    BY <1>12, <2>1 DEF WriteRepair, RepairProcs, ScanNext, ScanProcs
  <2> QED
    BY <1>12, <2>2, <2>3 DEF WriteRepair, ScanProcs, histories, world
<1>13. CASE EndReconcile
  BY <1>13 DEF EndReconcile, histories, world
<1>14. ASSUME NEW t \in Tickets, NEW status \in Statuses,
              EditStatus(t, status)
       PROVE  TypeOK'
  <2>1. [ticket[t] EXCEPT !.status = status] \in Texts
    BY <1>0, TextEdits
  <2> QED
    BY <1>14, <2>1 DEF EditStatus, histories
<1>15. ASSUME NEW t \in Tickets, NEW outbox \in {"branch", "sha"},
              RecordOutbox(t, outbox)
       PROVE  TypeOK'
  <2>1. [ticket[t] EXCEPT !.outbox = outbox] \in Texts
    BY <1>0, TextEdits
  <2> QED
    BY <1>15, <2>1 DEF RecordOutbox, histories, world
<1>16. CASE MoveBranches
  <2>1. branch' \in [Tickets -> [tip : Commits \cup {"gone"},
                                 landed : SUBSET Commits]]
    <3> DEFINE Branches == [tip : Commits \cup {"gone"},
                            landed : SUBSET Commits]
    <3>1. PICK t \in Tickets :
            \/ /\ branch[t].tip # "gone"
               /\ branch' = [branch EXCEPT
                               ![t].landed = @ \cup {branch[t].tip}]
            \/ branch' = [branch EXCEPT ![t].tip = "moved"]
            \/ branch' = [branch EXCEPT ![t].tip = "gone"]
            \/ branch' = [branch EXCEPT ![t].landed = {}]
      BY <1>16 DEF MoveBranches
    <3>2. branch[t] \in Branches
      OBVIOUS
    <3>3. /\ [branch[t] EXCEPT !.tip = "moved"] \in Branches
          /\ [branch[t] EXCEPT !.tip = "gone"] \in Branches
          /\ [branch[t] EXCEPT !.landed = {}] \in Branches
          /\ branch[t].tip # "gone" =>
               [branch[t] EXCEPT !.landed = @ \cup {branch[t].tip}] \in Branches
      BY <3>2 DEF Commits
    <3> QED
      BY <3>1, <3>3
  <2> QED
    BY <1>16, <2>1 DEF MoveBranches, histories
<1>17. CASE Crash
  BY <1>17 DEF Crash, histories
<1>18. CASE Tick
  BY <1>18 DEF Tick, histories
<1>19. CASE UNCHANGED vars
  BY <1>19 DEF vars
<1> QED
  BY <1>1, <1>2, <1>3, <1>4, <1>5, <1>6, <1>7, <1>8, <1>9, <1>10, <1>11,
     <1>12, <1>13, <1>14, <1>15, <1>16, <1>17, <1>18, <1>19
  DEF Next, WriterStep, ReconcileStep

LEMMA TypeInit == Init => TypeOK
  BY ConstantsAssumption DEF ConstantsAssumption, Init, TypeOK, Texts, Statuses,
     Commits

\* Whatever runs, dies or is edited, the files keep the shape their readers
\* expect.
THEOREM TypeCorrect == Spec => []TypeOK
  BY TypeInit, TypeStep, PTL DEF Spec
-----------------------------------------------------------------------------
(* Leases. *)

\* g has an earlier generation than h, and had run out when h was drawn up.
Precedes(g, h) == g.epoch < h.epoch /\ g.at + Duration <= h.at

\* A lease that is not yet in its lock follows the one that is.
PendingFollows ==
  /\ proc.step = "create" => lock[proc.id].state = "absent"
  /\ proc.step \in {"create", "lock"} /\ lock[proc.id].state = "held"
       => Precedes(lock[proc.id].lease, proc.lease)

\* The lock holds the last lease ever issued, and before it holds one none was.
LockHoldsLast ==
  \A t \in Tickets :
    /\ lock[t].state # "held" => issued[t] = {}
    /\ lock[t].state = "held" =>
         \A g \in issued[t] : g = lock[t].lease \/ Precedes(g, lock[t].lease)

\* Leases on a ticket come one after the other.
IssuedInOrder ==
  \A t \in Tickets : \A g, h \in issued[t] :
    g = h \/ Precedes(g, h) \/ Precedes(h, g)

ClaimInv == PendingFollows /\ LockHoldsLast /\ IssuedInOrder

LEMMA PrecedesTransitive ==
  ASSUME NEW f \in Leases, NEW g \in Leases, NEW h \in Leases,
         Precedes(f, g), Precedes(g, h)
  PROVE  Precedes(f, h)
  BY ConstantsAssumption DEF ConstantsAssumption, Precedes, Leases

\* The generation a claim computes follows the lock's, whose lease is over.
LEMMA NextLeaseFollows ==
  ASSUME TypeOK, NEW t \in Tickets, NEW w \in Workers, Claimable(t),
         lock[t].state = "held"
  PROVE  Precedes(lock[t].lease,
                  [worker |-> w, at |-> clock,
                   epoch |-> nextEpoch(ticket[t].claim, lock[t].lease)])
<1> DEFINE held == lock[t].lease
           claim == ticket[t].claim
<1>1. held \in Leases
  BY DEF TypeOK, Absent, Unreadable
<1>2. claim \in Leases \cup {NoLease}
  BY DEF TypeOK, Texts
<1>3. held # NoLease
  BY <1>1, ConstantsAssumption DEF ConstantsAssumption, Leases
<1>4. EpochOf(held) = held.epoch /\ EpochOf(held) \in Nat
  BY <1>1, <1>3 DEF EpochOf, Leases
<1>5. EpochOf(claim) \in Nat
  BY <1>2 DEF EpochOf, Leases
<1>6. held.epoch < nextEpoch(claim, held)
  BY <1>4, <1>5 DEF nextEpoch
<1>7. held.at + Duration <= clock
  BY <1>1, ConstantsAssumption
  DEF Claimable, leaseExpired, TypeOK, ConstantsAssumption, Leases
<1> QED
  BY <1>6, <1>7 DEF Precedes

\* Only a claim touches locks, issued leases, or a pending lease.
LEMMA ClaimStep == TypeOK /\ ClaimInv /\ [Next]_vars => ClaimInv'
<1> SUFFICES ASSUME TypeOK, ClaimInv, [Next]_vars PROVE ClaimInv'
  OBVIOUS
<1>1. ASSUME NEW w \in Workers, NEW t \in Tickets, BeginClaim(w, t)
      PROVE  ClaimInv'
  <2>1. lock' = lock /\ issued' = issued
    BY <1>1 DEF BeginClaim, histories
  <2>2. /\ proc'.id = t
        /\ proc'.lease = [worker |-> w, at |-> clock,
                          epoch |-> nextEpoch(ticket[t].claim, lock[t].lease)]
        /\ proc'.step = IF lock[t].state = "absent" THEN "create" ELSE "lock"
    BY <1>1 DEF BeginClaim
  <2>3. Claimable(t)
    BY <1>1 DEF BeginClaim
  <2>4. PendingFollows'
    BY <2>1, <2>2, <2>3, NextLeaseFollows DEF PendingFollows
  <2>5. LockHoldsLast' /\ IssuedInOrder'
    BY <2>1 DEF ClaimInv, LockHoldsLast, IssuedInOrder, Precedes
  <2> QED
    BY <2>4, <2>5 DEF ClaimInv
<1>2. CASE CreateLock
  <2>1. proc \in ClaimProcs
    BY <1>2 DEF CreateLock, ClaimProcs, Idle, TypeOK
  <2>2. lock[proc.id].state = "absent" /\ issued[proc.id] = {}
    BY <1>2, <2>1
    DEF CreateLock, ClaimProcs, ClaimInv, PendingFollows, LockHoldsLast
  <2>3. /\ lock' = [lock EXCEPT ![proc.id] = Unreadable]
        /\ issued' = issued
        /\ proc' = [proc EXCEPT !.step = "lock"]
    BY <1>2 DEF CreateLock, histories
  <2>4. proc'.id = proc.id /\ proc'.step = "lock"
    BY <2>1, <2>3 DEF ClaimProcs
  <2>5. lock'[proc.id].state = "invalid"
    BY <2>1, <2>3 DEF TypeOK, ClaimProcs, Unreadable
  <2>6. PendingFollows'
    BY <2>4, <2>5 DEF PendingFollows
  <2>7. LockHoldsLast'
    <3> SUFFICES ASSUME NEW t \in Tickets
                 PROVE  /\ lock'[t].state # "held" => issued'[t] = {}
                        /\ lock'[t].state = "held" =>
                             \A g \in issued'[t] :
                               g = lock'[t].lease \/ Precedes(g, lock'[t].lease)
      BY DEF LockHoldsLast, Precedes
    <3>1. CASE t = proc.id
      BY <3>1, <2>2, <2>3, <2>5
    <3>2. CASE t # proc.id
      <4>1. lock'[t] = lock[t]
        BY <3>2, <2>3 DEF TypeOK
      <4> QED
        BY <4>1, <2>3 DEF ClaimInv, LockHoldsLast
    <3> QED
      BY <3>1, <3>2
  <2>8. IssuedInOrder'
    BY <2>3 DEF ClaimInv, IssuedInOrder, Precedes
  <2> QED
    BY <2>6, <2>7, <2>8 DEF ClaimInv
<1>3. CASE WriteLock
  <2> DEFINE new == proc.lease
  <2>1. proc \in ClaimProcs
    BY <1>3 DEF WriteLock, ClaimProcs, Idle, TypeOK
  <2>2. proc.id \in Tickets /\ new \in Leases
    BY <2>1 DEF ClaimProcs
  <2>3. /\ lock' = [lock EXCEPT ![proc.id] = Holding(new)]
        /\ issued' = [issued EXCEPT ![proc.id] = @ \cup {new}]
        /\ proc'.step = "claim"
    BY <1>3, <2>1 DEF WriteLock, ClaimProcs
  <2>4. ASSUME NEW g \in issued[proc.id] PROVE Precedes(g, new)
    <3>1. lock[proc.id].state = "held"
      BY <2>2, <2>4 DEF ClaimInv, LockHoldsLast
    <3>2. lock[proc.id].lease \in Leases
      <4> HIDE DEF new
      <4>1. lock[proc.id] \in {Absent, Unreadable}
                               \cup [state : {"held"}, lease : Leases]
        BY <2>2 DEF TypeOK
      <4> QED
        BY <3>1, <4>1 DEF Absent, Unreadable
    <3>3. Precedes(lock[proc.id].lease, new)
      BY <1>3, <3>1 DEF WriteLock, ClaimInv, PendingFollows
    <3>4. g = lock[proc.id].lease \/ Precedes(g, lock[proc.id].lease)
      BY <2>2, <2>4, <3>1 DEF ClaimInv, LockHoldsLast
    <3>5. g \in Leases
      BY <2>2, <2>4 DEF TypeOK
    <3> QED
      BY <2>2, <3>2, <3>3, <3>4, <3>5, PrecedesTransitive
  <2>5. /\ lock'[proc.id] = Holding(new)
        /\ issued'[proc.id] = issued[proc.id] \cup {new}
        /\ \A t \in Tickets : t # proc.id =>
             lock'[t] = lock[t] /\ issued'[t] = issued[t]
    BY <2>2, <2>3 DEF TypeOK
  <2>6. PendingFollows'
    BY <2>3 DEF PendingFollows
  <2>7. LockHoldsLast'
    <3> SUFFICES ASSUME NEW t \in Tickets
                 PROVE  /\ lock'[t].state # "held" => issued'[t] = {}
                        /\ lock'[t].state = "held" =>
                             \A g \in issued'[t] :
                               g = lock'[t].lease \/ Precedes(g, lock'[t].lease)
      BY DEF LockHoldsLast, Precedes
    <3>1. CASE t = proc.id
      BY <3>1, <2>4, <2>5 DEF Holding
    <3>2. CASE t # proc.id
      BY <3>2, <2>5 DEF ClaimInv, LockHoldsLast
    <3> QED
      BY <3>1, <3>2
  <2>8. IssuedInOrder'
    <3> SUFFICES ASSUME NEW t \in Tickets,
                        NEW g \in issued'[t], NEW h \in issued'[t]
                 PROVE  g = h \/ Precedes(g, h) \/ Precedes(h, g)
      BY DEF IssuedInOrder, Precedes
    <3>1. CASE t = proc.id
      BY <3>1, <2>2, <2>4, <2>5 DEF ClaimInv, IssuedInOrder
    <3>2. CASE t # proc.id
      BY <3>2, <2>5 DEF ClaimInv, IssuedInOrder
    <3> QED
      BY <3>1, <3>2
  <2> QED
    BY <2>6, <2>7, <2>8 DEF ClaimInv
<1>4. ASSUME lock' = lock, issued' = issued,
             \/ proc' = proc
             \/ proc'.step \notin {"create", "lock"}
      PROVE  ClaimInv'
  <2>1. PendingFollows'
    BY <1>4 DEF ClaimInv, PendingFollows, Precedes
  <2>2. LockHoldsLast' /\ IssuedInOrder'
    BY <1>4 DEF ClaimInv, LockHoldsLast, IssuedInOrder, Precedes
  <2> QED
    BY <2>1, <2>2 DEF ClaimInv
<1>5. CASE WriteClaim
  BY <1>5, <1>4 DEF WriteClaim, Idle
<1>6. ASSUME NEW t \in Tickets, BeginAttempt(t) \/ BeginClose(t)
      PROVE  ClaimInv'
  BY <1>6, <1>4 DEF BeginAttempt, BeginClose, histories
<1>7. CASE WriteTicket
  BY <1>7, <1>4 DEF WriteTicket, Idle, histories
<1>8. CASE ReconcileStep
  BY <1>8, <1>4
  DEF ReconcileStep, BeginReconcile, ScanPast, ScanRefuse, ScanRepair,
      WriteRepair, EndReconcile, ScanNext, Idle, histories
<1>9. CASE \E t \in Tickets, status \in Statuses : EditStatus(t, status)
  BY <1>9, <1>4 DEF EditStatus, histories
<1>10. CASE \E t \in Tickets, outbox \in {"branch", "sha"} :
              RecordOutbox(t, outbox)
  BY <1>10, <1>4 DEF RecordOutbox, histories
<1>11. CASE MoveBranches
  BY <1>11, <1>4 DEF MoveBranches, histories
<1>12. CASE Crash
  BY <1>12, <1>4 DEF Crash, Idle, histories
<1>13. CASE Tick
  BY <1>13, <1>4 DEF Tick, histories
<1>14. CASE UNCHANGED vars
  BY <1>14, <1>4 DEF vars
<1> QED
  BY <1>1, <1>2, <1>3, <1>5, <1>6, <1>7, <1>8, <1>9, <1>10, <1>11, <1>12,
     <1>13, <1>14
  DEF Next, WriterStep

LEMMA ClaimInit == Init => ClaimInv
  BY DEF Init, ClaimInv, PendingFollows, LockHoldsLast, IssuedInOrder, Idle,
     Absent

LEMMA ClaimInvariant == Spec => [](TypeOK /\ ClaimInv)
  BY TypeInit, TypeStep, ClaimInit, ClaimStep, PTL DEF Spec

\* A generation of a ticket identifies one claim, whatever crashed in between.
THEOREM EpochsAreIssuedOnce == Spec => []EpochsIssuedOnce
<1>1. TypeOK /\ ClaimInv => EpochsIssuedOnce
  <2> SUFFICES ASSUME TypeOK, ClaimInv, NEW t \in Tickets,
                      NEW g \in issued[t], NEW h \in issued[t],
                      g.epoch = h.epoch
               PROVE  g = h
    BY DEF EpochsIssuedOnce
  <2>1. g.epoch \in Nat /\ h.epoch \in Nat
    BY DEF TypeOK, Leases
  <2> QED
    BY <2>1 DEF ClaimInv, IssuedInOrder, Precedes
<1> QED
  BY <1>1, ClaimInvariant, PTL

\* Two leases on a ticket never run at the same time.
THEOREM LeasesAreDisjoint == Spec => []LeasesDisjoint
<1>1. TypeOK /\ ClaimInv => LeasesDisjoint
  <2> SUFFICES ASSUME TypeOK, ClaimInv, NEW t \in Tickets,
                      NEW g \in issued[t], NEW h \in issued[t], g # h
               PROVE  leaseExpired(g, h.at) \/ leaseExpired(h, g.at)
    BY DEF LeasesDisjoint
  <2>1. g.at \in Nat /\ h.at \in Nat
    BY DEF TypeOK, Leases
  <2> QED
    BY <2>1, ConstantsAssumption
    DEF ClaimInv, IssuedInOrder, Precedes, leaseExpired, ConstantsAssumption
<1> QED
  BY <1>1, ClaimInvariant, PTL

\* A ticket has one holder at a time, and a generation names one for ever.
THEOREM TicketsHaveOneHolder == Spec => []OneHolder
BY EpochsAreIssuedOnce, LeasesAreDisjoint, PTL DEF OneHolder
-----------------------------------------------------------------------------
(* What the importer reads. *)

\* No lease starts in the future: those in the locks, and the one on its way.
LeasesHaveBegun ==
  /\ \A t \in Tickets : lock[t].state = "held" => lock[t].lease.at <= clock
  /\ proc.step \in {"create", "lock"} => proc.lease.at <= clock

LEMMA BegunStep ==
  TypeOK /\ LeasesHaveBegun /\ [Next]_vars => LeasesHaveBegun'
<1> SUFFICES ASSUME TypeOK, LeasesHaveBegun, [Next]_vars
             PROVE  LeasesHaveBegun'
  OBVIOUS
<1>0. clock \in Nat  BY DEF TypeOK
<1>1. ASSUME NEW w \in Workers, NEW t \in Tickets, BeginClaim(w, t)
      PROVE  LeasesHaveBegun'
  <2>1. lock' = lock /\ clock' = clock /\ proc'.lease.at = clock
    BY <1>1 DEF BeginClaim, world
  <2> QED  BY <1>0, <2>1 DEF LeasesHaveBegun
<1>2. CASE CreateLock
  <2>1. proc \in ClaimProcs
    BY <1>2 DEF CreateLock, ClaimProcs, Idle, TypeOK
  <2>2. /\ clock' = clock /\ proc.step = "create" /\ proc'.lease = proc.lease
        /\ \A t \in Tickets :
             lock'[t] = IF t = proc.id THEN Unreadable ELSE lock[t]
    BY <1>2, <2>1 DEF CreateLock, ClaimProcs, TypeOK, world
  <2> QED  BY <2>2 DEF LeasesHaveBegun, Unreadable
<1>3. CASE WriteLock
  <2>1. proc \in ClaimProcs
    BY <1>3 DEF WriteLock, ClaimProcs, Idle, TypeOK
  <2>2. /\ clock' = clock /\ proc.step = "lock" /\ proc'.step = "claim"
        /\ \A t \in Tickets :
             lock'[t] = IF t = proc.id THEN Holding(proc.lease) ELSE lock[t]
    BY <1>3, <2>1 DEF WriteLock, ClaimProcs, TypeOK, world
  <2> QED  BY <2>2 DEF LeasesHaveBegun, Holding
<1>4. ASSUME lock' = lock, clock' \in Nat, clock <= clock',
             proc' = proc \/ proc'.step \notin {"create", "lock"}
      PROVE  LeasesHaveBegun'
  <2>1. ASSUME NEW t \in Tickets, lock[t].state = "held"
        PROVE  lock[t].lease.at \in Nat /\ lock[t].lease.at <= clock
    <3>1. lock[t] \in {Absent, Unreadable} \cup [state : {"held"}, lease : Leases]
      BY DEF TypeOK
    <3>2. lock[t].lease \in Leases
      BY <2>1, <3>1 DEF Absent, Unreadable
    <3> QED  BY <2>1, <3>2 DEF Leases, LeasesHaveBegun
  <2>2. ASSUME proc.step \in {"create", "lock"}
        PROVE  proc.lease.at \in Nat /\ proc.lease.at <= clock
    <3>1. proc \in ClaimProcs
      BY <2>2 DEF ClaimProcs, Idle, TypeOK
    <3> QED  BY <2>2, <3>1 DEF ClaimProcs, Leases, LeasesHaveBegun
  <2> QED  BY <1>0, <1>4, <2>1, <2>2 DEF LeasesHaveBegun
<1>5. CASE WriteClaim
  BY <1>0, <1>5, <1>4 DEF WriteClaim, Idle, world
<1>6. ASSUME NEW t \in Tickets, BeginAttempt(t) \/ BeginClose(t)
      PROVE  LeasesHaveBegun'
  BY <1>0, <1>6, <1>4 DEF BeginAttempt, BeginClose, world
<1>7. CASE WriteTicket
  BY <1>0, <1>7, <1>4 DEF WriteTicket, Idle, world
<1>8. CASE ReconcileStep
  BY <1>0, <1>8, <1>4
  DEF ReconcileStep, BeginReconcile, ScanPast, ScanRefuse, ScanRepair,
      WriteRepair, EndReconcile, ScanNext, Idle, world
<1>9. CASE \E t \in Tickets, status \in Statuses : EditStatus(t, status)
  BY <1>0, <1>9, <1>4 DEF EditStatus
<1>10. CASE \E t \in Tickets, outbox \in {"branch", "sha"} :
              RecordOutbox(t, outbox)
  BY <1>0, <1>10, <1>4 DEF RecordOutbox, world
<1>11. CASE MoveBranches
  BY <1>0, <1>11, <1>4 DEF MoveBranches
<1>12. CASE Crash
  BY <1>0, <1>12, <1>4 DEF Crash, Idle
<1>13. CASE Tick
  BY <1>0, <1>13, <1>4 DEF Tick
<1>14. CASE UNCHANGED vars
  BY <1>0, <1>14, <1>4 DEF vars
<1> QED
  BY <1>1, <1>2, <1>3, <1>5, <1>6, <1>7, <1>8, <1>9, <1>10, <1>11, <1>12,
     <1>13, <1>14
  DEF Next, WriterStep

\* The importer never takes a ticket whose lock has gone ahead of it: what it
\* takes carries the last generation issued, and the lease that runs if any.
THEOREM ImportsKeepTheClaim == Spec => []ImportKeepsTheClaim
<1> DEFINE Inv == TypeOK /\ ClaimInv /\ LeasesHaveBegun
<1>1. Init => Inv
  BY TypeInit, ClaimInit DEF Init, LeasesHaveBegun, Absent, Idle
<1>2. Inv /\ [Next]_vars => Inv'
  BY TypeStep, ClaimStep, BegunStep
<1>3. Inv => ImportKeepsTheClaim
  <2> SUFFICES ASSUME Inv, NEW t \in Tickets, Importable(t), NEW g \in issued[t]
               PROVE  /\ g.epoch <= ImportedEpoch(t)
                      /\ ~leaseExpired(g, clock) /\ ticket[t].status = "claimed"
                           => ImportedLease(t) = g
    BY DEF ImportKeepsTheClaim
  <2> DEFINE held == lock[t].lease
  <2>1. lock[t].state = "held"
    BY DEF ClaimInv, LockHoldsLast
  <2>2. lock[t] \in {Absent, Unreadable} \cup [state : {"held"}, lease : Leases]
    BY DEF TypeOK
  <2>3. held \in Leases
    BY <2>1, <2>2 DEF Absent, Unreadable
  <2>4. g \in Leases  BY DEF TypeOK
  <2>5. ticket[t].claim = held /\ held.at <= clock /\ held # NoLease
    BY <2>1, <2>3, ConstantsAssumption
       DEF Importable, LeasesHaveBegun, ConstantsAssumption, Leases
  <2>6. ImportedEpoch(t) = held.epoch
    BY <2>5 DEF ImportedEpoch, EpochOf
  <2>7. g = held \/ Precedes(g, held)
    BY <2>1 DEF ClaimInv, LockHoldsLast
  <2> HIDE DEF held
  <2>8. g.epoch <= ImportedEpoch(t)
    BY <2>3, <2>4, <2>6, <2>7 DEF Precedes, Leases
  <2>9. ~leaseExpired(g, clock) => g = held
    BY <2>3, <2>4, <2>5, <2>7, ConstantsAssumption
       DEF Precedes, leaseExpired, Leases, TypeOK, ConstantsAssumption
  <2>10. ticket[t].status = "claimed" => ImportedLease(t) = held
    BY <2>5 DEF ImportedLease
  <2> QED  BY <2>8, <2>9, <2>10
<1> QED
  BY <1>1, <1>2, <1>3, PTL DEF Spec
-----------------------------------------------------------------------------
(* What a repair closes.                                                   *)
(*                                                                         *)
(* Only a granted claim can be closed under its worker.  The ticket keeps  *)
(* the last one granted, because whoever writes the ticket writes back the *)
(* claim it read; so the one lease the repair looks at stands for all.     *)

\* The ticket holds the last lease granted; each was issued before.
TicketHoldsLast ==
  \A t \in Tickets :
    /\ granted[t] \subseteq issued[t]
    /\ \A g \in granted[t] :
         /\ ticket[t].claim # NoLease
         /\ g = ticket[t].claim \/ Precedes(g, ticket[t].claim)

\* What is about to be written leaves the claim alone, or is the claim whose
\* lease the lock already has.
WritesKeepClaim ==
  /\ proc.step \in {"create", "lock", "claim"} => proc.next.claim = proc.lease
  /\ proc.step = "claim" => lock[proc.id] = Holding(proc.lease)
                              /\ proc.lease \in issued[proc.id]
  /\ proc.step = "write" => proc.next.claim = ticket[proc.id].claim
  /\ proc.step = "repair" =>
       proc.next.claim = ticket[Order[proc.index]].claim

RepairIsDue ==
  /\ proc.step \in {"scan", "repair"} => proc.at <= clock
  /\ proc.step = "repair" =>
       \A g \in granted[Order[proc.index]] : leaseExpired(g, proc.at)

GrantInv == TicketHoldsLast /\ WritesKeepClaim /\ RepairIsDue
\* The kinds of writer by their step.
LEMMA ProcShapes ==
  ASSUME TypeOK
  PROVE  /\ proc.step \in {"create", "lock", "claim"} => proc \in ClaimProcs
         /\ proc.step = "write" => proc \in WriteProcs
         /\ proc.step = "scan" => proc \in ScanProcs
         /\ proc.step = "repair" => proc \in RepairProcs
BY DEF TypeOK, ClaimProcs, WriteProcs, ScanProcs, RepairProcs, Idle

LEMMA IdleKeepsPending ==
  ASSUME proc' = Idle  PROVE WritesKeepClaim' /\ RepairIsDue'
BY DEF WritesKeepClaim, RepairIsDue, Idle

\* No claim is granted and no ticket's claim changes.
LEMMA ClaimsStay ==
  ASSUME TypeOK, TicketHoldsLast, granted' = granted,
         \A t \in Tickets : /\ issued[t] \subseteq issued'[t]
                            /\ ticket'[t].claim = ticket[t].claim
  PROVE  TicketHoldsLast'
BY DEF TicketHoldsLast, Precedes

\* The writer goes on with what it has while the files around it change, but
\* for locks, leases and claims.
LEMMA WriterWaits ==
  ASSUME TypeOK, GrantInv, UNCHANGED <<lock, proc, issued, granted>>,
         clock' \in Nat, clock <= clock',
         \A t \in Tickets : ticket'[t].claim = ticket[t].claim
  PROVE  GrantInv'
<1>1. TicketHoldsLast'  BY ClaimsStay DEF GrantInv
<1>2. WritesKeepClaim'
  BY ProcShapes, OrderFacts
     DEF GrantInv, WritesKeepClaim, WriteProcs, RepairProcs
<1>3. RepairIsDue'
  <2>1. proc.step \in {"scan", "repair"} => proc.at \in Nat
    BY ProcShapes DEF ScanProcs, RepairProcs
  <2>2. clock \in Nat  BY DEF TypeOK
  <2> QED  BY <2>1, <2>2 DEF GrantInv, RepairIsDue, leaseExpired
<1> QED  BY <1>1, <1>2, <1>3 DEF GrantInv

\* The repair of a ticket whose lease has run out at the time of the call finds
\* every lease run out that was granted on it.
LEMMA RepairableIsFree ==
  ASSUME TypeOK, TicketHoldsLast, NEW t \in Tickets, NEW now \in Nat,
         Repairable(t, now), NEW g \in granted[t]
  PROVE  leaseExpired(g, now)
<1> DEFINE claim == ticket[t].claim
<1>1. claim # NoLease /\ (g = claim \/ Precedes(g, claim))
  BY DEF TicketHoldsLast
<1>2. claim \in Leases /\ g \in Leases
  BY <1>1 DEF TypeOK, Texts
<1>3. leaseExpired(claim, now)
  BY <1>1 DEF Repairable, claimLease
<1> HIDE DEF claim
<1> QED
  BY <1>1, <1>2, <1>3, ConstantsAssumption
     DEF Precedes, leaseExpired, Leases, ConstantsAssumption

LEMMA ClaimingKeepsGrants ==
  ASSUME TypeOK, ClaimInv, GrantInv, CreateLock \/ WriteLock \/ WriteClaim
  PROVE  GrantInv'
<1> DEFINE id == proc.id
<1>1. proc \in ClaimProcs
  BY ProcShapes DEF CreateLock, WriteLock, WriteClaim
<1>2. /\ id \in Tickets /\ proc.lease \in Leases
      /\ proc.next.claim = proc.lease /\ proc.lease # NoLease
  BY <1>1, ConstantsAssumption
     DEF ClaimProcs, GrantInv, WritesKeepClaim, ConstantsAssumption, Leases
<1>3. CASE CreateLock
  <2>1. /\ UNCHANGED <<ticket, issued, granted>>
        /\ proc'.step = "lock" /\ proc'.next = proc.next
        /\ proc'.lease = proc.lease
    BY <1>1, <1>3 DEF CreateLock, ClaimProcs, histories
  <2>2. TicketHoldsLast'  BY <2>1, ClaimsStay DEF GrantInv
  <2> QED
    BY <1>2, <2>1, <2>2 DEF GrantInv, WritesKeepClaim, RepairIsDue
<1>4. CASE WriteLock
  <2>1. /\ UNCHANGED <<ticket, granted>>
        /\ proc'.step = "claim" /\ proc'.next = proc.next
        /\ proc'.lease = proc.lease /\ proc'.id = id
        /\ lock'[id] = Holding(proc.lease)
        /\ \A t \in Tickets : issued'[t] =
             IF t = id THEN issued[t] \cup {proc.lease} ELSE issued[t]
    BY <1>1, <1>4 DEF WriteLock, ClaimProcs, TypeOK
  <2>2. TicketHoldsLast'  BY <2>1, ClaimsStay DEF GrantInv
  <2> QED
    BY <1>2, <2>1, <2>2 DEF GrantInv, WritesKeepClaim, RepairIsDue
<1>5. CASE WriteClaim
  <2>1. /\ UNCHANGED <<lock, issued>> /\ proc' = Idle
        /\ \A t \in Tickets :
             /\ ticket'[t] = IF t = id THEN proc.next ELSE ticket[t]
             /\ granted'[t] = IF t = id THEN granted[t] \cup {proc.lease}
                                        ELSE granted[t]
    BY <1>1, <1>5 DEF WriteClaim, ClaimProcs, TypeOK
  <2>2. lock[id] = Holding(proc.lease) /\ proc.lease \in issued[id]
    BY <1>5 DEF WriteClaim, GrantInv, WritesKeepClaim
  <2>3. \A g \in granted[id] : g = proc.lease \/ Precedes(g, proc.lease)
    BY <1>2, <2>2
       DEF GrantInv, TicketHoldsLast, ClaimInv, LockHoldsLast, Holding
  <2>4. TicketHoldsLast'
    <3> SUFFICES ASSUME NEW t \in Tickets
                 PROVE  /\ granted'[t] \subseteq issued'[t]
                        /\ \A g \in granted'[t] :
                             /\ ticket'[t].claim # NoLease
                             /\ \/ g = ticket'[t].claim
                                \/ Precedes(g, ticket'[t].claim)
      BY DEF TicketHoldsLast, Precedes
    <3>1. CASE t = id
      <4>1. /\ granted'[t] = granted[t] \cup {proc.lease}
            /\ ticket'[t].claim = proc.lease /\ issued'[t] = issued[t]
        BY <1>2, <2>1, <3>1
      <4>2. granted[t] \subseteq issued[t]
        BY DEF GrantInv, TicketHoldsLast
      <4> QED  BY <1>2, <2>2, <2>3, <3>1, <4>1, <4>2
    <3>2. CASE t # id
      BY <2>1, <3>2 DEF GrantInv, TicketHoldsLast
    <3> QED  BY <3>1, <3>2
  <2> QED  BY <2>1, <2>4, IdleKeepsPending DEF GrantInv
<1> QED  BY <1>3, <1>4, <1>5

LEMMA ReconcileKeepsGrants ==
  ASSUME TypeOK, GrantInv, ReconcileStep
  PROVE  GrantInv'
<1>0. clock \in Nat /\ clock' = clock /\ UNCHANGED <<lock, issued, granted>>
  BY DEF TypeOK, ReconcileStep, BeginReconcile, ScanPast, ScanRefuse,
     ScanRepair, WriteRepair, EndReconcile, histories, world
<1>1. CASE UNCHANGED ticket
  <2>1. TicketHoldsLast'  BY <1>0, <1>1, ClaimsStay DEF GrantInv
  <2>2. CASE BeginReconcile
    <3>1. proc'.step = "scan" /\ proc'.at = clock
      BY <2>2 DEF BeginReconcile
    <3> QED
      BY <1>0, <2>1, <3>1 DEF GrantInv, WritesKeepClaim, RepairIsDue
  <2>3. ASSUME NEW t \in Tickets, ScanPast(t)  PROVE GrantInv'
    <3>1. proc.step = "scan" /\ proc'.step = "scan" /\ proc'.at = proc.at
      BY <2>3 DEF ScanPast, Scanning, ScanNext
    <3> QED
      BY <1>0, <2>1, <3>1 DEF GrantInv, WritesKeepClaim, RepairIsDue
  <2>4. ASSUME NEW t \in Tickets, ScanRepair(t)  PROVE GrantInv'
    <3>1. /\ proc.step = "scan" /\ Order[proc.index] = t
          /\ Repairable(t, proc.at)
          /\ proc' = [step |-> "repair", at |-> proc.at, index |-> proc.index,
                      next |-> [ticket[t] EXCEPT !.status = "done"]]
      BY <2>4 DEF ScanRepair, Scanning
    <3>2. proc'.next.claim = ticket[t].claim
      BY <3>1 DEF TypeOK, Texts
    <3>3. proc.at \in Nat /\ proc.at <= clock
      BY <3>1, ProcShapes DEF ScanProcs, GrantInv, RepairIsDue
    <3>4. \A g \in granted[t] : leaseExpired(g, proc.at)
      BY <3>1, <3>3, RepairableIsFree DEF GrantInv
    <3>5. /\ proc'.step = "repair" /\ proc'.at = proc.at
          /\ proc'.index = proc.index
      BY <3>1
    <3> QED
      BY <1>0, <1>1, <2>1, <3>1, <3>2, <3>3, <3>4, <3>5
         DEF GrantInv, WritesKeepClaim, RepairIsDue, leaseExpired
  <2>5. CASE proc' = Idle
    BY <2>1, <2>5, IdleKeepsPending DEF GrantInv
  <2>6. CASE WriteRepair
    <3>1. proc.step = "repair" /\ proc'.step = "scan" /\ proc'.at = proc.at
      BY <2>6 DEF WriteRepair, ScanNext
    <3> QED
      BY <1>0, <2>1, <3>1 DEF GrantInv, WritesKeepClaim, RepairIsDue
  <2> QED
    BY <2>2, <2>3, <2>4, <2>5, <2>6
       DEF ReconcileStep, ScanRefuse, EndReconcile
<1>2. CASE WriteRepair
  <2>1. proc \in RepairProcs /\ proc.step = "repair"
    BY <1>2, ProcShapes DEF WriteRepair
  <2>2. proc'.step = "scan" /\ proc'.at = proc.at
    BY <1>2 DEF WriteRepair, ScanNext
  <2>3. \A t \in Tickets : ticket'[t] = IF t = Order[proc.index]
                                        THEN proc.next ELSE ticket[t]
    BY <1>2 DEF WriteRepair, TypeOK
  <2>4. TicketHoldsLast'
    BY <1>0, <2>1, <2>3, ClaimsStay DEF GrantInv, WritesKeepClaim
  <2> QED
    BY <1>0, <2>1, <2>2, <2>4 DEF GrantInv, WritesKeepClaim, RepairIsDue
<1> QED
  BY <1>1, <1>2 DEF ReconcileStep, BeginReconcile, ScanPast, ScanRefuse,
     ScanRepair, EndReconcile

LEMMA GrantStep ==
  TypeOK /\ ClaimInv /\ GrantInv /\ [Next]_vars => GrantInv'
<1> SUFFICES ASSUME TypeOK, ClaimInv, GrantInv, [Next]_vars  PROVE GrantInv'
  OBVIOUS
<1>0. clock \in Nat  BY DEF TypeOK
<1>t. \A t \in Tickets : ticket[t] \in Texts  BY DEF TypeOK
<1>1. ASSUME NEW w \in Workers, NEW t \in Tickets, BeginClaim(w, t)
      PROVE  GrantInv'
  <2> DEFINE lease == [worker |-> w, at |-> clock,
                       epoch |-> nextEpoch(ticket[t].claim, lock[t].lease)]
  <2>1. /\ UNCHANGED <<ticket, lock, issued, granted>>
        /\ proc'.step \in {"create", "lock"}
        /\ proc'.lease = lease /\ proc'.next = Claimed(ticket[t], lease)
    BY <1>1 DEF BeginClaim, histories
  <2> HIDE DEF lease
  <2>2. proc'.next.claim = proc'.lease
    BY <1>t, <2>1 DEF Claimed, Texts
  <2>3. TicketHoldsLast'  BY <2>1, ClaimsStay DEF GrantInv
  <2> QED
    BY <2>1, <2>2, <2>3 DEF GrantInv, WritesKeepClaim, RepairIsDue
<1>2. CASE CreateLock \/ WriteLock \/ WriteClaim
  BY <1>2, ClaimingKeepsGrants
<1>3. ASSUME NEW t \in Tickets, BeginAttempt(t) \/ BeginClose(t)
      PROVE  GrantInv'
  <2>1. /\ UNCHANGED <<ticket, lock, issued, granted>>
        /\ proc'.step = "write" /\ proc'.id = t
        /\ \/ proc'.next = Attempted(ticket[t])
           \/ proc'.next = [ticket[t] EXCEPT !.status = "done"]
    BY <1>3 DEF BeginAttempt, BeginClose, histories
  <2>2. proc'.next.claim = ticket'[t].claim
    BY <1>t, <2>1 DEF Attempted, Texts
  <2>3. TicketHoldsLast'  BY <2>1, ClaimsStay DEF GrantInv
  <2> QED
    BY <2>1, <2>2, <2>3 DEF GrantInv, WritesKeepClaim, RepairIsDue
<1>4. CASE WriteTicket
  <2>1. proc.step = "write" /\ proc \in WriteProcs
    BY <1>4, ProcShapes DEF WriteTicket
  <2>2. /\ proc' = Idle /\ UNCHANGED <<issued, granted>>
        /\ \A t \in Tickets : ticket'[t] = IF t = proc.id THEN proc.next
                                                         ELSE ticket[t]
    BY <1>4 DEF WriteTicket, TypeOK, histories
  <2>3. TicketHoldsLast'
    BY <2>1, <2>2, ClaimsStay DEF GrantInv, WritesKeepClaim
  <2> QED  BY <2>2, <2>3, IdleKeepsPending DEF GrantInv
<1>5. CASE ReconcileStep  BY <1>5, ReconcileKeepsGrants
<1>6. ASSUME NEW t \in Tickets,
             \/ \E status \in Statuses : EditStatus(t, status)
             \/ \E outbox \in {"branch", "sha"} : RecordOutbox(t, outbox)
      PROVE  GrantInv'
  <2>1. UNCHANGED <<lock, proc, issued, granted, clock>>
    BY <1>6 DEF EditStatus, RecordOutbox, histories, world
  <2>2. \/ \E status \in Statuses :
             ticket' = [ticket EXCEPT ![t].status = status]
        \/ \E outbox \in {"branch", "sha"} :
             ticket' = [ticket EXCEPT ![t].outbox = outbox]
    BY <1>6 DEF EditStatus, RecordOutbox
  <2>3. \A u \in Tickets : u # t => ticket'[u] = ticket[u]
    BY <2>2 DEF TypeOK
  <2>4. \/ \E status \in Statuses :
             ticket'[t] = [ticket[t] EXCEPT !.status = status]
        \/ \E outbox \in {"branch", "sha"} :
             ticket'[t] = [ticket[t] EXCEPT !.outbox = outbox]
    BY <2>2 DEF TypeOK
  <2>5. ticket'[t].claim = ticket[t].claim
    BY <1>t, <2>4 DEF Texts
  <2> QED  BY <1>0, <2>1, <2>3, <2>5, WriterWaits
<1>7. CASE MoveBranches \/ Tick \/ UNCHANGED vars
  <2>1. UNCHANGED <<ticket, lock, proc, issued, granted>>
    BY <1>7 DEF MoveBranches, Tick, vars, histories
  <2>2. clock' \in Nat /\ clock <= clock'
    BY <1>0, <1>7 DEF MoveBranches, Tick, vars
  <2> QED  BY <2>1, <2>2, WriterWaits
<1>8. CASE Crash
  <2>1. proc' = Idle /\ UNCHANGED <<ticket, issued, granted>>
    BY <1>8 DEF Crash, histories
  <2>2. TicketHoldsLast'  BY <2>1, ClaimsStay DEF GrantInv
  <2> QED  BY <2>1, <2>2, IdleKeepsPending DEF GrantInv
<1> QED
  BY <1>1, <1>2, <1>3, <1>4, <1>5, <1>6, <1>7, <1>8 DEF Next, WriterStep

\* A ticket is closed by the repair only on a commit that HEAD has, if it
\* recorded one, and never under a worker whose granted claim still runs.
THEOREM RepairsAreJustified == Spec => RepairsJustified
<1> DEFINE Inv == TypeOK /\ ClaimInv /\ GrantInv
<1>1. Init => Inv
  BY TypeInit, ClaimInit
     DEF Init, GrantInv, TicketHoldsLast, WritesKeepClaim, RepairIsDue, Idle
<1>2. Inv /\ [Next]_vars => Inv'
  BY TypeStep, ClaimStep, GrantStep
<1>3. Inv /\ [Next]_vars =>
        [\A t \in Tickets :
           /\ ScanRepair(t) /\ ticket[t].outbox = "sha"
                => "recorded" \in branch[t].landed
           /\ WriteRepair /\ Order[proc.index] = t /\ ticket[t].status = "claimed"
                => \A g \in granted[t] : leaseExpired(g, clock)]_vars
  <2> SUFFICES ASSUME Inv, NEW t \in Tickets
               PROVE  /\ ScanRepair(t) /\ ticket[t].outbox = "sha"
                           => "recorded" \in branch[t].landed
                      /\ WriteRepair /\ Order[proc.index] = t
                           => \A g \in granted[t] : leaseExpired(g, clock)
    OBVIOUS
  <2>1. ScanRepair(t) /\ ticket[t].outbox = "sha"
          => "recorded" \in branch[t].landed
    <3>1. branch[t].tip \in {"recorded", "moved", "gone"}
      BY DEF TypeOK, Commits
    <3> QED  BY <3>1 DEF ScanRepair, Refused, Landed, Anchor
  <2>2. ASSUME WriteRepair, Order[proc.index] = t, NEW g \in granted[t]
        PROVE  leaseExpired(g, clock)
    <3>1. proc.step = "repair" /\ proc.at \in Nat
      BY <2>2, ProcShapes DEF WriteRepair, RepairProcs
    <3>2. proc.at <= clock /\ leaseExpired(g, proc.at)
      BY <2>2, <3>1 DEF GrantInv, RepairIsDue
    <3>3. g \in Leases /\ clock \in Nat  BY DEF TypeOK
    <3> QED
      BY <3>1, <3>2, <3>3, ConstantsAssumption
         DEF leaseExpired, Leases, ConstantsAssumption
  <2> QED  BY <2>1, <2>2
<1> QED
  BY <1>1, <1>2, <1>3, PTL DEF Spec, RepairsJustified
=============================================================================
