------------------------ MODULE QueueWriteLockProofs ------------------------
(***************************************************************************)
(* Mutual exclusion of the queue guard, and the one queue of record, for   *)
(* any number of writers and recoverers, with processes dying at any step. *)
(*                                                                         *)
(* LiveWritersHoldGuard alone is not inductive: a recoverer renames the    *)
(* guard without looking at it again.  What protects the next owner is     *)
(* that the recoverer's token is dead and either still in the guard or     *)
(* already moved to its tombstone, in which case the rename fails.         *)
(***************************************************************************)
EXTENDS QueueWriteLock, TLAPS

\* A recoverer that is past its second look at the owner.
Decided(r) == recoverer[r].phase \in {"fence", "revoke", "move"}

RecoverersDecideRightly ==
  \A r \in Recoverers : Decided(r) =>
    LET w == recoverer[r].token IN
    /\ w \in Writers \ alive
    /\ recoveries[w] # "moved" => held = w

RecovererState == [phase : RecovererPhases, token : Writers \cup {NoWriter},
                   receipt : BOOLEAN, seen : Fences, attempt : 0..1]

\* The parts of TypeOK the argument needs.
Shape ==
  /\ held \in Writers \cup {NoWriter}
  /\ recoveries \in [Writers -> {"none", "receipt", "moved"}]
  /\ pc \in [Writers -> Phases]
  /\ recoverer \in [Recoverers -> RecovererState]
  /\ \A r \in Recoverers : recoverer[r].phase # "idle"
                             => recoverer[r].token \in Writers

GuardInv == Shape /\ LiveWritersHoldGuard /\ RecoverersDecideRightly

-----------------------------------------------------------------------------
(* Writers. *)

\* A step of one writer that leaves the guard alone and does not enter the
\* critical section.
LEMMA GotoKeepsGuard ==
  ASSUME GuardInv, NEW w \in Writers, NEW phase \in Phases,
         Goto(w, phase), UNCHANGED <<lockVars, alive, recoverer>>,
         phase \in Critical => pc[w] \in Critical
  PROVE  GuardInv'
<1>1. Shape'
  BY DEF GuardInv, Shape, Goto, lockVars
<1>2. \A u \in Writers : pc'[u] \in Critical => pc[u] \in Critical
  BY DEF GuardInv, Shape, Goto
<1>3. LiveWritersHoldGuard'
  BY <1>2 DEF GuardInv, LiveWritersHoldGuard, lockVars
<1>4. RecoverersDecideRightly'
  BY DEF GuardInv, RecoverersDecideRightly, Decided, lockVars
<1> QED  BY <1>1, <1>3, <1>4 DEF GuardInv

LEMMA AcquireKeepsGuard ==
  ASSUME GuardInv, NEW w \in Writers, Acquire(w)
  PROVE  GuardInv'
<1>1. CASE held # NoWriter
  <2>1. Goto(w, "done") /\ UNCHANGED <<lockVars, alive, recoverer>>
    BY <1>1 DEF Acquire, lockVars
  <2> QED  BY <2>1, GotoKeepsGuard DEF Phases, Critical
<1>2. CASE held = NoWriter
  <2> DEFINE phase == IF w \in Fenced THEN "fence" ELSE "check"
  <2>1. /\ held' = w
        /\ pc' = [pc EXCEPT ![w] = phase]
        /\ UNCHANGED <<recoveries, alive, recoverer>>
    BY <1>2 DEF Acquire, Goto
  <2>2. phase \in Phases  BY DEF Phases
  <2>3. Shape'
    BY <2>1, <2>2 DEF GuardInv, Shape
  <2>4. \A u \in Writers : u \in alive => pc[u] \notin Critical
    BY <1>2, ConstantsAssumption DEF GuardInv, LiveWritersHoldGuard
  <2>5. \A u \in Writers \ {w} : pc'[u] = pc[u]
    BY <2>1 DEF GuardInv, Shape
  <2>6. LiveWritersHoldGuard'
    BY <2>1, <2>4, <2>5 DEF LiveWritersHoldGuard
  <2>7. \A r \in Recoverers : Decided(r) =>
          recoveries[recoverer[r].token] = "moved"
    BY <1>2, ConstantsAssumption DEF GuardInv, RecoverersDecideRightly
  <2>8. RecoverersDecideRightly'
    BY <2>1, <2>7 DEF GuardInv, RecoverersDecideRightly, Decided
  <2> QED  BY <2>3, <2>6, <2>8 DEF GuardInv
<1> QED  BY <1>1, <1>2

LEMMA UnlinkKeepsGuard ==
  ASSUME GuardInv, NEW w \in Writers, Unlink(w)
  PROVE  GuardInv'
<1>1. /\ held' = NoWriter
      /\ pc' = [pc EXCEPT ![w] = "done"]
      /\ UNCHANGED <<recoveries, alive, recoverer>>
      /\ w \in alive /\ pc[w] = "unlink"
  BY DEF Unlink, Goto, At
<1>2. held = w  BY <1>1 DEF GuardInv, LiveWritersHoldGuard, Critical
<1>3. Shape'  BY <1>1 DEF GuardInv, Shape, Phases
<1>4. \A u \in Writers \ {w} : pc'[u] = pc[u]
  BY <1>1 DEF GuardInv, Shape
<1>5. pc'[w] \notin Critical  BY <1>1 DEF GuardInv, Shape, Critical
<1>6. LiveWritersHoldGuard'
  BY <1>1, <1>2, <1>4, <1>5 DEF GuardInv, LiveWritersHoldGuard
<1>7. \A r \in Recoverers : Decided(r) =>
        recoveries[recoverer[r].token] = "moved"
  BY <1>1, <1>2 DEF GuardInv, RecoverersDecideRightly
<1>8. RecoverersDecideRightly'
  BY <1>1, <1>7 DEF GuardInv, RecoverersDecideRightly, Decided
<1> QED  BY <1>3, <1>6, <1>8 DEF GuardInv

LEMMA WritersKeepGuard ==
  ASSUME GuardInv, NEW w \in Writers, WriterStep(w)
  PROVE  GuardInv'
<1>1. CASE Start(w)
  <2>1. \E phase \in Phases \ Critical : Goto(w, phase)
    BY <1>1 DEF Start, Phases, Critical
  <2> QED  BY <1>1, <2>1, GotoKeepsGuard DEF Start
<1>2. CASE PrepareFence(w)
  BY <1>2, GotoKeepsGuard DEF PrepareFence, Phases, Critical
<1>3. CASE Acquire(w)  BY <1>3, AcquireKeepsGuard
<1>4. CASE ReplaceFence(w)
  <2>1. \E phase \in Critical : Goto(w, phase)
    BY <1>4 DEF ReplaceFence, Critical
  <2>2. pc[w] \in Critical  BY <1>4 DEF ReplaceFence, Critical
  <2> QED
    BY <1>4, <2>1, <2>2, GotoKeepsGuard DEF ReplaceFence, Phases, Critical
<1>5. CASE Check(w)
  <2>1. \E phase \in Critical : Goto(w, phase)
    <3>1. Goto(w, "write") \/ Goto(w, "import") \/ Goto(w, "transaction")
            \/ Goto(w, "release")
      BY <1>5, ConstantsAssumption DEF Check
    <3> QED  BY <3>1 DEF Critical
  <2>2. pc[w] \in Critical  BY <1>5 DEF Check, At, Critical
  <2> QED  BY <1>5, <2>1, <2>2, GotoKeepsGuard DEF Check, Phases, Critical
<1>6. CASE WriteTicket(w)
  BY <1>6, GotoKeepsGuard DEF WriteTicket, At, Phases, Critical
<1>7. CASE ImportTickets(w)
  <2>1. \E phase \in Critical : Goto(w, phase)
    BY <1>7 DEF ImportTickets, Critical
  <2>2. pc[w] \in Critical  BY <1>7 DEF ImportTickets, At, Critical
  <2> QED
    BY <1>7, <2>1, <2>2, GotoKeepsGuard DEF ImportTickets, Phases, Critical
<1>8. CASE Activate(w)
  BY <1>8, GotoKeepsGuard DEF Activate, Phases, Critical
<1>9. CASE Release(w)
  <2>1. \E phase \in {"unlink", "done"} : Goto(w, phase)
    BY <1>9 DEF Release
  <2>2. pc[w] \in Critical  BY <1>9 DEF Release, At, Critical
  <2> QED
    BY <1>9, <2>1, <2>2, GotoKeepsGuard DEF Release, Phases, Critical
<1>10. CASE Unlink(w)  BY <1>10, UnlinkKeepsGuard
<1> QED
  BY <1>1, <1>2, <1>3, <1>4, <1>5, <1>6, <1>7, <1>8, <1>9, <1>10
     DEF WriterStep

-----------------------------------------------------------------------------
(* Recoverers. *)

\* A recoverer's step that changes only its own state, and has decided only on
\* the token of a dead owner whose guard is still there or has been moved.
LEMMA BecomeKeepsGuard ==
  ASSUME GuardInv, NEW r \in Recoverers, NEW state \in RecovererState,
         Become(r, state), UNCHANGED <<held, pc, alive>>,
         recoveries' \in [Writers -> {"none", "receipt", "moved"}],
         \A w \in Writers : recoveries[w] = "moved" => recoveries'[w] = "moved",
         state.phase # "idle" => state.token \in Writers,
         state.phase \in {"fence", "revoke", "move"} =>
           /\ state.token \notin alive
           /\ recoveries'[state.token] # "moved" => held = state.token
  PROVE  GuardInv'
<1>1. recoverer' = [recoverer EXCEPT ![r] = state]  BY DEF Become
<1>2. recoverer'[r] = state
        /\ \A q \in Recoverers \ {r} : recoverer'[q] = recoverer[q]
  BY <1>1 DEF GuardInv, Shape
<1>3. Shape'  BY <1>1, <1>2 DEF GuardInv, Shape
<1>4. LiveWritersHoldGuard'  BY DEF GuardInv, LiveWritersHoldGuard
<1>5. RecoverersDecideRightly'
  BY <1>2 DEF GuardInv, RecoverersDecideRightly, Decided
<1> QED  BY <1>3, <1>4, <1>5 DEF GuardInv

LEMMA MoveKeepsGuard ==
  ASSUME GuardInv, NEW r \in Recoverers, MoveGuard(r)
  PROVE  GuardInv'
<1> DEFINE w == recoverer[r].token
<1>1. /\ recoverer[r].phase = "move" /\ Become(r, IdleRecoverer)
      /\ UNCHANGED <<pc, alive>>
  BY DEF MoveGuard, Recovering, writerVars
<1>2. w \in Writers \ alive /\ (recoveries[w] # "moved" => held = w)
  BY <1>1 DEF GuardInv, RecoverersDecideRightly, Decided
<1>i. IdleRecoverer \in RecovererState /\ IdleRecoverer.phase = "idle"
  BY DEF IdleRecoverer, RecovererState, RecovererPhases, Fences
<1>3. CASE ~(held # NoWriter /\ recoveries[w] # "moved")
  <2>1. UNCHANGED <<held, recoveries>>  BY <1>3 DEF MoveGuard, lockVars
  <2> QED  BY <1>1, <1>i, <2>1, BecomeKeepsGuard DEF GuardInv, Shape
<1>4. CASE held # NoWriter /\ recoveries[w] # "moved"
  <2>1. /\ held' = NoWriter /\ held = w
        /\ recoveries' = [recoveries EXCEPT ![w] = "moved"]
        /\ recoverer' = [recoverer EXCEPT ![r] = IdleRecoverer]
    BY <1>1, <1>2, <1>4 DEF MoveGuard, Become
  <2>2. Shape'
    BY <1>1, <1>i, <2>1 DEF GuardInv, Shape
  <2>3. \A u \in Writers : u \in alive => pc[u] \notin Critical
    BY <1>2, <2>1 DEF GuardInv, LiveWritersHoldGuard
  <2>4. LiveWritersHoldGuard'  BY <1>1, <2>3 DEF LiveWritersHoldGuard
  <2>5. RecoverersDecideRightly'
    <3> SUFFICES ASSUME NEW q \in Recoverers, Decided(q)'
                 PROVE  LET u == recoverer'[q].token IN
                        u \in Writers \ alive' /\ recoveries'[u] = "moved"
      BY <2>1 DEF RecoverersDecideRightly
    <3>1. q # r /\ recoverer'[q] = recoverer[q]
      BY <1>i, <2>1 DEF GuardInv, Shape, Decided
    <3> DEFINE u == recoverer[q].token
    <3>2. u \in Writers \ alive /\ (recoveries[u] # "moved" => held = u)
      BY <3>1 DEF GuardInv, RecoverersDecideRightly, Decided
    <3>3. recoveries'[u] = "moved"
      BY <2>1, <3>2 DEF GuardInv, Shape
    <3> QED  BY <1>1, <3>1, <3>2, <3>3
  <2> QED  BY <2>2, <2>4, <2>5 DEF GuardInv
<1> QED  BY <1>3, <1>4

\* What a recoverer's next states have in common.
LEMMA RecovererStates ==
  ASSUME Shape, NEW r \in Recoverers
  PROVE  /\ IdleRecoverer \in RecovererState
         /\ IdleRecoverer.phase = "idle"
         /\ \A phase \in RecovererPhases :
              LET state == [recoverer[r] EXCEPT !.phase = phase] IN
              /\ state \in RecovererState
              /\ state.phase = phase
              /\ state.token = recoverer[r].token
<1>1. IdleRecoverer \in RecovererState /\ IdleRecoverer.phase = "idle"
  BY DEF IdleRecoverer, RecovererState, RecovererPhases, Fences
<1>2. recoverer[r] \in RecovererState  BY DEF Shape
<1> QED  BY <1>1, <1>2 DEF RecovererState

LEMMA RecoverersKeepGuard ==
  ASSUME GuardInv, fence \in Fences, NEW r \in Recoverers,
         RecovererStep(r) \/ \E w \in Writers : BeginRecovery(r, w)
  PROVE  GuardInv'
<1> DEFINE t == recoverer[r].token
           at(phase) == [recoverer[r] EXCEPT !.phase = phase]
<1>a. Shape  BY DEF GuardInv
<1>b. recoverer[r].phase # "idle" => t \in Writers  BY <1>a DEF Shape
<1>c. Decided(r) => t \notin alive /\ (recoveries[t] # "moved" => held = t)
  BY DEF GuardInv, RecoverersDecideRightly
<1>d. recoveries \in [Writers -> {"none", "receipt", "moved"}]
  BY <1>a DEF Shape
<1>1. CASE \E w \in Writers : BeginRecovery(r, w)
  <2>1. PICK w \in Writers : BeginRecovery(r, w)  BY <1>1
  <2> DEFINE state == [IdleRecoverer EXCEPT !.phase = "inspect", !.token = w,
                                            !.receipt = recoveries[w] = "receipt"]
  <2> DEFINE seen == recoveries[w] = "receipt"
  <2>2. seen \in BOOLEAN  OBVIOUS
  <2> HIDE DEF seen
  <2>i. IdleRecoverer \in RecovererState  BY <1>a, RecovererStates
  <2>s. state = [[[IdleRecoverer EXCEPT !.phase = "inspect"]
                                 EXCEPT !.token = w] EXCEPT !.receipt = seen]
    BY DEF seen
  <2>3. state \in RecovererState /\ state.phase = "inspect" /\ state.token = w
    BY <2>2, <2>i, <2>s DEF RecovererState, RecovererPhases
  <2>4. Become(r, state) /\ UNCHANGED <<held, recoveries, pc, alive>>
    BY <2>1 DEF BeginRecovery, lockVars, writerVars
  <2> HIDE DEF state
  <2> QED  BY <1>d, <2>3, <2>4, BecomeKeepsGuard
<1>2. CASE InspectOwner(r)
  <2>1. Become(r, at("judge")) \/ Become(r, IdleRecoverer)
    BY <1>2 DEF InspectOwner
  <2>2. recoverer[r].phase = "inspect" /\ UNCHANGED <<held, recoveries, pc, alive>>
    BY <1>2 DEF InspectOwner, Recovering, lockVars, writerVars
  <2> QED
    BY <1>a, <1>b, <1>d, <2>1, <2>2, RecovererStates, BecomeKeepsGuard
       DEF RecovererPhases
<1>3. CASE JudgeOwner(r)
  <2>1. \/ Become(r, at("confirm")) \/ Become(r, at("record"))
        \/ Become(r, IdleRecoverer)
    BY <1>3 DEF JudgeOwner
  <2>2. recoverer[r].phase = "judge" /\ UNCHANGED <<held, recoveries, pc, alive>>
    BY <1>3 DEF JudgeOwner, Recovering, lockVars, writerVars
  <2> QED
    BY <1>a, <1>b, <1>d, <2>1, <2>2, RecovererStates, BecomeKeepsGuard
       DEF RecovererPhases
<1>4. CASE RecordReceipt(r)
  <2>1. /\ recoverer[r].phase = "record" /\ Become(r, at("confirm"))
        /\ UNCHANGED <<held, pc, alive>>
        /\ recoveries' = [recoveries EXCEPT
                            ![t] = IF @ = "none" THEN "receipt" ELSE @]
    BY <1>4 DEF RecordReceipt, Recovering, writerVars
  <2>2. /\ recoveries' \in [Writers -> {"none", "receipt", "moved"}]
        /\ \A w \in Writers : recoveries[w] = "moved" => recoveries'[w] = "moved"
    BY <1>b, <1>d, <2>1
  <2> QED
    BY <1>a, <1>b, <2>1, <2>2, RecovererStates, BecomeKeepsGuard
       DEF RecovererPhases
<1>5. CASE ConfirmOwner(r)
  <2>1. \/ /\ held = t /\ t \notin alive
           /\ Become(r, at("fence")) \/ Become(r, at("move"))
        \/ Become(r, IdleRecoverer)
    BY <1>5 DEF ConfirmOwner
  <2>2. recoverer[r].phase = "confirm" /\ UNCHANGED <<held, recoveries, pc, alive>>
    BY <1>5 DEF ConfirmOwner, Recovering, lockVars, writerVars
  <2> QED
    BY <1>a, <1>b, <1>d, <2>1, <2>2, RecovererStates, BecomeKeepsGuard
       DEF RecovererPhases
<1>6. CASE ReadFence(r)
  <2>1. \/ Become(r, at("move"))
        \/ Become(r, [recoverer[r] EXCEPT !.phase = "revoke", !.seen = fence])
        \/ Become(r, IdleRecoverer)
    BY <1>6 DEF ReadFence
  <2>2. recoverer[r].phase = "fence" /\ UNCHANGED <<held, recoveries, pc, alive>>
    BY <1>6 DEF ReadFence, Recovering, lockVars, writerVars
  <2> DEFINE state == [recoverer[r] EXCEPT !.phase = "revoke", !.seen = fence]
  <2>3. recoverer[r] \in RecovererState  BY <1>a DEF Shape
  <2>4. state \in RecovererState /\ state.phase = "revoke" /\ state.token = t
    BY <2>3 DEF RecovererState, RecovererPhases
  <2>5. Decided(r)  BY <2>2 DEF Decided
  <2> HIDE DEF state
  <2>6. CASE Become(r, state)
    BY <1>b, <1>c, <1>d, <2>2, <2>4, <2>5, <2>6, BecomeKeepsGuard
  <2>7. CASE Become(r, at("move"))
    <3>1. /\ at("move") \in RecovererState
          /\ at("move").phase = "move" /\ at("move").token = t
      BY <1>a, RecovererStates DEF RecovererPhases
    <3> HIDE DEF at
    <3> QED
      BY <1>b, <1>c, <1>d, <2>2, <2>5, <2>7, <3>1, BecomeKeepsGuard
  <2>8. CASE Become(r, IdleRecoverer)
    BY <1>a, <1>b, <1>c, <1>d, <2>2, <2>5, <2>8, RecovererStates,
       BecomeKeepsGuard
  <2> QED  BY <2>1, <2>6, <2>7, <2>8 DEF state
<1>7. CASE RevokeFence(r)
  <2> DEFINE state == [recoverer[r] EXCEPT !.phase = "fence", !.attempt = 1]
  <2>1. \/ Become(r, at("move")) \/ Become(r, state)
        \/ Become(r, IdleRecoverer)
    BY <1>7 DEF RevokeFence
  <2>2. recoverer[r].phase = "revoke" /\ UNCHANGED <<held, recoveries, pc, alive>>
    BY <1>7 DEF RevokeFence, lockVars, writerVars
  <2>3. recoverer[r] \in RecovererState  BY <1>a DEF Shape
  <2> DEFINE again == [recoverer[r] EXCEPT !.phase = "fence"]
  <2>a. again \in RecovererState /\ again.phase = "fence" /\ again.token = t
    BY <2>3 DEF RecovererState, RecovererPhases
  <2>b. state = [again EXCEPT !.attempt = 1]  OBVIOUS
  <2> HIDE DEF again, state
  <2>4. state \in RecovererState /\ state.phase = "fence" /\ state.token = t
    BY <2>a, <2>b DEF RecovererState
  <2>5. Decided(r)  BY <2>2 DEF Decided
  <2>6. CASE Become(r, state)
    BY <1>b, <1>c, <1>d, <2>2, <2>4, <2>5, <2>6, BecomeKeepsGuard
  <2>7. CASE Become(r, at("move"))
    <3>1. /\ at("move") \in RecovererState
          /\ at("move").phase = "move" /\ at("move").token = t
      BY <1>a, RecovererStates DEF RecovererPhases
    <3> HIDE DEF at
    <3> QED
      BY <1>b, <1>c, <1>d, <2>2, <2>5, <2>7, <3>1, BecomeKeepsGuard
  <2>8. CASE Become(r, IdleRecoverer)
    BY <1>a, <1>b, <1>c, <1>d, <2>2, <2>5, <2>8, RecovererStates,
       BecomeKeepsGuard
  <2> QED  BY <2>1, <2>6, <2>7, <2>8
<1>8. CASE MoveGuard(r)  BY <1>8, MoveKeepsGuard
<1> QED
  BY <1>1, <1>2, <1>3, <1>4, <1>5, <1>6, <1>7, <1>8 DEF RecovererStep

-----------------------------------------------------------------------------
(* The theorem. *)

LEMMA CrashKeepsGuard == ASSUME GuardInv, Crash  PROVE GuardInv'
<1>1. alive' \subseteq alive /\ UNCHANGED <<held, recoveries, pc, recoverer>>
  BY DEF Crash, lockVars, writerVars
<1>2. Shape'  BY <1>1 DEF GuardInv, Shape
<1>3. LiveWritersHoldGuard'  BY <1>1 DEF GuardInv, LiveWritersHoldGuard
<1>4. RecoverersDecideRightly'
  BY <1>1 DEF GuardInv, RecoverersDecideRightly, Decided
<1> QED  BY <1>2, <1>3, <1>4 DEF GuardInv

LEMMA InitGuard == Init => GuardInv /\ fence \in Fences
<1> SUFFICES ASSUME Init  PROVE GuardInv /\ fence \in Fences
  OBVIOUS
<1>1. IdleRecoverer \in RecovererState /\ IdleRecoverer.phase = "idle"
  BY DEF IdleRecoverer, RecovererState, RecovererPhases, Fences
<1>2. Shape  BY <1>1 DEF Init, Shape, Phases
<1>3. LiveWritersHoldGuard
  BY DEF Init, LiveWritersHoldGuard, Critical
<1>4. RecoverersDecideRightly
  BY <1>1 DEF Init, RecoverersDecideRightly, Decided
<1> QED  BY <1>2, <1>3, <1>4 DEF Init, GuardInv, Fences

\* The fence is always one of the fence objects.
LEMMA FenceType ==
  ASSUME Shape, fence \in Fences, [Next]_vars
  PROVE  fence' \in Fences
<1>1. CASE \E w \in Writers : ReplaceFence(w)
  BY <1>1 DEF ReplaceFence, Fences
<1>2. CASE \E r \in Recoverers : RevokeFence(r)
  <2>1. PICK r \in Recoverers : RevokeFence(r)  BY <1>2
  <2>2. recoverer[r].token \in Writers
    BY <2>1 DEF Shape, RevokeFence
  <2> QED  BY <2>1, <2>2 DEF RevokeFence, Fences
<1>3. CASE ~(\E w \in Writers : ReplaceFence(w))
             /\ ~(\E r \in Recoverers : RevokeFence(r))
  <2>1. UNCHANGED fence
    BY <1>3 DEF Next, WriterStep, RecovererStep, Crash, Start, PrepareFence,
       Acquire, Check, WriteTicket, ImportTickets, Activate, Release, Unlink,
       BeginRecovery, InspectOwner, JudgeOwner, RecordReceipt, ConfirmOwner,
       ReadFence, MoveGuard, vars
  <2> QED  BY <2>1
<1> QED  BY <1>1, <1>2, <1>3

LEMMA NextGuard ==
  GuardInv /\ fence \in Fences /\ [Next]_vars => GuardInv' /\ fence' \in Fences
<1> SUFFICES ASSUME GuardInv, fence \in Fences, [Next]_vars
             PROVE  GuardInv' /\ fence' \in Fences
  OBVIOUS
<1>1. fence' \in Fences  BY FenceType DEF GuardInv
<1>2. CASE Crash  BY <1>1, <1>2, CrashKeepsGuard
<1>3. CASE \E w \in Writers : WriterStep(w)
  BY <1>1, <1>3, WritersKeepGuard
<1>4. CASE \E r \in Recoverers : RecovererStep(r)
  BY <1>1, <1>4, RecoverersKeepGuard
<1>5. CASE \E r \in Recoverers, w \in Writers : BeginRecovery(r, w)
  BY <1>1, <1>5, RecoverersKeepGuard
<1>6. CASE UNCHANGED vars
  BY <1>6 DEF vars, GuardInv, Shape, LiveWritersHoldGuard,
              RecoverersDecideRightly, Decided
<1> QED  BY <1>2, <1>3, <1>4, <1>5, <1>6 DEF Next

\* At no time do two living processes run under the guard, whoever crashes and
\* however late a recoverer finishes what it began.
THEOREM GuardExcludes == Spec => []LiveWritersHoldGuard
<1> DEFINE Inv == GuardInv /\ fence \in Fences
<1>1. Inv => LiveWritersHoldGuard  BY DEF GuardInv
<1>2. Init => Inv  BY InitGuard
<1>3. Inv /\ [Next]_vars => Inv'  BY NextGuard
<1> QED  BY <1>1, <1>2, <1>3, PTL DEF Spec

-----------------------------------------------------------------------------
(***************************************************************************)
(* One queue of record.  Git processes outlive their parents, so excluding  *)
(* living writers is not enough: a transaction may run when its guard has   *)
(* long been given to another.  What stops it is the order of the fences.   *)
(* Recovery revokes a fence before it frees the guard, and no fence comes   *)
(* back once it was replaced: the active one of a token is written by a     *)
(* step its writer takes once, and whoever read a token's fence before it   *)
(* took the guard took it after that token had lost it.                     *)
(***************************************************************************)

\* A fence that is there, or that some writer has read.
Known(f) == f = fence \/ \E w \in Writers : previous[w] = f

FencesAreDated ==
  \A w \in Writers :
    /\ Known(Active(w)) => pc[w] \in (Critical \ {"fence"}) \cup {"done"}
    /\ Known(Revoked(w)) => w \notin alive /\ pc[w] \in Critical
    /\ previous[w] \notin {Active(w), Revoked(w)}

\* Living or dead, a process past the guard holds it or has lost it.
GuardIsAccounted ==
  \A w \in Writers :
    /\ held = w => pc[w] \in Critical /\ recoveries[w] # "moved"
    /\ recoveries[w] = "moved" => w \notin alive /\ pc[w] \in Critical
    /\ pc[w] \in Critical => held = w \/ recoveries[w] = "moved"

\* Nobody who got past the guard had read a fence of its present holder.
HoldersCameLater ==
  \A v, w \in Writers :
    held = v /\ previous[w] \in {Active(v), Revoked(v)} => pc[w] \notin Critical

RevokersKnow ==
  \A r \in Recoverers :
    LET w == recoverer[r].token IN
    /\ recoverer[r].phase \in {"fence", "revoke"} => w \in Fenced
    /\ recoverer[r].phase = "revoke"
         => recoverer[r].seen \in {Active(w), previous[w]}
    /\ (recoverer[r].phase = "move" /\ w \in Fenced /\ recoveries[w] # "moved")
         => fence = Revoked(w)

\* The fence of a guard that was recovered is neither active nor unwritten.
RevokedBeforeFreed ==
  \A w \in Fenced :
    recoveries[w] = "moved" => fence \notin {Active(w), previous[w]}

RolesFit ==
  \A w \in Writers :
    /\ pc[w] \in {"fencing", "fence", "transaction"} => w \in Fenced
    /\ pc[w] = "import" => Role[w] = "migrate"

\* What a writer that still holds the guard has found out is still so.
ChecksHold ==
  \A w \in Writers : recoveries[w] # "moved" =>
    /\ pc[w] = "write" => queue = NoQueue
    /\ (pc[w] = "transaction" /\ Role[w] = "migrate") => imported[w] = tickets

\* The parts of TypeOK this argument needs besides.
FenceShape ==
  /\ fence \in Fences
  /\ previous \in [Writers -> Fences]
  /\ imported \in [Writers -> Nat]
  /\ tickets \in Nat

OrderInv ==
  /\ FencesAreDated
  /\ GuardIsAccounted
  /\ HoldersCameLater
  /\ RevokersKnow
  /\ RevokedBeforeFreed
  /\ RolesFit

QueueInv == GuardInv /\ FenceShape /\ OrderInv /\ ChecksHold

\* The fence objects of the tokens all differ.
LEMMA FencesDiffer ==
  \A u, w \in Writers :
    /\ Active(u) # Revoked(w) /\ Active(u) # NoFence /\ Revoked(u) # NoFence
    /\ Active(u) = Active(w) => u = w
    /\ Revoked(u) = Revoked(w) => u = w
BY DEF Active, Revoked, NoFence

\* Who is known by an active or a revoked fence.
LEMMA KnownFences ==
  ASSUME FenceShape, FencesAreDated, NEW v \in Writers, NEW w \in Writers
  PROVE  /\ previous[v] = Active(w) =>
              pc[w] \in (Critical \ {"fence"}) \cup {"done"}
         /\ previous[v] = Revoked(w) => w \notin alive /\ pc[w] \in Critical
         /\ fence = Active(w) =>
              pc[w] \in (Critical \ {"fence"}) \cup {"done"}
         /\ fence = Revoked(w) => w \notin alive /\ pc[w] \in Critical
BY DEF FencesAreDated, Known

-----------------------------------------------------------------------------
(* Writers. *)

\* A writer goes on; neither the guard nor a fence is touched.
LEMMA GotoKeepsOrder ==
  ASSUME GuardInv, FenceShape, OrderInv, NEW w \in Writers,
         NEW phase \in Phases, Goto(w, phase),
         UNCHANGED <<held, recoveries, fence, alive, previous, recoverer>>,
         pc[w] \in (Critical \ {"fence"}) \cup {"done"} =>
           phase \in (Critical \ {"fence"}) \cup {"done"},
         phase \in Critical => pc[w] \in Critical,
         pc[w] \in Critical => phase \in Critical \/ (held # w /\ w \in alive),
         phase \in {"fencing", "fence", "transaction"} => w \in Fenced,
         phase = "import" => Role[w] = "migrate"
  PROVE  OrderInv'
<1>1. \A u \in Writers : pc'[u] = IF u = w THEN phase ELSE pc[u]
  BY DEF Goto, GuardInv, Shape
<1>2. FencesAreDated'
  BY <1>1 DEF OrderInv, FencesAreDated, Known
<1>3. GuardIsAccounted'
  BY <1>1 DEF OrderInv, GuardIsAccounted
<1>4. HoldersCameLater'
  BY <1>1 DEF OrderInv, HoldersCameLater
<1>5. RevokersKnow'
  BY DEF OrderInv, RevokersKnow
<1>6. RevokedBeforeFreed'
  BY DEF OrderInv, RevokedBeforeFreed
<1>7. RolesFit'
  BY <1>1 DEF OrderInv, RolesFit
<1> QED  BY <1>2, <1>3, <1>4, <1>5, <1>6, <1>7 DEF OrderInv

LEMMA PrepareFenceKeepsOrder ==
  ASSUME GuardInv, FenceShape, OrderInv, NEW w \in Writers, PrepareFence(w)
  PROVE  OrderInv'
<1>0. /\ w \in alive /\ pc[w] = "fencing"
      /\ UNCHANGED <<held, recoveries, fence, alive, recoverer>>
  BY DEF PrepareFence, At, lockVars
<1>1. \A u \in Writers : /\ pc'[u] = IF u = w THEN "acquire" ELSE pc[u]
                         /\ previous'[u] = IF u = w THEN fence ELSE previous[u]
  BY DEF PrepareFence, Goto, GuardInv, Shape, FenceShape
<1>2. pc[w] \notin Critical \cup {"done"} /\ "acquire" \notin Critical
  BY <1>0 DEF Critical
<1>3. FencesAreDated'
  <2> SUFFICES ASSUME NEW u \in Writers
               PROVE  (/\ Known(Active(u)) =>
                            pc[u] \in (Critical \ {"fence"}) \cup {"done"}
                       /\ Known(Revoked(u)) => u \notin alive /\ pc[u] \in Critical
                       /\ previous[u] \notin {Active(u), Revoked(u)})'
    BY DEF FencesAreDated
  <2>1. /\ Known(Active(u)) => pc[u] \in (Critical \ {"fence"}) \cup {"done"}
        /\ Known(Revoked(u)) => u \notin alive /\ pc[u] \in Critical
        /\ previous[u] \notin {Active(u), Revoked(u)}
    BY DEF OrderInv, FencesAreDated
  <2>2. Known(Active(u))' => Known(Active(u))
    BY <1>0, <1>1 DEF Known
  <2>3. Known(Revoked(u))' => Known(Revoked(u))
    BY <1>0, <1>1 DEF Known
  <2>4. previous'[u] \notin {Active(u), Revoked(u)}
    BY <1>0, <1>1, <1>2, <2>1 DEF Known
  <2> QED  BY <1>0, <1>1, <1>2, <2>1, <2>2, <2>3, <2>4
<1>4. GuardIsAccounted'
  BY <1>0, <1>1, <1>2 DEF OrderInv, GuardIsAccounted
<1>5. HoldersCameLater'
  BY <1>0, <1>1, <1>2 DEF OrderInv, HoldersCameLater
<1>6. RevokersKnow'
  BY <1>0, <1>1 DEF OrderInv, RevokersKnow, GuardInv,
     RecoverersDecideRightly, Decided
<1>7. RevokedBeforeFreed'
  BY <1>0, <1>1, <1>2
     DEF OrderInv, RevokedBeforeFreed, GuardIsAccounted, Fenced
<1>8. RolesFit'
  BY <1>1 DEF OrderInv, RolesFit
<1> QED  BY <1>3, <1>4, <1>5, <1>6, <1>7, <1>8 DEF OrderInv

LEMMA AcquireKeepsOrder ==
  ASSUME GuardInv, FenceShape, OrderInv, NEW w \in Writers, Acquire(w)
  PROVE  OrderInv'
<1>0. pc[w] = "acquire" /\ UNCHANGED <<recoveries, fence, alive, previous,
                                       recoverer>>
  BY DEF Acquire, At
<1>1. CASE held # NoWriter
  <2>1. held' = held /\ Goto(w, "done")  BY <1>1 DEF Acquire
  <2> QED
    BY <1>0, <2>1, GotoKeepsOrder DEF Phases, Critical
<1>2. CASE held = NoWriter
  <2> DEFINE phase == IF w \in Fenced THEN "fence" ELSE "check"
  <2>1. /\ held' = w
        /\ \A u \in Writers : pc'[u] = IF u = w THEN phase ELSE pc[u]
    BY <1>2 DEF Acquire, Goto, GuardInv, Shape
  <2>2. /\ phase \in Critical /\ phase \in {"fence", "check"}
        /\ phase = "fence" => w \in Fenced
        /\ pc[w] \notin Critical \cup {"done"}
    BY <1>0 DEF Critical
  <2>3. \A u \in Writers : /\ previous[u] \notin {Active(w), Revoked(w)}
                           /\ fence \notin {Active(w), Revoked(w)}
    BY <2>2, KnownFences DEF OrderInv
  <2> HIDE DEF phase
  <2>4. FencesAreDated'
    BY <1>0, <2>1, <2>2, <2>3 DEF OrderInv, FencesAreDated, Known
  <2>5. \A u \in Writers : held # u
    BY <1>2, ConstantsAssumption
  <2>6. recoveries[w] # "moved"
    BY <2>2 DEF OrderInv, GuardIsAccounted
  <2>7. GuardIsAccounted'
    BY <1>0, <2>1, <2>2, <2>5, <2>6 DEF OrderInv, GuardIsAccounted
  <2>8. HoldersCameLater'
    BY <1>0, <2>1, <2>3 DEF HoldersCameLater
  <2>9. RevokersKnow'
    BY <1>0 DEF OrderInv, RevokersKnow
  <2>10. RevokedBeforeFreed'
    BY <1>0 DEF OrderInv, RevokedBeforeFreed
  <2>11. RolesFit'
    BY <2>1, <2>2 DEF OrderInv, RolesFit
  <2> QED
    BY <2>4, <2>7, <2>8, <2>9, <2>10, <2>11 DEF OrderInv
<1> QED  BY <1>1, <1>2

\* Only the token in the guard can still write a fence.
LEMMA ReplacerHolds ==
  ASSUME GuardInv, FenceShape, OrderInv, NEW w \in Writers,
         pc[w] = "fence", fence = previous[w]
  PROVE  held = w /\ w \in Fenced /\ recoveries[w] # "moved"
<1>1. w \in Fenced /\ pc[w] \in Critical
  BY DEF OrderInv, RolesFit, Critical
<1>2. recoveries[w] # "moved"
  BY <1>1 DEF OrderInv, RevokedBeforeFreed
<1> QED  BY <1>1, <1>2 DEF OrderInv, GuardIsAccounted

LEMMA ReplaceFenceKeepsOrder ==
  ASSUME GuardInv, FenceShape, OrderInv, NEW w \in Writers, ReplaceFence(w)
  PROVE  OrderInv'
<1>0. /\ pc[w] = "fence"
      /\ UNCHANGED <<held, recoveries, alive, previous, recoverer>>
  BY DEF ReplaceFence, lockVars
<1>1. CASE fence # previous[w]
  <2>1. fence' = fence /\ Goto(w, "release")  BY <1>1 DEF ReplaceFence
  <2> QED  BY <1>0, <2>1, GotoKeepsOrder DEF Phases, Critical
<1>2. CASE fence = previous[w]
  <2>1. /\ fence' = Active(w)
        /\ \A u \in Writers : pc'[u] = IF u = w THEN "check" ELSE pc[u]
    BY <1>2 DEF ReplaceFence, Goto, GuardInv, Shape
  <2>2. held = w /\ w \in Fenced /\ recoveries[w] # "moved"
    BY <1>0, <1>2, ReplacerHolds
  <2>3. /\ "check" \in Critical /\ pc[w] \in Critical
        /\ pc[w] \notin (Critical \ {"fence"}) \cup {"done"}
    BY <1>0 DEF Critical
  <2>4. FencesAreDated'
    <3> SUFFICES ASSUME NEW u \in Writers
                 PROVE  (/\ Known(Active(u)) =>
                              pc[u] \in (Critical \ {"fence"}) \cup {"done"}
                         /\ Known(Revoked(u)) =>
                              u \notin alive /\ pc[u] \in Critical
                         /\ previous[u] \notin {Active(u), Revoked(u)})'
      BY DEF FencesAreDated
    <3>1. /\ Known(Active(u)) => pc[u] \in (Critical \ {"fence"}) \cup {"done"}
          /\ Known(Revoked(u)) => u \notin alive /\ pc[u] \in Critical
          /\ previous[u] \notin {Active(u), Revoked(u)}
      BY DEF OrderInv, FencesAreDated
    <3>2. Known(Active(u))' => u = w \/ Known(Active(u))
      BY <1>0, <2>1, FencesDiffer DEF Known
    <3>3. Known(Revoked(u))' => Known(Revoked(u))
      BY <1>0, <2>1, FencesDiffer DEF Known
    <3> QED  BY <1>0, <2>1, <2>3, <3>1, <3>2, <3>3
  <2>5. GuardIsAccounted'
    BY <1>0, <2>1, <2>2, <2>3 DEF OrderInv, GuardIsAccounted
  <2>6. HoldersCameLater'
    BY <1>0, <2>1, <2>3 DEF OrderInv, HoldersCameLater
  <2>7. RevokersKnow'
    <3> SUFFICES ASSUME NEW r \in Recoverers, recoverer[r].phase = "move",
                        recoverer[r].token \in Fenced,
                        recoveries[recoverer[r].token] # "moved"
                 PROVE  FALSE
      BY <1>0 DEF OrderInv, RevokersKnow
    <3>1. recoverer[r].token = w
      BY <2>2 DEF GuardInv, RecoverersDecideRightly, Decided
    <3>2. fence = Revoked(w)
      BY <3>1, <2>2 DEF OrderInv, RevokersKnow
    <3> QED  BY <1>2, <3>2 DEF OrderInv, FencesAreDated
  <2>8. RevokedBeforeFreed'
    <3> SUFFICES ASSUME NEW u \in Fenced, recoveries[u] = "moved"
                 PROVE  Active(w) \notin {Active(u), previous[u]}
      BY <1>0, <2>1 DEF RevokedBeforeFreed
    <3>1. u \in Writers /\ u # w  BY <2>2 DEF Fenced
    <3>2. previous[u] # Active(w)
      BY <2>3, <3>1, KnownFences DEF OrderInv
    <3> QED  BY <3>1, <3>2, FencesDiffer
  <2>9. RolesFit'
    BY <2>1 DEF OrderInv, RolesFit
  <2> QED  BY <2>4, <2>5, <2>6, <2>7, <2>8, <2>9 DEF OrderInv
<1> QED  BY <1>1, <1>2

LEMMA UnlinkKeepsOrder ==
  ASSUME GuardInv, FenceShape, OrderInv, NEW w \in Writers, Unlink(w)
  PROVE  OrderInv'
<1>0. /\ w \in alive /\ pc[w] = "unlink" /\ held' = NoWriter
      /\ UNCHANGED <<recoveries, fence, alive, previous, recoverer>>
      /\ \A u \in Writers : pc'[u] = IF u = w THEN "done" ELSE pc[u]
  BY DEF Unlink, At, Goto, GuardInv, Shape
<1>1. held = w /\ "done" \notin Critical
  BY <1>0 DEF GuardInv, LiveWritersHoldGuard, Critical
<1>2. FencesAreDated'
  BY <1>0 DEF OrderInv, FencesAreDated, Known
<1>3. GuardIsAccounted'
  BY <1>0, <1>1, ConstantsAssumption DEF OrderInv, GuardIsAccounted
<1>4. HoldersCameLater'
  BY <1>0, ConstantsAssumption DEF HoldersCameLater
<1>5. RevokersKnow'
  BY <1>0 DEF OrderInv, RevokersKnow
<1>6. RevokedBeforeFreed'
  BY <1>0 DEF OrderInv, RevokedBeforeFreed
<1>7. RolesFit'
  BY <1>0 DEF OrderInv, RolesFit
<1> QED  BY <1>2, <1>3, <1>4, <1>5, <1>6, <1>7 DEF OrderInv

LEMMA WritersKeepOrder ==
  ASSUME GuardInv, FenceShape, OrderInv, NEW w \in Writers, WriterStep(w)
  PROVE  OrderInv'
<1>1. CASE Start(w)
  <2>1. /\ pc[w] = "start"
        /\ \E phase \in {"fencing", "acquire"} :
             Goto(w, phase) /\ (phase = "fencing" => w \in Fenced)
        /\ UNCHANGED <<held, recoveries, fence, alive, previous, recoverer>>
    BY <1>1 DEF Start, At, lockVars
  <2> QED  BY <2>1, GotoKeepsOrder DEF Phases, Critical
<1>2. CASE PrepareFence(w)  BY <1>2, PrepareFenceKeepsOrder
<1>3. CASE Acquire(w)  BY <1>3, AcquireKeepsOrder
<1>4. CASE ReplaceFence(w)  BY <1>4, ReplaceFenceKeepsOrder
<1>5. CASE Check(w)
  <2>1. /\ pc[w] = "check"
        /\ UNCHANGED <<held, recoveries, fence, alive, previous, recoverer>>
    BY <1>5 DEF Check, At, lockVars
  <2>2. \/ Goto(w, "write") \/ Goto(w, "release")
        \/ Goto(w, "import") /\ Role[w] = "migrate"
        \/ Goto(w, "transaction") /\ Role[w] = "restore"
    BY <1>5, ConstantsAssumption DEF Check
  <2>3. Role[w] = "restore" => w \in Fenced  BY DEF Fenced
  <2> QED  BY <2>1, <2>2, <2>3, GotoKeepsOrder DEF Phases, Critical
<1>6. CASE WriteTicket(w)
  <2>1. /\ pc[w] = "write" /\ Goto(w, "release")
        /\ UNCHANGED <<held, recoveries, fence, alive, previous, recoverer>>
    BY <1>6 DEF WriteTicket, At, lockVars
  <2> QED  BY <2>1, GotoKeepsOrder DEF Phases, Critical
<1>7. CASE ImportTickets(w)
  <2>1. /\ pc[w] = "import"
        /\ Goto(w, "transaction") \/ Goto(w, "release")
        /\ UNCHANGED <<held, recoveries, fence, alive, previous, recoverer>>
    BY <1>7 DEF ImportTickets, At, lockVars
  <2>2. w \in Fenced  BY <2>1 DEF OrderInv, RolesFit, Fenced
  <2> QED  BY <2>1, <2>2, GotoKeepsOrder DEF Phases, Critical
<1>8. CASE Activate(w)
  <2>1. /\ pc[w] = "transaction" /\ Goto(w, "release")
        /\ UNCHANGED <<held, recoveries, fence, alive, previous, recoverer>>
    BY <1>8 DEF Activate, lockVars
  <2> QED  BY <2>1, GotoKeepsOrder DEF Phases, Critical
<1>9. CASE Release(w)
  <2>1. /\ pc[w] = "release" /\ w \in alive
        /\ Goto(w, "unlink") \/ (Goto(w, "done") /\ held # w)
        /\ UNCHANGED <<held, recoveries, fence, alive, previous, recoverer>>
    BY <1>9 DEF Release, At, lockVars
  <2> QED  BY <2>1, GotoKeepsOrder DEF Phases, Critical
<1>10. CASE Unlink(w)  BY <1>10, UnlinkKeepsOrder
<1> QED
  BY <1>1, <1>2, <1>3, <1>4, <1>5, <1>6, <1>7, <1>8, <1>9, <1>10
     DEF WriterStep

-----------------------------------------------------------------------------
(* Recoverers. *)

\* A recoverer's step that touches neither guard, fence nor writer.
LEMMA BecomeKeepsOrder ==
  ASSUME GuardInv, FenceShape, OrderInv, NEW r \in Recoverers, NEW state,
         Become(r, state),
         UNCHANGED <<held, fence, pc, alive, previous>>,
         \A w \in Writers : recoveries'[w] = "moved" <=> recoveries[w] = "moved",
         state.phase \in {"fence", "revoke"} => state.token \in Fenced,
         state.phase = "revoke" =>
           state.seen \in {Active(state.token), previous[state.token]},
         (/\ state.phase = "move" /\ state.token \in Fenced
          /\ recoveries[state.token] # "moved")
           => fence = Revoked(state.token)
  PROVE  OrderInv'
<1>1. \A q \in Recoverers : recoverer'[q] = IF q = r THEN state ELSE recoverer[q]
  BY DEF Become, GuardInv, Shape
<1>2. FencesAreDated'  BY DEF OrderInv, FencesAreDated, Known
<1>3. GuardIsAccounted'  BY DEF OrderInv, GuardIsAccounted
<1>4. HoldersCameLater'  BY DEF OrderInv, HoldersCameLater
<1>f. \A w \in Fenced : w \in Writers  BY DEF Fenced
<1>5. RevokersKnow'  BY <1>1, <1>f DEF OrderInv, RevokersKnow
<1>6. RevokedBeforeFreed'  BY <1>f DEF OrderInv, RevokedBeforeFreed
<1>7. RolesFit'  BY DEF OrderInv, RolesFit
<1> QED  BY <1>2, <1>3, <1>4, <1>5, <1>6, <1>7 DEF OrderInv

\* A recoverer that finds the fence it looked for acts for the present holder.
LEMMA RevokerHolds ==
  ASSUME GuardInv, FenceShape, OrderInv, NEW r \in Recoverers,
         recoverer[r].phase = "revoke", fence = recoverer[r].seen
  PROVE  LET w == recoverer[r].token IN
         /\ held = w
         /\ w \in Fenced
         /\ w \in Writers \ alive
         /\ pc[w] \in Critical
         /\ recoveries[w] # "moved"
         /\ fence \in {Active(w), previous[w]}
<1> DEFINE w == recoverer[r].token
<1>1. w \in Fenced /\ fence \in {Active(w), previous[w]}
  BY DEF OrderInv, RevokersKnow
<1>2. recoveries[w] # "moved"  BY <1>1 DEF OrderInv, RevokedBeforeFreed
<1>3. w \in Writers \ alive /\ held = w
  BY <1>2 DEF GuardInv, RecoverersDecideRightly, Decided
<1>4. pc[w] \in Critical  BY <1>3 DEF OrderInv, GuardIsAccounted
<1> QED  BY <1>1, <1>2, <1>3, <1>4

LEMMA RevokeFenceKeepsOrder ==
  ASSUME GuardInv, FenceShape, OrderInv, NEW r \in Recoverers, RevokeFence(r),
         fence = recoverer[r].seen
  PROVE  OrderInv'
<1> DEFINE w == recoverer[r].token
           state == [recoverer[r] EXCEPT !.phase = "move"]
<1>0. /\ recoverer[r].phase = "revoke" /\ fence' = Revoked(w)
      /\ UNCHANGED <<held, recoveries, pc, alive, previous>>
      /\ \A q \in Recoverers :
           recoverer'[q] = IF q = r THEN state ELSE recoverer[q]
  BY DEF RevokeFence, Become, lockVars, writerVars, GuardInv, Shape
<1>1. /\ held = w /\ w \in Fenced /\ w \in Writers \ alive
      /\ pc[w] \in Critical /\ recoveries[w] # "moved"
      /\ fence \in {Active(w), previous[w]}
  BY <1>0, RevokerHolds
<1>2. state.phase = "move" /\ state.token = w
  <2>1. recoverer[r] \in RecovererState  BY DEF GuardInv, Shape
  <2> QED  BY <2>1 DEF RecovererState
<1> HIDE DEF state, w
<1>3. FencesAreDated'
  <2> SUFFICES ASSUME NEW u \in Writers
               PROVE  (/\ Known(Active(u)) =>
                            pc[u] \in (Critical \ {"fence"}) \cup {"done"}
                       /\ Known(Revoked(u)) =>
                            u \notin alive /\ pc[u] \in Critical
                       /\ previous[u] \notin {Active(u), Revoked(u)})'
    BY DEF FencesAreDated
  <2>1. /\ Known(Active(u)) => pc[u] \in (Critical \ {"fence"}) \cup {"done"}
        /\ Known(Revoked(u)) => u \notin alive /\ pc[u] \in Critical
        /\ previous[u] \notin {Active(u), Revoked(u)}
    BY DEF OrderInv, FencesAreDated
  <2>2. Known(Active(u))' => Known(Active(u))
    BY <1>0, <1>1, FencesDiffer DEF Known
  <2>3. Known(Revoked(u))' => u = w \/ Known(Revoked(u))
    BY <1>0, <1>1, FencesDiffer DEF Known
  <2> QED  BY <1>0, <1>1, <2>1, <2>2, <2>3
<1>4. GuardIsAccounted'  BY <1>0 DEF OrderInv, GuardIsAccounted
<1>5. HoldersCameLater'  BY <1>0 DEF OrderInv, HoldersCameLater
<1>6. RevokersKnow'
  <2> SUFFICES ASSUME NEW q \in Recoverers, recoverer'[q].phase = "move",
                      recoverer'[q].token \in Fenced,
                      recoveries[recoverer'[q].token] # "moved"
               PROVE  fence' = Revoked(recoverer'[q].token)
    BY <1>0, <1>2 DEF OrderInv, RevokersKnow
  <2>1. CASE q = r  BY <1>0, <1>2, <2>1
  <2>2. CASE q # r
    <3>1. recoverer'[q] = recoverer[q]  BY <1>0, <2>2
    <3>2. held = recoverer[q].token
      BY <3>1 DEF GuardInv, RecoverersDecideRightly, Decided
    <3> QED  BY <1>0, <1>1, <3>1, <3>2
  <2> QED  BY <2>1, <2>2
<1>7. RevokedBeforeFreed'
  <2> SUFFICES ASSUME NEW u \in Fenced, recoveries[u] = "moved"
               PROVE  Revoked(w) \notin {Active(u), previous[u]}
    BY <1>0 DEF RevokedBeforeFreed
  <2>1. u \in Writers /\ pc[u] \in Critical
    BY DEF Fenced, OrderInv, GuardIsAccounted
  <2>2. previous[u] # Revoked(w)
    BY <1>1, <2>1 DEF OrderInv, HoldersCameLater
  <2> QED  BY <1>1, <2>1, <2>2, FencesDiffer
<1>8. RolesFit'  BY <1>0 DEF OrderInv, RolesFit
<1> QED  BY <1>3, <1>4, <1>5, <1>6, <1>7, <1>8 DEF OrderInv

LEMMA MoveGuardKeepsOrder ==
  ASSUME GuardInv, FenceShape, OrderInv, NEW r \in Recoverers, MoveGuard(r)
  PROVE  OrderInv'
<1> DEFINE w == recoverer[r].token
<1>0. /\ recoverer[r].phase = "move" /\ Become(r, IdleRecoverer)
      /\ UNCHANGED <<fence, pc, alive, previous>>
  BY DEF MoveGuard, Recovering, writerVars
<1>i. IdleRecoverer.phase = "idle"  BY DEF IdleRecoverer
<1>1. CASE UNCHANGED <<held, recoveries>>
  BY <1>0, <1>1, <1>i, BecomeKeepsOrder
<1>2. CASE ~UNCHANGED <<held, recoveries>>
  <2>1. /\ held' = NoWriter /\ recoveries[w] # "moved"
        /\ recoveries' = [recoveries EXCEPT ![w] = "moved"]
    BY <1>2 DEF MoveGuard, lockVars
  <2>2. w \in Writers \ alive /\ held = w
    BY <1>0, <2>1 DEF GuardInv, RecoverersDecideRightly, Decided
  <2>3. \A u \in Writers :
          recoveries'[u] = IF u = w THEN "moved" ELSE recoveries[u]
    BY <2>1, <2>2 DEF GuardInv, Shape
  <2>4. \A q \in Recoverers :
          recoverer'[q] = IF q = r THEN IdleRecoverer ELSE recoverer[q]
    BY <1>0 DEF Become, GuardInv, Shape
  <2>5. w \in Fenced => fence = Revoked(w)
    BY <1>0, <2>1 DEF OrderInv, RevokersKnow
  <2> HIDE DEF w
  <2>6. FencesAreDated'  BY <1>0 DEF OrderInv, FencesAreDated, Known
  <2>7. GuardIsAccounted'
    BY <1>0, <2>1, <2>2, <2>3, ConstantsAssumption
       DEF OrderInv, GuardIsAccounted
  <2>8. HoldersCameLater'
    BY <2>1, ConstantsAssumption DEF HoldersCameLater
  <2>9. RevokersKnow'
    <3> SUFFICES ASSUME NEW q \in Recoverers, q # r
                 PROVE  LET u == recoverer[q].token IN
                        /\ recoverer[q].phase \in {"fence", "revoke"}
                             => u \in Fenced
                        /\ recoverer[q].phase = "revoke"
                             => recoverer[q].seen \in {Active(u), previous[u]}
                        /\ (/\ recoverer[q].phase = "move" /\ u \in Fenced
                            /\ recoveries'[u] # "moved") => fence = Revoked(u)
      BY <1>0, <1>i, <2>4 DEF RevokersKnow
    <3>1. \A u \in Fenced : recoveries'[u] # "moved" => recoveries[u] # "moved"
      BY <2>3 DEF Fenced
    <3> QED  BY <3>1 DEF OrderInv, RevokersKnow
  <2>10. RevokedBeforeFreed'
    <3> SUFFICES ASSUME NEW u \in Fenced, recoveries'[u] = "moved"
                 PROVE  fence \notin {Active(u), previous[u]}
      BY <1>0 DEF RevokedBeforeFreed
    <3>1. u \in Writers  BY DEF Fenced
    <3>2. CASE u = w
      BY <2>5, <3>1, <3>2, FencesDiffer DEF OrderInv, FencesAreDated
    <3>3. CASE u # w
      BY <2>3, <3>1, <3>3 DEF OrderInv, RevokedBeforeFreed
    <3> QED  BY <3>2, <3>3
  <2>11. RolesFit'  BY <1>0 DEF OrderInv, RolesFit
  <2> QED  BY <2>6, <2>7, <2>8, <2>9, <2>10, <2>11 DEF OrderInv
<1> QED  BY <1>1, <1>2

LEMMA RecoverersKeepOrder ==
  ASSUME GuardInv, FenceShape, OrderInv, NEW r \in Recoverers,
         RecovererStep(r) \/ \E w \in Writers : BeginRecovery(r, w)
  PROVE  OrderInv'
<1> DEFINE t == recoverer[r].token
           at(phase) == [recoverer[r] EXCEPT !.phase = phase]
<1>i. IdleRecoverer.phase = "idle"  BY DEF IdleRecoverer
<1>s. recoverer[r] \in RecovererState  BY DEF GuardInv, Shape
<1>a. \A phase \in RecovererPhases :
        /\ at(phase).phase = phase /\ at(phase).token = t
        /\ at(phase).seen = recoverer[r].seen
  BY <1>s DEF RecovererState
<1>b. RecovererPhases = {"idle", "inspect", "judge", "record", "confirm",
                         "fence", "revoke", "move"}
  BY DEF RecovererPhases
<1>1. CASE \E w \in Writers : BeginRecovery(r, w)
  <2>1. PICK w \in Writers : BeginRecovery(r, w)  BY <1>1
  <2> DEFINE state == [IdleRecoverer EXCEPT !.phase = "inspect", !.token = w,
                                            !.receipt = recoveries[w] = "receipt"]
  <2>2. state.phase = "inspect"  BY DEF IdleRecoverer
  <2>3. Become(r, state)
          /\ UNCHANGED <<held, recoveries, fence, pc, alive, previous>>
    BY <2>1 DEF BeginRecovery, lockVars, writerVars
  <2> HIDE DEF state
  <2> QED  BY <2>2, <2>3, BecomeKeepsOrder
<1>2. CASE InspectOwner(r)
  <2>1. /\ Become(r, at("judge")) \/ Become(r, IdleRecoverer)
        /\ UNCHANGED <<held, recoveries, fence, pc, alive, previous>>
    BY <1>2 DEF InspectOwner, lockVars, writerVars
  <2> HIDE DEF at
  <2> QED  BY <1>i, <1>a, <1>b, <2>1, BecomeKeepsOrder
<1>3. CASE JudgeOwner(r)
  <2>1. /\ \/ Become(r, at("confirm")) \/ Become(r, at("record"))
           \/ Become(r, IdleRecoverer)
        /\ UNCHANGED <<held, recoveries, fence, pc, alive, previous>>
    BY <1>3 DEF JudgeOwner, lockVars, writerVars
  <2> HIDE DEF at
  <2> QED  BY <1>i, <1>a, <1>b, <2>1, BecomeKeepsOrder
<1>4. CASE RecordReceipt(r)
  <2>1. /\ Become(r, at("confirm"))
        /\ UNCHANGED <<held, fence, pc, alive, previous>>
        /\ recoveries' = [recoveries EXCEPT
                            ![t] = IF @ = "none" THEN "receipt" ELSE @]
    BY <1>4 DEF RecordReceipt, writerVars
  <2>2. \A w \in Writers :
          recoveries'[w] = "moved" <=> recoveries[w] = "moved"
    BY <2>1 DEF GuardInv, Shape
  <2> HIDE DEF at
  <2> QED  BY <1>a, <1>b, <2>1, <2>2, BecomeKeepsOrder
<1>5. CASE ConfirmOwner(r)
  <2>1. /\ \/ Become(r, at("fence")) /\ t \in Fenced
           \/ Become(r, at("move")) /\ t \notin Fenced
           \/ Become(r, IdleRecoverer)
        /\ UNCHANGED <<held, recoveries, fence, pc, alive, previous>>
    BY <1>5 DEF ConfirmOwner, lockVars, writerVars
  <2> HIDE DEF at
  <2> QED  BY <1>i, <1>a, <1>b, <2>1, BecomeKeepsOrder
<1>6. CASE ReadFence(r)
  <2> DEFINE state == [recoverer[r] EXCEPT !.phase = "revoke", !.seen = fence]
  <2>1. /\ \/ Become(r, at("move")) /\ fence = Revoked(t)
           \/ Become(r, state) /\ fence \in {Active(t), previous[t]}
           \/ Become(r, IdleRecoverer)
        /\ UNCHANGED <<held, recoveries, fence, pc, alive, previous>>
        /\ recoverer[r].phase = "fence"
    BY <1>6 DEF ReadFence, Recovering, lockVars, writerVars
  <2>2. t \in Fenced  BY <2>1 DEF OrderInv, RevokersKnow
  <2>3. state.phase = "revoke" /\ state.token = t /\ state.seen = fence
    BY <1>s DEF RecovererState
  <2> HIDE DEF at, state
  <2> QED  BY <1>i, <1>a, <1>b, <2>1, <2>2, <2>3, BecomeKeepsOrder
<1>7. CASE RevokeFence(r)
  <2>1. CASE fence = recoverer[r].seen
    BY <1>7, <2>1, RevokeFenceKeepsOrder
  <2>2. CASE fence # recoverer[r].seen
    <3> DEFINE state == [recoverer[r] EXCEPT !.phase = "fence", !.attempt = 1]
    <3>1. /\ Become(r, state) \/ Become(r, IdleRecoverer)
          /\ UNCHANGED <<held, recoveries, fence, pc, alive, previous>>
          /\ recoverer[r].phase = "revoke"
      BY <1>7, <2>2 DEF RevokeFence, lockVars, writerVars
    <3>2. t \in Fenced  BY <3>1 DEF OrderInv, RevokersKnow
    <3>3. state.phase = "fence" /\ state.token = t
      BY <1>s DEF RecovererState
    <3> HIDE DEF state
    <3> QED  BY <1>i, <3>1, <3>2, <3>3, BecomeKeepsOrder
  <2> QED  BY <2>1, <2>2
<1>8. CASE MoveGuard(r)  BY <1>8, MoveGuardKeepsOrder
<1> QED
  BY <1>1, <1>2, <1>3, <1>4, <1>5, <1>6, <1>7, <1>8 DEF RecovererStep

-----------------------------------------------------------------------------
(* Every step. *)

LEMMA NextOrder ==
  ASSUME GuardInv, FenceShape, OrderInv, [Next]_vars
  PROVE  OrderInv'
<1>1. CASE Crash
  <2>1. /\ alive' \subseteq alive
        /\ UNCHANGED <<held, recoveries, fence, pc, previous, recoverer>>
    BY <1>1 DEF Crash, lockVars, writerVars
  <2>2. FencesAreDated'  BY <2>1 DEF OrderInv, FencesAreDated, Known
  <2>3. GuardIsAccounted'  BY <2>1 DEF OrderInv, GuardIsAccounted
  <2>4. HoldersCameLater'  BY <2>1 DEF OrderInv, HoldersCameLater
  <2>5. RevokersKnow'  BY <2>1 DEF OrderInv, RevokersKnow
  <2>6. RevokedBeforeFreed'  BY <2>1 DEF OrderInv, RevokedBeforeFreed
  <2>7. RolesFit'  BY <2>1 DEF OrderInv, RolesFit
  <2> QED  BY <2>2, <2>3, <2>4, <2>5, <2>6, <2>7 DEF OrderInv
<1>2. CASE \E w \in Writers : WriterStep(w)  BY <1>2, WritersKeepOrder
<1>3. CASE \E r \in Recoverers : RecovererStep(r)
  BY <1>3, RecoverersKeepOrder
<1>4. CASE \E r \in Recoverers, w \in Writers : BeginRecovery(r, w)
  BY <1>4, RecoverersKeepOrder
<1>5. CASE UNCHANGED vars
  <2>1. UNCHANGED <<held, recoveries, fence, pc, alive, previous, recoverer>>
    BY <1>5 DEF vars
  <2> QED
    BY <2>1 DEF OrderInv, FencesAreDated, Known, GuardIsAccounted,
       HoldersCameLater, RevokersKnow, RevokedBeforeFreed, RolesFit
<1> QED  BY <1>1, <1>2, <1>3, <1>4, <1>5 DEF Next

LEMMA NextFenceShape ==
  ASSUME GuardInv, FenceShape, [Next]_vars
  PROVE  FenceShape'
<1>1. fence' \in Fences  BY FenceType DEF GuardInv, FenceShape
<1>2. previous' \in [Writers -> Fences]
  <2>1. CASE \E w \in Writers : PrepareFence(w)
    BY <2>1 DEF PrepareFence, FenceShape
  <2>2. CASE ~\E w \in Writers : PrepareFence(w)
    <3>1. UNCHANGED previous
      BY <2>2 DEF Next, WriterStep, RecovererStep, Crash, Start, Acquire,
         ReplaceFence, Check, WriteTicket, ImportTickets, Activate, Release,
         Unlink, BeginRecovery, InspectOwner, JudgeOwner, RecordReceipt,
         ConfirmOwner, ReadFence, RevokeFence, MoveGuard, vars, writerVars
    <3> QED  BY <3>1 DEF FenceShape
  <2> QED  BY <2>1, <2>2
<1>3. imported' \in [Writers -> Nat]
  <2>1. CASE \E w \in Writers : ImportTickets(w)
    BY <2>1 DEF ImportTickets, FenceShape
  <2>2. CASE ~\E w \in Writers : ImportTickets(w)
    <3>1. UNCHANGED imported
      BY <2>2 DEF Next, WriterStep, RecovererStep, Crash, Start, PrepareFence,
         Acquire, ReplaceFence, Check, WriteTicket, Activate, Release,
         Unlink, BeginRecovery, InspectOwner, JudgeOwner, RecordReceipt,
         ConfirmOwner, ReadFence, RevokeFence, MoveGuard, vars, writerVars
    <3> QED  BY <3>1 DEF FenceShape
  <2> QED  BY <2>1, <2>2
<1>4. tickets' \in Nat
  <2>1. CASE \E w \in Writers : WriteTicket(w)
    BY <2>1 DEF WriteTicket, FenceShape
  <2>2. CASE ~\E w \in Writers : WriteTicket(w)
    <3>1. UNCHANGED tickets
      BY <2>2 DEF Next, WriterStep, RecovererStep, Crash, Start, PrepareFence,
         Acquire, ReplaceFence, Check, ImportTickets, Activate, Release,
         Unlink, BeginRecovery, InspectOwner, JudgeOwner, RecordReceipt,
         ConfirmOwner, ReadFence, RevokeFence, MoveGuard, vars, dataVars
    <3> QED  BY <3>1 DEF FenceShape
  <2> QED  BY <2>1, <2>2
<1> QED  BY <1>1, <1>2, <1>3, <1>4 DEF FenceShape

-----------------------------------------------------------------------------
(* What was checked under the guard. *)

\* A writer that has not lost its guard is alone past it.
LEMMA AloneUnderGuard ==
  ASSUME OrderInv, NEW u \in Writers, NEW w \in Writers,
         pc[u] \in Critical, recoveries[u] # "moved",
         pc[w] \in Critical, recoveries[w] # "moved"
  PROVE  u = w
BY DEF OrderInv, GuardIsAccounted

\* Whoever verifies its fence has not lost its guard.
LEMMA ActivatorHolds ==
  ASSUME OrderInv, NEW w \in Writers, pc[w] = "transaction", fence = Active(w)
  PROVE  recoveries[w] # "moved"
BY DEF OrderInv, RolesFit, RevokedBeforeFreed

\* A writer goes on to a phase whose check it passed; no queue changes.
LEMMA GotoKeepsChecks ==
  ASSUME GuardInv, ChecksHold, NEW w \in Writers, NEW phase \in Phases,
         Goto(w, phase), UNCHANGED <<recoveries, tickets, queue, imported>>,
         phase = "write" => queue = NoQueue,
         ~(phase = "transaction" /\ Role[w] = "migrate")
  PROVE  ChecksHold'
<1>1. \A u \in Writers : pc'[u] = IF u = w THEN phase ELSE pc[u]
  BY DEF Goto, GuardInv, Shape
<1> QED  BY <1>1 DEF ChecksHold

LEMMA WritersKeepChecks ==
  ASSUME QueueInv, NEW w \in Writers, WriterStep(w)
  PROVE  ChecksHold'
<1>g. GuardInv /\ OrderInv /\ ChecksHold  BY DEF QueueInv
<1>1. CASE Start(w)
  BY <1>1, <1>g, GotoKeepsChecks DEF Start, Phases, lockVars, dataVars
<1>2. CASE PrepareFence(w)
  BY <1>2, <1>g, GotoKeepsChecks DEF PrepareFence, Phases, lockVars, dataVars
<1>3. CASE Acquire(w)
  BY <1>3, <1>g, GotoKeepsChecks DEF Acquire, Phases, dataVars
<1>4. CASE ReplaceFence(w)
  BY <1>4, <1>g, GotoKeepsChecks DEF ReplaceFence, Phases, lockVars, dataVars
<1>5. CASE Check(w)
  <2>1. \/ Goto(w, "write") /\ queue = NoQueue
        \/ Goto(w, "release") \/ Goto(w, "import")
        \/ Goto(w, "transaction") /\ Role[w] = "restore"
    BY <1>5, ConstantsAssumption DEF Check
  <2>2. UNCHANGED <<recoveries, tickets, queue, imported>>
    BY <1>5 DEF Check, lockVars, dataVars
  <2> QED  BY <1>g, <2>1, <2>2, GotoKeepsChecks DEF Phases
<1>6. CASE WriteTicket(w)
  <2>1. /\ w \in alive /\ pc[w] = "write" /\ pc[w] \in Critical
        /\ UNCHANGED <<recoveries, queue, imported>>
        /\ \A u \in Writers : pc'[u] = IF u = w THEN "release" ELSE pc[u]
    BY <1>6, <1>g DEF WriteTicket, At, Goto, lockVars, Critical, GuardInv, Shape
  <2>2. recoveries[w] # "moved"
    BY <1>g, <2>1 DEF OrderInv, GuardIsAccounted
  <2>3. \A u \in Writers \ {w} :
          pc[u] = "transaction" => recoveries[u] = "moved"
    BY <1>g, <2>1, <2>2, AloneUnderGuard DEF Critical
  <2> QED  BY <1>g, <2>1, <2>3 DEF ChecksHold
<1>7. CASE ImportTickets(w)
  <2>1. CASE Goto(w, "release") /\ UNCHANGED imported
    BY <1>7, <1>g, <2>1, GotoKeepsChecks
       DEF ImportTickets, Phases, lockVars, dataVars
  <2>2. CASE imported' = [imported EXCEPT ![w] = tickets]
               /\ Goto(w, "transaction")
    <3>1. /\ UNCHANGED <<recoveries, tickets, queue>>
          /\ \A u \in Writers :
               /\ pc'[u] = IF u = w THEN "transaction" ELSE pc[u]
               /\ imported'[u] = IF u = w THEN tickets ELSE imported[u]
      BY <1>7, <1>g, <2>2
         DEF ImportTickets, Goto, lockVars, dataVars, GuardInv, Shape,
             QueueInv, FenceShape
    <3> QED  BY <1>g, <3>1 DEF ChecksHold
  <2> QED  BY <1>7, <2>1, <2>2 DEF ImportTickets
<1>8. CASE Activate(w)
  <2>1. /\ pc[w] = "transaction" /\ pc[w] \in Critical
        /\ UNCHANGED <<recoveries, tickets, imported>>
        /\ \A u \in Writers : pc'[u] = IF u = w THEN "release" ELSE pc[u]
    BY <1>8, <1>g DEF Activate, Goto, lockVars, Critical, GuardInv, Shape
  <2>2. CASE queue' = queue  BY <1>g, <2>1, <2>2 DEF ChecksHold
  <2>3. CASE queue' # queue
    <3>1. fence = Active(w)  BY <1>8, <2>3 DEF Activate
    <3>2. recoveries[w] # "moved"
      BY <1>g, <2>1, <3>1, ActivatorHolds
    <3>3. \A u \in Writers \ {w} : pc[u] = "write" => recoveries[u] = "moved"
      BY <1>g, <2>1, <3>2, AloneUnderGuard DEF Critical
    <3> QED  BY <1>g, <2>1, <3>3 DEF ChecksHold
  <2> QED  BY <2>2, <2>3
<1>9. CASE Release(w)
  BY <1>9, <1>g, GotoKeepsChecks DEF Release, Phases, lockVars, dataVars
<1>10. CASE Unlink(w)
  BY <1>10, <1>g, GotoKeepsChecks DEF Unlink, Phases, dataVars
<1> QED
  BY <1>1, <1>2, <1>3, <1>4, <1>5, <1>6, <1>7, <1>8, <1>9, <1>10
     DEF WriterStep

\* Everybody else leaves the queues alone and only ever takes a guard away.
LEMMA OthersKeepChecks ==
  ASSUME QueueInv, [Next]_vars, ~\E w \in Writers : WriterStep(w)
  PROVE  ChecksHold' /\ UNCHANGED <<tickets, queue>>
<1>1. UNCHANGED <<pc, tickets, queue, imported>>
  BY DEF Next, RecovererStep, Crash, BeginRecovery, InspectOwner, JudgeOwner,
     RecordReceipt, ConfirmOwner, ReadFence, RevokeFence, MoveGuard, vars,
     dataVars, writerVars
<1>2. CASE UNCHANGED recoveries
  BY <1>1, <1>2 DEF QueueInv, ChecksHold
<1>3. CASE \E r \in Recoverers : RecordReceipt(r) \/ MoveGuard(r)
  <2>1. PICK r \in Recoverers : RecordReceipt(r) \/ MoveGuard(r)  BY <1>3
  <2>2. \A w \in Writers : recoveries'[w] # "moved" => recoveries[w] # "moved"
    BY <2>1 DEF RecordReceipt, MoveGuard, lockVars, QueueInv, GuardInv, Shape
  <2> QED  BY <1>1, <2>2 DEF QueueInv, ChecksHold
<1> QED
  BY <1>1, <1>2, <1>3
     DEF Next, RecovererStep, Crash, BeginRecovery, InspectOwner, JudgeOwner,
         ConfirmOwner, ReadFence, RevokeFence, vars, lockVars

-----------------------------------------------------------------------------
(* The theorem. *)

LEMMA InitQueue == Init => QueueInv
<1> SUFFICES ASSUME Init  PROVE QueueInv
  OBVIOUS
<1>1. GuardInv  BY InitGuard
<1>2. FenceShape  BY DEF Init, FenceShape, Fences
<1>3. \A w \in Writers : ~Known(Active(w)) /\ ~Known(Revoked(w))
  BY FencesDiffer DEF Init, Known
<1>i. IdleRecoverer.phase = "idle"  BY DEF IdleRecoverer
<1>4. FencesAreDated  BY <1>3 DEF FencesAreDated, Known
<1>5. GuardIsAccounted
  BY ConstantsAssumption DEF Init, GuardIsAccounted, Critical
<1>6. HoldersCameLater  BY ConstantsAssumption DEF Init, HoldersCameLater
<1>7. RevokersKnow  BY <1>i DEF Init, RevokersKnow
<1>8. RevokedBeforeFreed  BY DEF Init, RevokedBeforeFreed, Fenced
<1>9. RolesFit  BY DEF Init, RolesFit
<1>10. ChecksHold  BY DEF Init, ChecksHold
<1> QED
  BY <1>1, <1>2, <1>4, <1>5, <1>6, <1>7, <1>8, <1>9, <1>10
     DEF QueueInv, OrderInv

LEMMA NextQueue == QueueInv /\ [Next]_vars => QueueInv'
<1> SUFFICES ASSUME QueueInv, [Next]_vars  PROVE QueueInv'
  OBVIOUS
<1>1. GuardInv'  BY NextGuard DEF QueueInv, FenceShape
<1>2. FenceShape'  BY NextFenceShape DEF QueueInv
<1>3. OrderInv'  BY NextOrder DEF QueueInv
<1>4. ChecksHold'  BY WritersKeepChecks, OthersKeepChecks
<1> QED  BY <1>1, <1>2, <1>3, <1>4 DEF QueueInv

\* A step from a state of QueueInv changes a queue only as it may.
LEMMA QueuesChangeRightly ==
  ASSUME QueueInv, [Next]_vars
  PROVE  /\ tickets' # tickets => queue = NoQueue
         /\ queue' # queue =>
              /\ queue = NoQueue
              /\ queue'.from = "tickets" => queue'.tickets = tickets'
<1>1. CASE ~\E w \in Writers : WriterStep(w)
  BY <1>1, OthersKeepChecks
<1>2. ASSUME NEW w \in Writers, WriteTicket(w)
      PROVE  queue = NoQueue /\ queue' = queue
  <2>1. w \in alive /\ pc[w] = "write"  BY <1>2 DEF WriteTicket, At
  <2>2. recoveries[w] # "moved"
    BY <2>1 DEF QueueInv, OrderInv, GuardIsAccounted
  <2> QED  BY <1>2, <2>1, <2>2 DEF QueueInv, ChecksHold, WriteTicket
<1>3. ASSUME NEW w \in Writers, Activate(w), queue' # queue
      PROVE  /\ queue = NoQueue /\ tickets' = tickets
             /\ queue'.from = "tickets" => queue'.tickets = tickets
  <2>1. /\ pc[w] = "transaction" /\ fence = Active(w) /\ queue = NoQueue
        /\ tickets' = tickets
        /\ queue' = IF Role[w] = "migrate" THEN Imported(imported[w])
                                           ELSE Archive
    BY <1>3 DEF Activate
  <2>2. recoveries[w] # "moved"
    BY <2>1, ActivatorHolds DEF QueueInv
  <2>3. Role[w] = "migrate" => imported[w] = tickets
    BY <2>1, <2>2 DEF QueueInv, ChecksHold
  <2> QED  BY <2>1, <2>3 DEF Imported, Archive
<1>4. ASSUME NEW w \in Writers, WriterStep(w),
             ~WriteTicket(w), ~Activate(w)
      PROVE  UNCHANGED <<tickets, queue>>
  BY <1>4 DEF WriterStep, Start, PrepareFence, Acquire, ReplaceFence, Check,
     ImportTickets, Release, Unlink, dataVars
<1>5. ASSUME NEW w \in Writers, Activate(w)  PROVE tickets' = tickets
  BY <1>5 DEF Activate
<1> QED  BY <1>1, <1>2, <1>3, <1>4, <1>5

\* The legacy queue is written only while there is no Git-ref queue, and a
\* Git-ref queue is activated only once and from all that was written: for any
\* number of writers and recoverers, and for Git processes that outlive them.
THEOREM QueueOfRecordIsOne == Spec => OneQueueOfRecord
<1>1. Init => QueueInv  BY InitQueue
<1>2. QueueInv /\ [Next]_vars => QueueInv'  BY NextQueue
<1>3. QueueInv /\ [Next]_vars =>
        [/\ tickets' # tickets => queue = NoQueue
         /\ queue' # queue =>
              /\ queue = NoQueue
              /\ queue'.from = "tickets" => queue'.tickets = tickets']_vars
  BY QueuesChangeRightly
<1> QED  BY <1>1, <1>2, <1>3, PTL DEF Spec, OneQueueOfRecord
=============================================================================
