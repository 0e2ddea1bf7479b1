------------------------ MODULE InstallReleaseProofs ------------------------
(* What holds of every installation, however many commits, destinations,   *)
(* applies and prunes there are: InstallRelease.tla has the model.         *)
EXTENDS InstallRelease, TLAPS

-----------------------------------------------------------------------------
(* Types *)

LEMMA NewJobType ==
  ASSUME TypeOK, NEW pc \in Steps \cup Ended, NEW c \in Commits \cup {None},
         NEW allow \in BOOLEAN, NEW t \in Targets \cup {None},
         job' = NewJob(pc, c, allow, t)
  PROVE  /\ job' \in Jobs
         /\ job'.pc = pc
         /\ job'.commit = c
         /\ job'.changed = <<>>
         /\ job'.previous = None
         /\ job'.todo = {}
         /\ job'.before = [current |-> current, links |-> links]
  BY DEF TypeOK, NewJob, Jobs

LEMMA BeginJob ==
  ASSUME TypeOK, NEW c \in Commits, Begin(c)
  PROVE  /\ job' \in Jobs
         /\ job'.pc = "stage" \/ job'.pc = "refused"
         /\ job'.commit = c
         /\ job'.changed = <<>>
         /\ job'.previous = None
         /\ job'.todo = {}
         /\ job'.before = [current |-> current, links |-> links]
  <1> USE DEF Steps, Ended
  <1>1. Collisions(c) \subseteq Targets
    BY ManifestsAssumption DEF Collisions, managedTargets
  <1>2. CASE \E flag \in BOOLEAN :
               job' = NewJob("stage", c, IF current = None THEN TRUE ELSE flag, None)
    BY <1>2, NewJobType
  <1>3. CASE job' = NewJob("refused", c, FALSE, None)
    BY <1>3, NewJobType
  <1>4. CASE \E t \in Collisions(c) : job' = NewJob("refused", c, FALSE, t)
    BY <1>1, <1>4, NewJobType
  <1> QED BY <1>2, <1>3, <1>4 DEF Begin

LEMMA GotoType ==
  ASSUME TypeOK, NEW pc \in Steps \cup Ended, Goto(pc)
  PROVE  /\ job' \in Jobs
         /\ job'.pc = pc
         /\ job'.commit = job.commit
         /\ job'.previous = job.previous
         /\ job'.changed = job.changed
         /\ job'.todo = job.todo
         /\ job'.before = job.before
  BY DEF TypeOK, Goto, Jobs

LEMMA LinkTypes ==
  /\ Nothing \in Occupants
  /\ Foreign \in Occupants
  /\ \A c \in Commits, t \in Targets :
       t \in managedTargets(c) => Through(Manifest[c][t]) \in Occupants
  BY ManifestsAssumption
     DEF Nothing, Foreign, Occupants, Through, managedTargets, Paths, Files

LEMMA EntryType ==
  ASSUME TypeOK, NEW t \in Targets
  PROVE  /\ Entry(t) \in Changes
         /\ Append(job.changed, Entry(t)) \in Seq(Changes)
         /\ SubSeq(job.changed, 1, Len(job.changed) - 1) \in Seq(Changes)
  <1>1. Entry(t) \in Changes
    BY DEF TypeOK, Entry, Changes
  <1>2. job.changed \in Seq(Changes)
    BY DEF TypeOK, Jobs
  <1> QED BY <1>1, <1>2

LEMMA LastType ==
  ASSUME TypeOK, job.changed # <<>>
  PROVE  /\ Len(job.changed) \in DOMAIN job.changed
         /\ Last \in Changes
         /\ [job.changed EXCEPT ![Len(job.changed)].created = TRUE] \in Seq(Changes)
         /\ [job.changed EXCEPT ![Len(job.changed)].created = FALSE] \in Seq(Changes)
  <1>1. job.changed \in Seq(Changes)
    BY DEF TypeOK, Jobs
  <1>2. Len(job.changed) \in DOMAIN job.changed /\ Last \in Changes
    BY <1>1 DEF Last
  <1>3. ASSUME NEW b \in BOOLEAN
        PROVE  [job.changed EXCEPT ![Len(job.changed)].created = b] \in Seq(Changes)
    <2>1. [Last EXCEPT !.created = b] \in Changes
      BY <1>2 DEF Changes
    <2>2. [job.changed EXCEPT ![Len(job.changed)] = [Last EXCEPT !.created = b]] \in Seq(Changes)
      BY <1>1, <1>2, <2>1
    <2> QED BY <2>2 DEF Last
  <1> QED BY <1>2, <1>3
-----------------------------------------------------------------------------

LEMMA InitType == Init => TypeOK
  <1> SUFFICES ASSUME Init PROVE TypeOK
    OBVIOUS
  <1>1. PICK host \in Hosts :
          /\ releases = host.releases /\ current = host.current
          /\ links = host.links /\ overrides = host.overrides
    BY DEF Init
  <1>2. /\ releases \in [Commits -> Release]
        /\ overrides \subseteq Commits
        /\ links \in [Targets -> Occupants]
        /\ current \in Commits \cup {None}
    BY <1>1, HostsAssumption
  <1>3. job \in Jobs /\ ~Running /\ job.changed = <<>> /\ job.pc # "link"
    BY <1>2 DEF Init, NewJob, Jobs, Ended, Running, Steps
  <1>4. 0 \in 0..MaxApplies /\ 0 \in 0..MaxPrunes
    BY ManifestsAssumption
  <1>5. \A i \in DOMAIN job.changed : job.changed[i].target \notin job.todo
    BY <1>3
  <1>6. backups = {} /\ prune = {} /\ applies = 0 /\ prunes = 0
    BY DEF Init
  <1> QED BY <1>2, <1>3, <1>4, <1>5, <1>6 DEF TypeOK

\* A step that moves the job on and no release.
LEMMA GotoStep ==
  ASSUME TypeOK, Running, NEW pc \in (Steps \cup Ended) \ {"link"}, Goto(pc),
         UNCHANGED <<releases, prune, applies, prunes>>,
         current' \in Commits \cup {None},
         links' \in [Targets -> Occupants],
         backups' \subseteq [run : 0..MaxApplies, target : Targets, saved : Occupants],
         overrides' \subseteq Commits
  PROVE  TypeOK'
  <1>1. /\ job' \in Jobs /\ job'.commit = job.commit
        /\ job'.changed = job.changed /\ job'.todo = job.todo
        /\ job'.pc # "link"
    BY GotoType
  <1> QED BY <1>1 DEF TypeOK, Running

\* One that changes more of the job than where it is.
LEMMA JobStep ==
  ASSUME TypeOK, Running, job' \in Jobs, job'.commit = job.commit,
         job'.pc = "link" => /\ job'.changed # <<>>
                             /\ Last'.target \in managedTargets(job.commit),
         \A i \in DOMAIN job'.changed : job'.changed[i].target \notin job'.todo,
         UNCHANGED <<releases, prune, applies, prunes, current, overrides>>,
         links' \in [Targets -> Occupants],
         backups' \subseteq [run : 0..MaxApplies, target : Targets, saved : Occupants]
  PROVE  TypeOK'
  BY DEF TypeOK, Running, managedTargets

LEMMA SetAsideType ==
  ASSUME TypeOK, NEW t \in Targets, SetAside(t)
  PROVE  /\ links' \in [Targets -> Occupants]
         /\ backups' \subseteq [run : 0..MaxApplies, target : Targets, saved : Occupants]
  BY LinkTypes DEF TypeOK, SetAside, Backup

\* A destination that is dealt with is changed for the first time.
LEMMA EntryStep ==
  ASSUME TypeOK, Running, NEW t \in job.todo,
         \/ job' = [job EXCEPT !.todo = @ \ {t}, !.changed = Append(@, Entry(t))]
         \/ job' = [job EXCEPT !.pc = "link", !.todo = @ \ {t},
                              !.changed = Append(@, Entry(t))]
  PROVE  /\ job' \in Jobs
         /\ job'.commit = job.commit
         /\ \A i \in DOMAIN job'.changed : job'.changed[i].target \notin job'.todo
         /\ job'.changed # <<>> /\ Last'.target = t
         /\ job'.pc \in {job.pc, "link"}
  <1>1. t \in Targets /\ job.changed \in Seq(Changes)
    BY DEF TypeOK, Jobs
  <1>2. Append(job.changed, Entry(t)) \in Seq(Changes) /\ Entry(t).target = t
    BY <1>1, EntryType DEF Entry
  <1>3. /\ job' \in Jobs
        /\ job'.commit = job.commit
        /\ job'.changed = Append(job.changed, Entry(t))
        /\ job'.todo = job.todo \ {t}
        /\ job'.pc \in {job.pc, "link"}
    <2>1. job.todo \ {t} \in SUBSET Targets /\ "link" \in Steps \cup Ended
      BY DEF TypeOK, Jobs, Steps
    <2>2. job \in Jobs
      BY DEF TypeOK
    <2>3. CASE job' = [job EXCEPT !.todo = @ \ {t}, !.changed = Append(@, Entry(t))]
      BY <1>2, <2>1, <2>2, <2>3 DEF Jobs
    <2>4. CASE job' = [job EXCEPT !.pc = "link", !.todo = @ \ {t},
                                  !.changed = Append(@, Entry(t))]
      BY <1>2, <2>1, <2>2, <2>4 DEF Jobs
    <2> QED BY <2>3, <2>4
  <1>4. ASSUME NEW i \in DOMAIN Append(job.changed, Entry(t))
        PROVE  Append(job.changed, Entry(t))[i].target \notin job.todo \ {t}
    <2>1. CASE i \in DOMAIN job.changed
      BY <1>1, <2>1 DEF TypeOK
    <2>2. CASE i \notin DOMAIN job.changed
      BY <1>1, <1>2, <2>2
    <2> QED BY <2>1, <2>2
  <1>5. /\ Append(job.changed, Entry(t)) # <<>>
        /\ Append(job.changed, Entry(t))[Len(Append(job.changed, Entry(t)))] = Entry(t)
    BY <1>1, <1>2
  <1> QED BY <1>2, <1>3, <1>4, <1>5 DEF Last

\* Flags and entries may change; what has been dealt with stays so.
LEMMA FlagStep ==
  ASSUME TypeOK, Running, job.changed # <<>>,
         \/ job' = [job EXCEPT !.pc = "reconcile",
                               !.changed[Len(job.changed)].created = TRUE]
         \/ job' = [job EXCEPT !.changed[Len(job.changed)].created = FALSE]
  PROVE  /\ job' \in Jobs
         /\ job'.commit = job.commit
         /\ job'.pc \in {job.pc, "reconcile"}
         /\ \A i \in DOMAIN job'.changed : job'.changed[i].target \notin job'.todo
  <1>1. job \in Jobs /\ job.changed \in Seq(Changes) /\ "reconcile" \in Steps \cup Ended
    BY DEF TypeOK, Jobs, Steps
  <1>2. PICK b \in BOOLEAN :
          LET entries == [job.changed EXCEPT ![Len(job.changed)].created = b]
          IN  \/ job' = [job EXCEPT !.pc = "reconcile", !.changed = entries]
              \/ job' = [job EXCEPT !.changed = entries]
    BY <1>1 DEF Jobs
  <1> DEFINE entries == [job.changed EXCEPT ![Len(job.changed)].created = b]
  <1>3. entries \in Seq(Changes)
    BY LastType
  <1>4. \A i \in DOMAIN entries : /\ i \in DOMAIN job.changed
                                 /\ entries[i].target = job.changed[i].target
    BY <1>1, LastType DEF Changes, Last
  <1> HIDE DEF entries
  <1>5. /\ job' \in Jobs
        /\ job'.commit = job.commit /\ job'.todo = job.todo
        /\ job'.pc \in {job.pc, "reconcile"}
        /\ job'.changed = entries
    <2>1. job' = [job EXCEPT !.pc = "reconcile", !.changed = entries]
            \/ job' = [job EXCEPT !.changed = entries]
      BY <1>2 DEF entries
    <2> QED BY <1>1, <1>3, <2>1 DEF Jobs
  <1> QED BY <1>4, <1>5 DEF TypeOK

LEMMA PopStep ==
  ASSUME TypeOK, Running, job.changed # <<>>,
         job' = [job EXCEPT !.changed = SubSeq(@, 1, Len(@) - 1)]
  PROVE  /\ job' \in Jobs
         /\ job'.commit = job.commit
         /\ job'.pc = job.pc
         /\ \A i \in DOMAIN job'.changed : job'.changed[i].target \notin job'.todo
  <1>1. job.changed \in Seq(Changes) /\ job \in Jobs
    BY DEF TypeOK, Jobs
  <1>2. SubSeq(job.changed, 1, Len(job.changed) - 1) \in Seq(Changes)
    BY <1>1
  <1>3. \A i \in DOMAIN SubSeq(job.changed, 1, Len(job.changed) - 1) :
          /\ i \in DOMAIN job.changed
          /\ SubSeq(job.changed, 1, Len(job.changed) - 1)[i] = job.changed[i]
    BY <1>1
  <1>4. /\ job' \in Jobs
        /\ job'.commit = job.commit /\ job'.pc = job.pc /\ job'.todo = job.todo
        /\ job'.changed = SubSeq(job.changed, 1, Len(job.changed) - 1)
    BY <1>1, <1>2 DEF Jobs
  <1> QED BY <1>3, <1>4 DEF TypeOK

LEMMA CommitOfJob ==
  ASSUME TypeOK, Running
  PROVE  job.commit \in Commits
  BY DEF TypeOK

-----------------------------------------------------------------------------

LEMMA ApplyType ==
  ASSUME TypeOK, Apply
  PROVE  TypeOK'
  <1> USE DEF Steps, Ended
  <1>1. ASSUME NEW c \in Commits, Begin(c) PROVE TypeOK'
    <2>1. applies' \in 0..MaxApplies
      BY <1>1, ManifestsAssumption DEF Begin, TypeOK
    <2>2. \A i \in DOMAIN job'.changed : job'.changed[i].target \notin job'.todo
      BY <1>1, BeginJob
    <2> QED BY <1>1, <2>1, <2>2, BeginJob DEF Begin, TypeOK
  <1>2. CASE Stage
    <2>1. PICK pc \in {"place", "override", "refused"} : Goto(pc)
      BY <1>2 DEF Stage, Goto
    <2>2. /\ Running
          /\ UNCHANGED <<releases, current, links, backups, overrides, prune,
                         applies, prunes>>
      BY <1>2 DEF Stage, At, Running
    <2> QED BY <2>1, <2>2, GotoStep DEF TypeOK
  <1>3. CASE RecordOverride
    <2>1. overrides' \subseteq Commits
      BY <1>3, CommitOfJob DEF RecordOverride, At, TypeOK, Running
    <2> QED BY <1>3, <2>1, GotoStep DEF RecordOverride, At, TypeOK, Running
  <1>4. CASE Place
    <2>1. Running
      BY <1>4 DEF Place, At, Running
    <2>2. CASE releases[job.commit].tree # "absent"
      BY <1>4, <2>1, <2>2, GotoStep DEF Place, At, TypeOK
    <2>3. CASE releases[job.commit].tree = "absent"
      <3>1. releases' \in [Commits -> Release]
        <4>1. Whole(applies) \in Release
          BY ManifestsAssumption DEF TypeOK, Whole, Release
        <4> QED BY <1>4, <2>3, <4>1 DEF Place, TypeOK
      <3>2. /\ job' \in Jobs /\ job'.commit = job.commit
            /\ job'.changed = job.changed /\ job'.todo = job.todo
            /\ job'.pc = "verify"
        BY <1>4, <2>3, GotoType DEF Place
      <3> QED BY <1>4, <2>1, <3>1, <3>2 DEF Place, At, TypeOK
    <2> QED BY <2>2, <2>3
  <1>5. CASE RewriteMetadata
    BY <1>5, GotoStep DEF RewriteMetadata, At, TypeOK, Running
  <1>6. CASE Verify
    <2>1. CurrentTarget \in Commits \cup {None}
      BY DEF TypeOK, CurrentTarget
    <2>2. /\ job' \in Jobs /\ job'.commit = job.commit
          /\ job'.changed = job.changed /\ job'.todo = job.todo
          /\ job'.pc \in {"switch", "failed"}
      BY <1>6, <2>1 DEF Verify, TypeOK, Jobs
    <2> QED BY <1>6, <2>2 DEF Verify, At, TypeOK, Running
  <1>7. CASE replaceCurrent
    BY <1>7, GotoStep, CommitOfJob DEF replaceCurrent, At, TypeOK, Running
  <1>8. CASE Smoke
    <2>1. CASE Goto("unbind")
      BY <1>8, <2>1, GotoStep DEF Smoke, At, TypeOK, Running
    <2>2. CASE ~Goto("unbind")
      <3>1. orphanManagedLinks(job.commit) \cup managedTargets(job.commit) \subseteq Targets
        BY <1>8, CommitOfJob, ManifestsAssumption
           DEF orphanManagedLinks, managedTargets, Smoke, At, Running
      <3>2. job' \in Jobs /\ job'.commit = job.commit /\ job'.changed = <<>>
              /\ job'.pc = "reconcile"
        <4>1. job \in Jobs /\ <<>> \in Seq(Changes)
          BY DEF TypeOK
        <4> QED BY <1>8, <2>2, <3>1, <4>1 DEF Smoke, Jobs
      <3> QED BY <1>8, <3>2 DEF Smoke, At, TypeOK, Running
    <2> QED BY <2>1, <2>2
  <1>9. ASSUME NEW t \in Targets, RetireOrphan(t) PROVE TypeOK'
    <2>1. Running
      BY <1>9 DEF RetireOrphan, At, Running
    <2>2. /\ job' \in Jobs /\ job'.commit = job.commit
          /\ \A i \in DOMAIN job'.changed : job'.changed[i].target \notin job'.todo
      BY <1>9, <2>1, EntryStep DEF RetireOrphan
    <2>3. job'.pc = "reconcile"
      BY <1>9 DEF RetireOrphan, At, TypeOK, Jobs
    <2> QED BY <1>9, <2>1, <2>2, <2>3, SetAsideType, JobStep DEF RetireOrphan, At
  <1>10. ASSUME NEW t \in Targets, LeaveLink(t) PROVE TypeOK'
    <2>1. Running
      BY <1>10 DEF LeaveLink, At, Running
    <2>2. /\ job' \in Jobs /\ job'.commit = job.commit /\ job'.pc = "reconcile"
          /\ job'.changed = job.changed /\ job'.todo \subseteq job.todo
      BY <1>10 DEF LeaveLink, At, TypeOK, Jobs
    <2> QED BY <1>10, <2>1, <2>2, JobStep DEF LeaveLink, At, TypeOK
  <1>11. ASSUME NEW t \in Targets, MoveOldLink(t) PROVE TypeOK'
    <2>1. Running
      BY <1>11 DEF MoveOldLink, At, Running
    <2>2. /\ job' \in Jobs /\ job'.commit = job.commit
          /\ \A i \in DOMAIN job'.changed : job'.changed[i].target \notin job'.todo
          /\ job'.changed # <<>> /\ Last'.target = t
      BY <1>11, <2>1, EntryStep DEF MoveOldLink
    <2> QED BY <1>11, <2>1, <2>2, SetAsideType, JobStep DEF MoveOldLink, At
  <1>12. CASE CreateLink
    <2>1. Running /\ job.changed # <<>> /\ Last.target \in managedTargets(job.commit)
      BY <1>12 DEF CreateLink, At, Running, TypeOK
    <2>2. links' \in [Targets -> Occupants]
      BY <1>12, <2>1, LinkTypes, CommitOfJob DEF CreateLink, TypeOK
    <2>3. /\ job' \in Jobs /\ job'.commit = job.commit /\ job'.pc = "reconcile"
          /\ \A i \in DOMAIN job'.changed : job'.changed[i].target \notin job'.todo
      BY <1>12, <2>1, FlagStep DEF CreateLink
    <2> QED BY <1>12, <2>1, <2>2, <2>3, JobStep DEF CreateLink, At, TypeOK
  <1>13. CASE ReconcileFails
    BY <1>13, GotoStep DEF ReconcileFails, At, TypeOK, Running
  <1>14. CASE Succeed
    BY <1>14, GotoStep DEF Succeed, At, TypeOK, Running
  <1>15. CASE UndoLink
    <2>1. Running /\ job.changed # <<>> /\ job.pc = "undo"
      BY <1>15 DEF UndoLink, At, Running
    <2>2. links' \in [Targets -> Occupants]
      BY <1>15, LinkTypes DEF UndoLink, TypeOK
    <2>3. /\ job' \in Jobs /\ job'.commit = job.commit /\ job'.pc = "undo"
          /\ \A i \in DOMAIN job'.changed : job'.changed[i].target \notin job'.todo
      BY <1>15, <2>1, FlagStep DEF UndoLink
    <2> QED BY <1>15, <2>1, <2>2, <2>3, JobStep DEF UndoLink, At, TypeOK
  <1>16. CASE UndoMove
    <2>1. Running /\ job.changed # <<>> /\ job.pc = "undo"
      BY <1>16 DEF UndoMove, At, Running
    <2>2. Last \in Changes
      BY <2>1, LastType
    <2>3. /\ links' \in [Targets -> Occupants]
          /\ backups' \subseteq [run : 0..MaxApplies, target : Targets, saved : Occupants]
      BY <1>16, <2>2 DEF UndoMove, TypeOK, Changes
    <2>4. /\ job' \in Jobs /\ job'.commit = job.commit /\ job'.pc = "undo"
          /\ \A i \in DOMAIN job'.changed : job'.changed[i].target \notin job'.todo
      BY <1>16, <2>1, PopStep DEF UndoMove
    <2> QED BY <1>16, <2>1, <2>3, <2>4, JobStep DEF UndoMove, At, TypeOK
  <1>17. CASE Undone
    BY <1>17, GotoStep DEF Undone, At, TypeOK, Running
  <1>18. CASE Unbind
    BY <1>18, GotoStep DEF Unbind, At, TypeOK, Running
  <1>19. CASE Rebind
    BY <1>19, GotoStep DEF Rebind, At, TypeOK, Running, Jobs
  <1>20. CASE Crash
    <2>1. /\ job' \in Jobs /\ job'.pc = "idle" /\ ~Running'
          /\ job'.changed = job.changed /\ job'.todo = job.todo
      BY <1>20, GotoType DEF Crash, Running
    <2>2. releases' \in [Commits -> Release]
      BY <1>20 DEF Crash, TypeOK, Release
    <2> QED BY <1>20, <2>1, <2>2 DEF Crash, TypeOK
  <1> QED BY <1>1, <1>2, <1>3, <1>4, <1>5, <1>6, <1>7, <1>8, <1>9, <1>10, <1>11,
             <1>12, <1>13, <1>14, <1>15, <1>16, <1>17, <1>18, <1>19, <1>20 DEF Apply

LEMMA NextType ==
  ASSUME TypeOK, [Next]_vars
  PROVE  TypeOK'
  <1>1. CASE Apply
    BY <1>1, ApplyType
  <1>2. CASE BeginPrune
    <2>1. prune' \subseteq Commits
      BY <1>2 DEF BeginPrune, Prunable, Directories
    <2>2. prunes' \in 0..MaxPrunes
      BY <1>2, ManifestsAssumption DEF BeginPrune, TypeOK
    <2> QED BY <1>2, <2>1, <2>2 DEF BeginPrune, TypeOK, Running, Last, managedTargets
  <1>3. CASE PruneCrash
    BY <1>3 DEF PruneCrash, TypeOK, Running, Last, managedTargets
  <1>4. ASSUME NEW c \in Commits, RemoveTree(c) PROVE TypeOK'
    <2>1. releases' \in [Commits -> Release]
      <3>1. [releases[c] EXCEPT !.tree = "part"] \in Release /\ Absent \in Release
        BY DEF TypeOK, Release, Absent
      <3> QED BY <1>4, <3>1 DEF RemoveTree, TypeOK
    <2> QED BY <1>4, <2>1 DEF RemoveTree, TypeOK, Running, Last, managedTargets
  <1>5. ASSUME NEW c \in Commits, Repoint(c) PROVE TypeOK'
    BY <1>5 DEF Repoint, TypeOK, Running, Last, managedTargets
  <1>6. ASSUME NEW t \in Targets, Occupy(t) PROVE TypeOK'
    BY <1>6, LinkTypes DEF Occupy, TypeOK, Running, Last, managedTargets
  <1>7. ASSUME NEW t \in Targets, Clear(t) PROVE TypeOK'
    BY <1>7, LinkTypes DEF Clear, TypeOK, Running, Last, managedTargets
  <1>8. CASE UNCHANGED vars
    BY <1>8 DEF vars, TypeOK, Running, Last, managedTargets
  <1> QED BY <1>1, <1>2, <1>3, <1>4, <1>5, <1>6, <1>7, <1>8 DEF Next

\* Type correctness of the installation model.
THEOREM TypeCorrect == Spec => []TypeOK
  <1>1. Init => TypeOK
    BY InitType
  <1>2. TypeOK /\ [Next]_vars => TypeOK'
    BY NextType
  <1> QED BY <1>1, <1>2, PTL DEF Spec

-----------------------------------------------------------------------------
(* Steps that leave the releases and what selects one alone. *)

Aside ==
  UNCHANGED <<releases, current, overrides, prune, applies>>

\* The job goes on for the same commit, with the same link to come back to.
SameCommit ==
  /\ job'.commit = job.commit
  /\ job'.previous = job.previous

\* Reconciliation and its undoing change managed links only.
Relink ==
  \/ \E t \in Targets : RetireOrphan(t) \/ LeaveLink(t) \/ MoveOldLink(t)
  \/ CreateLink \/ ReconcileFails \/ Succeed
  \/ UndoLink \/ UndoMove \/ Undone

LEMMA RelinkAside ==
  ASSUME TypeOK, Relink
  PROVE  /\ Aside
         /\ SameCommit
         /\ Running
         /\ job.pc \in {"reconcile", "link", "undo"}
         /\ job'.pc \in {"reconcile", "link", "undo", "done", "unbind"}
  <1> USE DEF Relink, At, Aside, SameCommit, Running, Steps, Goto
  <1>1. job \in Jobs
    BY DEF TypeOK
  <1>2. ASSUME NEW t \in Targets, RetireOrphan(t) \/ LeaveLink(t) \/ MoveOldLink(t)
        PROVE  /\ Aside /\ SameCommit /\ job.pc = "reconcile"
               /\ job'.pc \in {"reconcile", "link"}
    BY <1>1, <1>2 DEF RetireOrphan, LeaveLink, MoveOldLink, Jobs
  <1>3. CASE CreateLink
    BY <1>1, <1>3 DEF CreateLink, Jobs
  <1>4. CASE ReconcileFails \/ Succeed \/ Undone
    BY <1>1, <1>4 DEF ReconcileFails, Succeed, Undone, Jobs
  <1>5. CASE UndoLink \/ UndoMove
    BY <1>1, <1>5 DEF UndoLink, UndoMove, Jobs
  <1> QED BY <1>2, <1>3, <1>4, <1>5

LEMMA CrashReleases ==
  ASSUME TypeOK, Crash
  PROVE  \A c \in Commits : releases'[c].tree = releases[c].tree
  <1>1. CASE UNCHANGED releases
    BY <1>1
  <1>2. CASE releases' = [releases EXCEPT ![job.commit].readable = FALSE]
    <2>1. job.commit \in Commits
      BY CommitOfJob DEF Crash
    <2>2. [releases[job.commit] EXCEPT !.readable = FALSE].tree = releases[job.commit].tree
      BY <2>1 DEF TypeOK, Release
    <2> QED BY <1>2, <2>1, <2>2 DEF TypeOK
  <1> QED BY <1>1, <1>2 DEF Crash

-----------------------------------------------------------------------------
(* Audit *)

\* Every release that is there has been signed for, and with it everything
\* that may come to be selected: what is selected now, what a failing apply
\* goes back to, and what an apply has staged.
AuditInv ==
  /\ \A c \in Commits : releases[c].tree # "absent" => c \in Sealed \cup overrides
  /\ current \in Sealed \cup overrides \cup {None}
  /\ job.previous \in Sealed \cup overrides \cup {None}
  /\ job.pc \in {"place", "rewrite", "verify", "switch"} =>
       job.commit \in Sealed \cup overrides

LEMMA HostReleases ==
  ASSUME NEW host \in Hosts
  PROVE  /\ \A c \in Commits :
              \/ host.releases[c].tree = "absent"
              \/ /\ host.releases[c].tree = "whole"
                 /\ c \in Sealed \cup host.overrides
         /\ \/ host.current = None
            \/ host.current \in Commits /\ host.releases[host.current].tree = "whole"
  <1>1. \A c \in Commits :
          \/ host.releases[c] = Absent
          \/ /\ host.releases[c] = Whole(host.releases[c].mtime)
             /\ c \in Sealed \cup host.overrides
    BY HostsAssumption
  <1>2. \/ host.current = None
        \/ host.current \in Commits /\ host.releases[host.current] # Absent
    BY HostsAssumption
  <1>3. Absent.tree = "absent" /\ \A time : Whole(time).tree = "whole"
    BY DEF Absent, Whole
  <1> QED BY <1>1, <1>2, <1>3, Zenon

LEMMA AuditInit == Init => AuditInv
  <1> SUFFICES ASSUME Init PROVE AuditInv
    OBVIOUS
  <1>1. PICK host \in Hosts :
          /\ releases = host.releases /\ current = host.current
          /\ overrides = host.overrides
    BY DEF Init
  <1>2. job.pc = "idle" /\ job.previous = None
    BY DEF Init, NewJob
  <1> QED BY <1>1, <1>2, HostReleases DEF AuditInv

LEMMA ApplyAudit ==
  ASSUME TypeOK, AuditInv, Apply
  PROVE  AuditInv'
  <1> USE DEF AuditInv
  <1>1. CASE \E c \in Commits : Begin(c)
    BY <1>1, BeginJob DEF Begin
  <1>2. CASE Stage
    BY <1>2, GotoType DEF Stage, Steps, Ended
  <1>3. CASE RecordOverride
    BY <1>3, GotoType DEF RecordOverride, Steps
  <1>4. CASE Place
    BY <1>4, GotoType DEF Place, At, Steps, Ended, Whole, TypeOK
  <1>5. CASE RewriteMetadata
    BY <1>5, GotoType DEF RewriteMetadata, At, Steps
  <1>6. CASE Verify
    <2>1. /\ job'.commit = job.commit /\ job'.previous \in {None, current}
          /\ job'.pc \in {"switch", "failed"}
      BY <1>6 DEF Verify, CurrentTarget, TypeOK, Jobs
    <2> QED BY <1>6, <2>1 DEF Verify, At
  <1>7. CASE replaceCurrent
    BY <1>7, GotoType DEF replaceCurrent, At, Steps
  <1>8. CASE Smoke
    <2>1. job'.previous = job.previous /\ job'.pc \in {"unbind", "reconcile"}
      BY <1>8 DEF Smoke, Goto, TypeOK, Jobs
    <2> QED BY <1>8, <2>1 DEF Smoke
  <1>9. CASE Relink
    BY <1>9, RelinkAside DEF Aside, SameCommit
  <1>10. CASE Unbind
    BY <1>10, GotoType DEF Unbind, Steps
  <1>11. CASE Rebind
    BY <1>11, GotoType DEF Rebind, Ended
  <1>12. CASE Crash
    BY <1>12, GotoType, CrashReleases DEF Crash, Ended
  <1> QED BY <1>1, <1>2, <1>3, <1>4, <1>5, <1>6, <1>7, <1>8, <1>9, <1>10, <1>11,
             <1>12 DEF Apply, Relink

LEMMA NextAudit ==
  ASSUME TypeOK, AuditInv, [Next]_vars
  PROVE  AuditInv'
  <1> USE DEF AuditInv
  <1>1. CASE Apply
    BY <1>1, ApplyAudit
  <1>2. CASE BeginPrune \/ PruneCrash
    BY <1>2 DEF BeginPrune, PruneCrash
  <1>3. ASSUME NEW c \in Commits, RemoveTree(c) PROVE AuditInv'
    BY <1>3 DEF RemoveTree, TypeOK, Release, Absent
  <1>4. ASSUME NEW c \in Commits, Repoint(c) PROVE AuditInv'
    BY <1>4 DEF Repoint, verifyRelease
  <1>5. CASE \E t \in Targets : Occupy(t) \/ Clear(t)
    BY <1>5 DEF Occupy, Clear
  <1>6. CASE UNCHANGED vars
    BY <1>6 DEF vars
  <1> QED BY <1>1, <1>2, <1>3, <1>4, <1>5, <1>6 DEF Next

\* Whatever is selected that nothing seals, somebody has signed for.
THEOREM SelectedIsAudited == Spec => []UnsealedAudited
  <1>1. Init => AuditInv
    BY AuditInit
  <1>2. TypeOK /\ AuditInv /\ [Next]_vars => AuditInv'
    BY NextAudit
  <1>3. AuditInv => UnsealedAudited
    BY ManifestsAssumption DEF AuditInv, UnsealedAudited
  <1> QED BY <1>1, <1>2, <1>3, TypeCorrect, PTL DEF Spec

-----------------------------------------------------------------------------
(* Whole releases, where no prune runs beside an apply *)

Leads(link) ==
  link.via \in Commits =>
    /\ releases[link.via].tree = "whole"
    /\ link.path \in Files(link.via)

\* What is to be removed nobody leads to, now or after an apply has gone back;
\* and no release is to be removed while an apply runs.
WholeInv ==
  /\ current # None => releases[current].tree = "whole"
  /\ \A t \in Targets : Leads(links[t])
  /\ Running => /\ prune = {}
                /\ job.previous # None => releases[job.previous].tree = "whole"
                /\ \A i \in DOMAIN job.changed : Leads(job.changed[i].saved)
  /\ \A c \in prune : c # current /\ \A t \in Targets : links[t].via # c
  /\ job.pc = "switch" => releases[job.commit].tree = "whole"

\* What an apply does to the releases leaves those whole that were.
LEMMA KeptWhole ==
  ASSUME TypeOK, WholeInv, Running,
         \A c \in Commits : releases[c].tree = "whole" => releases'[c].tree = "whole",
         prune' = prune, links' = links,
         current' = current \/ current' = None,
         job'.changed = job.changed \/ job'.changed = <<>>,
         job'.previous \in {job.previous, None}
  PROVE  /\ current' # None => releases'[current'].tree = "whole"
         /\ \A t \in Targets : Leads(links[t])'
         /\ prune' = {}
         /\ job'.previous # None => releases'[job'.previous].tree = "whole"
         /\ (\A i \in DOMAIN job.changed : Leads(job.changed[i].saved))'
  <1>1. job \in Jobs /\ job.changed \in Seq(Changes)
    BY DEF TypeOK, Jobs
  <1>2. current' # None => releases'[current'].tree = "whole"
    BY DEF TypeOK, WholeInv
  <1>3. prune' = {}
    BY DEF WholeInv
  <1>4. job'.previous # None => releases'[job'.previous].tree = "whole"
    BY <1>1 DEF WholeInv, Jobs
  <1>5. \A t \in Targets : Leads(links[t])'
    BY DEF Leads, WholeInv
  <1>6. (\A i \in DOMAIN job.changed : Leads(job.changed[i].saved))'
    BY <1>1 DEF Leads, WholeInv
  <1> QED BY <1>2, <1>3, <1>4, <1>5, <1>6

LEMMA WholeInit == Init => WholeInv
  <1> SUFFICES ASSUME Init PROVE WholeInv
    OBVIOUS
  <1>1. PICK host \in Hosts :
          releases = host.releases /\ current = host.current /\ links = host.links
    BY DEF Init
  <1>2. job.pc = "idle" /\ prune = {}
    BY DEF Init, NewJob
  <1>3. \A t \in Targets : links[t].via \in Commits =>
          /\ releases[links[t].via] # Absent
          /\ links[t].path \in Files(links[t].via)
    BY <1>1, HostsAssumption
  <1>4. \A c \in Commits : releases[c] # Absent => releases[c].tree = "whole"
    <2>1. \A c \in Commits :
            releases[c] = Absent \/ releases[c] = Whole(releases[c].mtime)
      BY <1>1, HostsAssumption
    <2>2. \A time : Whole(time).tree = "whole"
      BY DEF Whole
    <2> QED BY <2>1, <2>2, Zenon
  <1>5. current # None => releases[current].tree = "whole"
    BY <1>1, HostReleases
  <1> QED BY <1>2, <1>3, <1>4, <1>5 DEF WholeInv, Leads, Running, Steps

\* Links are only put where one leads through current, or where one has been.
LEMMA RelinkWhole ==
  ASSUME TypeOK, WholeInv, Relink
  PROVE  /\ \A t \in Targets : Leads(links'[t])
         /\ \A i \in DOMAIN job'.changed : Leads(job'.changed[i].saved)
  <1> USE DEF Relink
  <1>1. /\ job \in Jobs /\ job.changed \in Seq(Changes)
        /\ \A t \in Targets : Leads(links[t])
        /\ \A i \in DOMAIN job.changed : Leads(job.changed[i].saved)
    BY RelinkAside DEF TypeOK, Jobs, WholeInv
  <1>2. Leads(Nothing) /\ Leads(Foreign) /\ \A path : Leads(Through(path))
    BY ManifestsAssumption DEF Leads, Nothing, Foreign, Through
  <1>3. ASSUME NEW t \in Targets, SetAside(t)
        PROVE  \A u \in Targets : Leads(links'[u])
    BY <1>1, <1>2, <1>3 DEF SetAside, TypeOK
  <1>4. ASSUME NEW t \in Targets, RetireOrphan(t) \/ MoveOldLink(t)
        PROVE  /\ \A u \in Targets : Leads(links'[u])
               /\ \A i \in DOMAIN job'.changed : Leads(job'.changed[i].saved)
    <2>1. SetAside(t)
      BY <1>4 DEF RetireOrphan, MoveOldLink
    <2>2. job'.changed = Append(job.changed, Entry(t))
      BY <1>1, <1>4 DEF RetireOrphan, MoveOldLink, Jobs
    <2>3. Entry(t).saved = links[t] /\ Entry(t) \in Changes
      BY EntryType DEF Entry
    <2>4. \A i \in DOMAIN Append(job.changed, Entry(t)) :
            \/ i \in DOMAIN job.changed
                 /\ Append(job.changed, Entry(t))[i] = job.changed[i]
            \/ Append(job.changed, Entry(t))[i] = Entry(t)
      BY <1>1, <2>3
    <2> QED BY <1>1, <1>3, <2>1, <2>2, <2>3, <2>4
  <1>5. ASSUME NEW t \in Targets, LeaveLink(t)
        PROVE  links' = links /\ job'.changed = job.changed
    BY <1>1, <1>5 DEF LeaveLink, Jobs
  <1>6. CASE ReconcileFails \/ Succeed \/ Undone
    BY <1>1, <1>6 DEF ReconcileFails, Succeed, Undone, Goto, Jobs
  <1>7. CASE CreateLink \/ UndoLink
    <2>1. job.changed # <<>>
      BY <1>7 DEF CreateLink, UndoLink, At, TypeOK
    <2>2. PICK b \in BOOLEAN :
            job'.changed = [job.changed EXCEPT ![Len(job.changed)].created = b]
      BY <1>1, <1>7 DEF CreateLink, UndoLink, Jobs
    <2>3. \A i \in DOMAIN job'.changed : /\ i \in DOMAIN job.changed
                                         /\ job'.changed[i].saved = job.changed[i].saved
      BY <1>1, <2>1, <2>2, LastType DEF Changes, Last
    <2>4. \A u \in Targets : \/ links'[u] = links[u] \/ links'[u] = Nothing
                             \/ \E path : links'[u] = Through(path)
      BY <1>7 DEF CreateLink, UndoLink, TypeOK
    <2> QED BY <1>1, <1>2, <2>3, <2>4
  <1>8. CASE UndoMove
    <2>1. job.changed # <<>> /\ Len(job.changed) \in DOMAIN job.changed
      BY <1>8, LastType DEF UndoMove
    <2>2. job'.changed = SubSeq(job.changed, 1, Len(job.changed) - 1)
      BY <1>1, <1>8 DEF UndoMove, Jobs
    <2>3. \A i \in DOMAIN SubSeq(job.changed, 1, Len(job.changed) - 1) :
            /\ i \in DOMAIN job.changed
            /\ SubSeq(job.changed, 1, Len(job.changed) - 1)[i] = job.changed[i]
      BY <1>1
    <2>4. \A u \in Targets : links'[u] = links[u] \/ links'[u] = Last.saved
      BY <1>8 DEF UndoMove, TypeOK
    <2>5. Leads(Last.saved)
      BY <1>1, <2>1 DEF Last
    <2> QED BY <1>1, <2>2, <2>3, <2>4, <2>5
  <1> QED BY <1>1, <1>4, <1>5, <1>6, <1>7, <1>8

LEMMA ApplyWhole ==
  ASSUME TypeOK, WholeInv, Apply, "prune" \notin Interference
  PROVE  WholeInv'
  <1> USE DEF Steps, Ended
  <1>1. ASSUME NEW c \in Commits, Begin(c) PROVE WholeInv'
    <2>1. /\ UNCHANGED <<releases, current, links, prune>>
          /\ prune = {}
      BY <1>1 DEF Begin
    <2> QED BY <1>1, <2>1, BeginJob DEF WholeInv, Leads
  <1>2. CASE Stage \/ RecordOverride \/ RewriteMetadata
    <2>1. PICK pc \in {"place", "override", "refused", "verify"} : Goto(pc)
      BY <1>2 DEF Stage, RecordOverride, RewriteMetadata, Goto
    <2>2. Running /\ UNCHANGED <<releases, current, links, prune>>
      BY <1>2 DEF Stage, RecordOverride, RewriteMetadata, At, Running
    <2> QED BY <2>1, <2>2, GotoType, KeptWhole DEF WholeInv
  <1>3. CASE Place
    <2>1. /\ Running
          /\ UNCHANGED <<current, links, prune>>
          /\ \A c \in Commits : releases[c].tree = "whole" => releases'[c].tree = "whole"
      BY <1>3 DEF Place, At, Running, TypeOK
    <2>2. PICK pc \in {"verify", "failed", "rewrite"} : Goto(pc)
      BY <1>3 DEF Place, Goto
    <2> QED BY <2>1, <2>2, GotoType, KeptWhole DEF WholeInv
  <1>4. CASE Verify
    <2>1. Running /\ UNCHANGED <<releases, current, links, prune>>
      BY <1>4 DEF Verify, At, Running
    <2>2. /\ job'.commit = job.commit /\ job'.changed = job.changed
          /\ job'.previous \in {None, current}
          /\ job'.pc = "switch" => verifyRelease(job.commit)
      BY <1>4 DEF Verify, CurrentTarget, TypeOK, Jobs
    <2> QED BY <2>1, <2>2 DEF WholeInv, Leads, verifyRelease
  <1>5. CASE replaceCurrent
    <2>1. Running /\ UNCHANGED <<releases, links, prune>> /\ job.pc = "switch"
          /\ current' = job.commit
      BY <1>5 DEF replaceCurrent, At, Running
    <2>2. job'.pc = "smoke" /\ job'.changed = job.changed
          /\ job'.previous = job.previous
      BY <1>5, GotoType DEF replaceCurrent
    <2> QED BY <2>1, <2>2 DEF WholeInv, Leads
  <1>6. CASE Smoke
    <2>1. Running /\ UNCHANGED <<releases, current, links, prune>>
      BY <1>6 DEF Smoke, At, Running
    <2>2. /\ job'.pc # "switch" /\ job'.previous = job.previous
          /\ job'.changed = job.changed \/ job'.changed = <<>>
      BY <1>6 DEF Smoke, Goto, TypeOK, Jobs
    <2> QED BY <2>1, <2>2, KeptWhole DEF WholeInv
  <1>7. CASE Relink
    <2>1. /\ Running /\ UNCHANGED <<releases, current, prune>>
          /\ job'.previous = job.previous /\ job'.pc # "switch"
      BY <1>7, RelinkAside DEF Aside, SameCommit
    <2>2. /\ \A t \in Targets : Leads(links'[t])
          /\ \A i \in DOMAIN job'.changed : Leads(job'.changed[i].saved)
      BY <1>7, RelinkWhole
    <2> QED BY <2>1, <2>2 DEF WholeInv, Leads
  <1>8. CASE Unbind \/ Rebind
    <2>1. /\ Running /\ UNCHANGED <<releases, links, prune>>
          /\ current' \in {None, job.previous}
      BY <1>8 DEF Unbind, Rebind, At, Running
    <2>2. /\ job'.pc # "switch" /\ job'.previous = job.previous
          /\ job'.changed = job.changed
      BY <1>8, GotoType DEF Unbind, Rebind
    <2> QED BY <2>1, <2>2 DEF WholeInv, Leads
  <1>9. CASE Crash
    <2>1. Running /\ UNCHANGED <<current, links, prune>>
      BY <1>9 DEF Crash
    <2>2. /\ job'.pc = "idle" /\ job'.previous = job.previous
          /\ job'.changed = job.changed
      BY <1>9, GotoType DEF Crash
    <2>3. \A c \in Commits : releases'[c].tree = releases[c].tree
      BY <1>9, CrashReleases
    <2> QED BY <2>1, <2>2, <2>3, KeptWhole DEF WholeInv
  <1> QED BY <1>1, <1>2, <1>3, <1>4, <1>5, <1>6, <1>7, <1>8, <1>9 DEF Apply, Relink

LEMMA NextWhole ==
  ASSUME TypeOK, WholeInv, [Next]_vars, "prune" \notin Interference
  PROVE  WholeInv'
  <1>1. CASE Apply
    BY <1>1, ApplyWhole
  <1>2. CASE BeginPrune
    <2>1. ~Running /\ UNCHANGED <<releases, current, links, job>>
          /\ prune' = Prunable
      BY <1>2 DEF BeginPrune, Quiet
    <2>2. ASSUME NEW c \in Prunable PROVE c # current
      BY <2>2, ManifestsAssumption DEF Prunable, Directories, CurrentTarget
    <2>3. ASSUME NEW c \in Prunable, NEW t \in Targets PROVE links[t].via # c
      <3>1. c \in Commits /\ c \notin Referenced
        BY <2>3 DEF Prunable, Directories
      <3>2. SUFFICES ASSUME links[t].via = c PROVE FALSE
        OBVIOUS
      <3>3. Resolves(links[t]) /\ ReleaseOf(links[t]) = c
        BY <3>1, <3>2, ManifestsAssumption
           DEF Resolves, IsInStore, ReleaseOf, WholeInv, Leads
      <3> QED BY <3>1, <3>3 DEF Referenced
    <2>4. (\A c \in prune : c # current /\ \A t \in Targets : links[t].via # c)'
      BY <2>1, <2>2, <2>3
    <2> QED BY <2>1, <2>4 DEF WholeInv, Leads, Running
  <1>3. CASE PruneCrash
    BY <1>3 DEF PruneCrash, WholeInv, Leads, Running
  <1>4. ASSUME NEW c \in Commits, RemoveTree(c) PROVE WholeInv'
    <2>1. /\ ~Running /\ UNCHANGED <<current, links, job>>
          /\ c \in prune /\ prune' \subseteq prune
          /\ \A d \in Commits \ {c} : releases'[d] = releases[d]
      BY <1>4 DEF RemoveTree, WholeInv, TypeOK
    <2>2. \A t \in Targets : Leads(links[t])'
      BY <2>1 DEF WholeInv, Leads
    <2>3. current # None => releases'[current].tree = "whole"
      BY <2>1 DEF WholeInv, TypeOK
    <2> QED BY <2>1, <2>2, <2>3 DEF WholeInv, Running, Steps
  <1>5. ASSUME NEW c \in Commits, Repoint(c) PROVE WholeInv'
    BY <1>5 DEF Repoint, verifyRelease, WholeInv, Leads, Running, Steps
  <1>6. ASSUME NEW t \in Targets, Occupy(t) \/ Clear(t) PROVE WholeInv'
    <2>1. UNCHANGED <<releases, current, prune, job>>
      BY <1>6 DEF Occupy, Clear
    <2>2. \A u \in Targets : links'[u] = links[u] \/ links'[u].via \notin Commits
      BY <1>6, ManifestsAssumption DEF Occupy, Clear, TypeOK, Foreign, Nothing
    <2> QED BY <2>1, <2>2 DEF WholeInv, Leads, Running, TypeOK
  <1>7. CASE UNCHANGED vars
    BY <1>7 DEF vars, WholeInv, Leads, Running
  <1> QED BY <1>1, <1>2, <1>3, <1>4, <1>5, <1>6, <1>7 DEF Next

\* Where every prune waits for an apply to end, no release is taken away from
\* under `current` or a managed link.
THEOREM PruneSparesReferenced ==
  "prune" \notin Interference => (Spec => []ReferencedReleasesWhole)
  <1> SUFFICES ASSUME "prune" \notin Interference
               PROVE  Spec => []ReferencedReleasesWhole
    OBVIOUS
  <1>1. Init => WholeInv
    BY WholeInit
  <1>2. TypeOK /\ WholeInv /\ [Next]_vars => WholeInv'
    BY NextWhole
  <1>3. WholeInv => ReferencedReleasesWhole
    BY DEF WholeInv, Leads, ReferencedReleasesWhole
  <1> QED BY <1>1, <1>2, <1>3, TypeCorrect, PTL DEF Spec

-----------------------------------------------------------------------------
(* Verified releases *)

\* Only the metadata of a release whose seal is overridden is ever written in
\* place, so no other can be found half written.
VerifyInv ==
  /\ \A c \in Commits :
       releases[c].tree = "whole" => releases[c].readable \/ c \in overrides \ Sealed
  /\ job.pc = "rewrite" => job.commit \in overrides \ Sealed

LEMMA VerifyInit == Init => VerifyInv
  <1> SUFFICES ASSUME Init PROVE VerifyInv
    OBVIOUS
  <1>1. PICK host \in Hosts : releases = host.releases
    BY DEF Init
  <1>2. job.pc = "idle"
    BY DEF Init, NewJob
  <1>3. \A c \in Commits : releases[c] = Absent \/ releases[c] = Whole(releases[c].mtime)
    BY <1>1, HostsAssumption
  <1>4. Absent.tree = "absent" /\ \A time : Whole(time).readable = TRUE
    BY DEF Absent, Whole
  <1>5. \A c \in Commits : releases[c].tree = "whole" => releases[c].readable
    BY <1>3, <1>4
  <1> QED BY <1>2, <1>5 DEF VerifyInv

LEMMA ApplyVerify ==
  ASSUME TypeOK, AuditInv, VerifyInv, Apply
  PROVE  VerifyInv'
  <1> USE DEF VerifyInv, Steps, Ended
  <1>1. CASE \E c \in Commits : Begin(c)
    BY <1>1, BeginJob DEF Begin
  <1>2. CASE Stage \/ RecordOverride \/ RewriteMetadata
    <2>1. PICK pc \in {"place", "override", "refused", "verify"} : Goto(pc)
      BY <1>2 DEF Stage, RecordOverride, RewriteMetadata, Goto
    <2>2. UNCHANGED releases /\ overrides \subseteq overrides'
      BY <1>2 DEF Stage, RecordOverride, RewriteMetadata
    <2> QED BY <2>1, <2>2, GotoType
  <1>3. CASE Place
    <2>1. /\ UNCHANGED overrides
          /\ job.commit \in Sealed \cup overrides
          /\ \A c \in Commits : releases'[c] \in {releases[c], Whole(applies)}
      BY <1>3 DEF Place, At, TypeOK, AuditInv
    <2>2. PICK pc \in {"verify", "failed", "rewrite"} :
            Goto(pc) /\ (pc = "rewrite" => job.commit \notin Sealed)
      BY <1>3 DEF Place, Goto
    <2>3. job'.pc = pc /\ job'.commit = job.commit
      BY <2>2, GotoType
    <2>4. Whole(applies).readable = TRUE
      BY DEF Whole
    <2> QED BY <2>1, <2>2, <2>3, <2>4
  <1>4. CASE Verify
    <2>1. job'.pc \in {"switch", "failed"}
      BY <1>4 DEF Verify, TypeOK, Jobs
    <2> QED BY <1>4, <2>1 DEF Verify
  <1>5. CASE replaceCurrent \/ Unbind \/ Rebind
    <2>1. PICK pc \in {"smoke", "rebind", "failed"} : Goto(pc)
      BY <1>5 DEF replaceCurrent, Unbind, Rebind, Goto
    <2>2. UNCHANGED <<releases, overrides>>
      BY <1>5 DEF replaceCurrent, Unbind, Rebind
    <2> QED BY <2>1, <2>2, GotoType
  <1>6. CASE Smoke
    <2>1. job'.pc \in {"unbind", "reconcile"}
      BY <1>6 DEF Smoke, Goto, TypeOK, Jobs
    <2> QED BY <1>6, <2>1 DEF Smoke
  <1>7. CASE Relink
    BY <1>7, RelinkAside DEF Aside
  <1>8. CASE Crash
    <2>1. job'.pc = "idle" /\ UNCHANGED overrides
      BY <1>8, GotoType DEF Crash
    <2>2. \A c \in Commits : \/ releases'[c] = releases[c]
                             \/ c = job.commit /\ job.pc = "rewrite"
      BY <1>8 DEF Crash, At, TypeOK
    <2>3. \A c \in Commits : releases'[c].tree = releases[c].tree
      BY <1>8, CrashReleases
    <2> QED BY <2>1, <2>2, <2>3
  <1> QED BY <1>1, <1>2, <1>3, <1>4, <1>5, <1>6, <1>7, <1>8 DEF Apply, Relink

LEMMA NextVerify ==
  ASSUME TypeOK, AuditInv, VerifyInv, [Next]_vars
  PROVE  VerifyInv'
  <1> USE DEF VerifyInv
  <1>1. CASE Apply
    BY <1>1, ApplyVerify
  <1>2. CASE BeginPrune \/ PruneCrash
    BY <1>2 DEF BeginPrune, PruneCrash
  <1>3. ASSUME NEW c \in Commits, RemoveTree(c) PROVE VerifyInv'
    <2>1. UNCHANGED <<overrides, job>>
      BY <1>3 DEF RemoveTree
    <2>2. Absent.tree = "absent" /\ [releases[c] EXCEPT !.tree = "part"].tree = "part"
      BY DEF Absent, TypeOK, Release
    <2>3. \A d \in Commits : \/ releases'[d] = releases[d]
                             \/ releases'[d].tree \in {"part", "absent"}
      BY <1>3, <2>2 DEF RemoveTree, TypeOK
    <2> QED BY <2>1, <2>3
  <1>4. CASE \E c \in Commits : Repoint(c)
    BY <1>4 DEF Repoint
  <1>5. CASE \E t \in Targets : Occupy(t) \/ Clear(t)
    BY <1>5 DEF Occupy, Clear
  <1>6. CASE UNCHANGED vars
    BY <1>6 DEF vars
  <1> QED BY <1>1, <1>2, <1>3, <1>4, <1>5, <1>6 DEF Next

\* `current` selects a release that verifies, or one with an override whose
\* metadata was being written when an apply died.
THEOREM SelectedVerifies ==
  "prune" \notin Interference => (Spec => []CurrentVerifies)
  <1> SUFFICES ASSUME "prune" \notin Interference
               PROVE  Spec => []CurrentVerifies
    OBVIOUS
  <1>1. Init => AuditInv /\ WholeInv /\ VerifyInv
    BY AuditInit, WholeInit, VerifyInit
  <1>2. TypeOK /\ (AuditInv /\ WholeInv /\ VerifyInv) /\ [Next]_vars
          => (AuditInv /\ WholeInv /\ VerifyInv)'
    BY NextAudit, NextWhole, NextVerify
  <1>3. TypeOK /\ AuditInv /\ WholeInv /\ VerifyInv => CurrentVerifies
    BY DEF TypeOK, WholeInv, VerifyInv, CurrentVerifies, verifyRelease
  <1> QED BY <1>1, <1>2, <1>3, TypeCorrect, PTL DEF Spec

-----------------------------------------------------------------------------
(* What reconcileTargets and the undoing of it do to the managed links, for *)
(* every manifest, host and number of applies.                              *)

(* What each step does to the links, their backups and the job. *)

JobRest == job'.before = job.before /\ job'.commit = job.commit

\* What a prune, a person or another program does: the job stands still.
Others ==
  \/ BeginPrune \/ PruneCrash \/ \E c \in Commits : RemoveTree(c)
  \/ \E c \in Commits : Repoint(c)
  \/ \E t \in Targets : Occupy(t) \/ Clear(t)

\* The steps of an apply between its beginning and reconciliation, and after.
Around ==
  \/ Stage \/ RecordOverride \/ Place \/ RewriteMetadata \/ Verify
  \/ replaceCurrent \/ Smoke \/ ReconcileFails \/ Succeed
  \/ Undone \/ Unbind \/ Rebind \/ Crash

LEMMA Changed ==
  ASSUME TypeOK
  PROVE  /\ job \in Jobs
         /\ job.changed \in Seq(Changes)
         /\ Len(job.changed) \in Nat
         /\ DOMAIN job.changed = 1..Len(job.changed)
         /\ \A i \in DOMAIN job.changed : job.changed[i] \in Changes
  <1>1. job \in Jobs /\ job.changed \in Seq(Changes)
    BY DEF TypeOK, Jobs
  <1> QED BY <1>1

LEMMA OthersEffect ==
  ASSUME TypeOK, Others
  PROVE  /\ UNCHANGED <<job, backups>>
         /\ \A t \in Targets :
              \/ links'[t] = links[t]
              \/ links[t] = Nothing /\ links'[t] = Foreign
              \/ links[t] = Foreign /\ links'[t] = Nothing
  <1>1. CASE \E t \in Targets : Occupy(t) \/ Clear(t)
    BY <1>1 DEF Occupy, Clear, TypeOK
  <1>2. CASE ~\E t \in Targets : Occupy(t) \/ Clear(t)
    BY <1>2 DEF Others, BeginPrune, PruneCrash, RemoveTree, Repoint
  <1> QED BY <1>1, <1>2

LEMMA AroundEffect ==
  ASSUME TypeOK, Around
  PROVE  /\ UNCHANGED <<links, backups>>
         /\ JobRest
         /\ job'.changed = job.changed \/ job'.changed = <<>>
  <1> USE Changed DEF JobRest, Jobs, Goto
  <1>1. CASE Verify
    BY <1>1 DEF Verify
  <1>2. CASE Smoke
    BY <1>2 DEF Smoke
  <1>3. CASE Stage \/ RecordOverride \/ Place \/ RewriteMetadata
    BY <1>3 DEF Stage, RecordOverride, Place, RewriteMetadata
  <1>4. CASE replaceCurrent \/ ReconcileFails \/ Succeed
    BY <1>4 DEF replaceCurrent, ReconcileFails, Succeed
  <1>5. CASE Undone \/ Unbind \/ Rebind \/ Crash
    BY <1>5 DEF Undone, Unbind, Rebind, Crash
  <1> QED BY <1>1, <1>2, <1>3, <1>4, <1>5 DEF Around

Move(t) == RetireOrphan(t) \/ MoveOldLink(t)

LEMMA MoveEffect ==
  ASSUME TypeOK, NEW t \in Targets, Move(t)
  PROVE  /\ t \in job.todo
         /\ JobRest
         /\ job'.todo = job.todo \ {t}
         /\ DOMAIN job'.changed = 1..(Len(job.changed) + 1)
         /\ Len(job'.changed) = Len(job.changed) + 1
         /\ \A i \in DOMAIN job.changed : job'.changed[i] = job.changed[i]
         /\ job'.changed[Len(job.changed) + 1] = Entry(t)
         /\ links' = [links EXCEPT ![t] = Nothing]
         /\ backups' = IF links[t] = Nothing THEN backups ELSE backups \cup {Backup(t)}
  <1>1. /\ job'.changed = Append(job.changed, Entry(t))
        /\ job'.todo = job.todo \ {t}
        /\ JobRest
    BY Changed DEF Move, RetireOrphan, MoveOldLink, Jobs, JobRest
  <1>2. Entry(t) \in Changes
    BY EntryType
  <1>3. /\ DOMAIN Append(job.changed, Entry(t)) = 1..(Len(job.changed) + 1)
        /\ Len(Append(job.changed, Entry(t))) = Len(job.changed) + 1
        /\ \A i \in DOMAIN job.changed : Append(job.changed, Entry(t))[i] = job.changed[i]
        /\ Append(job.changed, Entry(t))[Len(job.changed) + 1] = Entry(t)
    BY Changed, <1>2
  <1> QED BY <1>1, <1>3 DEF Move, RetireOrphan, MoveOldLink, SetAside

LEMMA FlagEffect ==
  ASSUME TypeOK, CreateLink \/ UndoLink
  PROVE  /\ job.changed # <<>>
         /\ Len(job.changed) \in DOMAIN job.changed
         /\ JobRest
         /\ job'.todo = job.todo
         /\ UNCHANGED backups
         /\ DOMAIN job'.changed = DOMAIN job.changed
         /\ \A i \in DOMAIN job.changed :
              /\ job'.changed[i].target = job.changed[i].target
              /\ job'.changed[i].saved = job.changed[i].saved
              /\ i # Len(job.changed) => job'.changed[i] = job.changed[i]
         /\ CreateLink => job'.changed[Len(job.changed)].created = TRUE
         /\ UndoLink => job'.changed[Len(job.changed)].created = FALSE
  <1>1. job.changed # <<>>
    BY DEF CreateLink, UndoLink, At, TypeOK
  <1>2. /\ JobRest
        /\ job'.todo = job.todo
        /\ CreateLink => job'.changed = [job.changed EXCEPT ![Len(job.changed)].created = TRUE]
        /\ UndoLink => job'.changed = [job.changed EXCEPT ![Len(job.changed)].created = FALSE]
    BY Changed DEF CreateLink, UndoLink, Jobs, JobRest
  <1>3. Len(job.changed) \in DOMAIN job.changed /\ Last \in Changes
    BY <1>1, LastType
  <1>4. ASSUME NEW b \in BOOLEAN,
               job'.changed = [job.changed EXCEPT ![Len(job.changed)].created = b]
        PROVE  /\ DOMAIN job'.changed = DOMAIN job.changed
               /\ \A i \in DOMAIN job.changed :
                    /\ job'.changed[i].target = job.changed[i].target
                    /\ job'.changed[i].saved = job.changed[i].saved
                    /\ i # Len(job.changed) => job'.changed[i] = job.changed[i]
               /\ job'.changed[Len(job.changed)].created = b
    BY Changed, <1>3, <1>4 DEF Changes, Last
  <1> QED BY <1>1, <1>2, <1>3, <1>4 DEF CreateLink, UndoLink

LEMMA PopEffect ==
  ASSUME TypeOK, UndoMove
  PROVE  /\ job.changed # <<>>
         /\ Len(job.changed) \in DOMAIN job.changed
         /\ JobRest
         /\ DOMAIN job'.changed = DOMAIN job.changed \ {Len(job.changed)}
         /\ \A i \in DOMAIN job'.changed : job'.changed[i] = job.changed[i]
  <1>1. job.changed # <<>> /\ Len(job.changed) \in DOMAIN job.changed
    BY LastType DEF UndoMove
  <1>2. job'.changed = SubSeq(job.changed, 1, Len(job.changed) - 1) /\ JobRest
    BY Changed DEF UndoMove, Jobs, JobRest
  <1>3. /\ DOMAIN SubSeq(job.changed, 1, Len(job.changed) - 1)
             = DOMAIN job.changed \ {Len(job.changed)}
        /\ \A i \in DOMAIN SubSeq(job.changed, 1, Len(job.changed) - 1) :
             SubSeq(job.changed, 1, Len(job.changed) - 1)[i] = job.changed[i]
    BY Changed, <1>1
  <1> QED BY <1>1, <1>2, <1>3

LEMMA LeaveEffect ==
  ASSUME TypeOK, NEW t \in Targets, LeaveLink(t)
  PROVE  /\ UNCHANGED <<links, backups>>
         /\ JobRest
         /\ job'.changed = job.changed
         /\ job'.todo = job.todo \ {t}
  BY Changed DEF LeaveLink, Jobs, JobRest

LEMMA Split ==
  ASSUME [Next]_vars
  PROVE  \/ \E c \in Commits : Begin(c)
         \/ Around \/ Others
         \/ \E t \in Targets : Move(t) \/ LeaveLink(t)
         \/ CreateLink \/ UndoLink \/ UndoMove
         \/ UNCHANGED vars
  BY DEF Next, Apply, Around, Others, Move

-----------------------------------------------------------------------------
(* Links are kept *)

OfKrn(link) == link \notin {Nothing, Foreign}

HasBackup(t) ==
  \E backup \in backups : backup.target = t /\ backup.saved = job.before.links[t]

\* A destination is changed at most once in an apply, so the backup of what the
\* apply found there is not yet another one.
ChangedOnce ==
  \A i, j \in DOMAIN job.changed :
    i # j => job.changed[i].target # job.changed[j].target

MovedHaveBackups ==
  \A i \in DOMAIN job.changed :
    OfKrn(job.before.links[job.changed[i].target]) => HasBackup(job.changed[i].target)

OthersInPlace ==
  \A t \in Targets : OfKrn(job.before.links[t]) =>
    links[t] = job.before.links[t] \/ HasBackup(t)

KeptInv == OthersInPlace /\ MovedHaveBackups /\ ChangedOnce

LEMMA KeptInit == Init => KeptInv
  <1> SUFFICES ASSUME Init PROVE KeptInv
    OBVIOUS
  <1>1. job.before.links = links /\ job.changed = <<>>
    BY DEF Init, NewJob
  <1> QED BY <1>1 DEF KeptInv, ChangedOnce, OthersInPlace, MovedHaveBackups

LEMMA MoveKept ==
  ASSUME TypeOK, KeptInv, NEW t \in Targets, Move(t)
  PROVE  KeptInv'
  <1> DEFINE new == Len(job.changed) + 1
  <1>1. backups \subseteq backups' /\ job'.before = job.before
    BY MoveEffect DEF JobRest
  <1>2. ASSUME NEW u \in Targets, HasBackup(u) PROVE HasBackup(u)'
    BY <1>1, <1>2 DEF HasBackup
  <1>3. OfKrn(job.before.links[t]) => HasBackup(t)'
    <2>1. SUFFICES ASSUME OfKrn(job.before.links[t]), links[t] = job.before.links[t]
                   PROVE  HasBackup(t)'
      BY <1>2 DEF KeptInv, OthersInPlace, MovedHaveBackups
    <2>2. Backup(t) \in backups'
      BY <2>1, MoveEffect DEF OfKrn
    <2>3. Backup(t).target = t /\ Backup(t).saved = job'.before.links[t]
      BY <1>1, <2>1 DEF Backup
    <2> QED BY <2>2, <2>3 DEF HasBackup
  <1>4. OthersInPlace'
    <2>1. \A u \in Targets \ {t} : links'[u] = links[u]
      BY MoveEffect DEF TypeOK
    <2> QED BY <1>1, <1>2, <1>3, <2>1 DEF KeptInv, OthersInPlace, MovedHaveBackups
  <1>5. /\ DOMAIN job'.changed = DOMAIN job.changed \cup {new}
        /\ new \notin DOMAIN job.changed
        /\ job'.changed[new].target = t
        /\ \A i \in DOMAIN job.changed : /\ job'.changed[i] = job.changed[i]
                                         /\ job.changed[i].target \in Targets \ {t}
    <2>1. DOMAIN job'.changed = 1..new /\ DOMAIN job.changed = 1..Len(job.changed)
      BY MoveEffect, Changed
    <2>2. Entry(t).target = t /\ \A i \in DOMAIN job.changed : job.changed[i].target # t
      BY MoveEffect DEF Entry, TypeOK
    <2> QED BY <2>1, <2>2, MoveEffect, Changed DEF Changes
  <1>6. MovedHaveBackups'
    BY <1>1, <1>2, <1>3, <1>5 DEF KeptInv, OthersInPlace, MovedHaveBackups, HasBackup
  <1>7. ChangedOnce'
    BY <1>5 DEF KeptInv, ChangedOnce, OthersInPlace, MovedHaveBackups
  <1> QED BY <1>4, <1>6, <1>7 DEF KeptInv

LEMMA FlagKept ==
  ASSUME TypeOK, KeptInv, CreateLink \/ UndoLink
  PROVE  KeptInv'
  <1>1. /\ job'.before = job.before /\ UNCHANGED backups
        /\ DOMAIN job'.changed = DOMAIN job.changed
        /\ \A i \in DOMAIN job.changed : job'.changed[i].target = job.changed[i].target
    BY FlagEffect DEF JobRest
  <1>2. \A u \in Targets : u # Last.target => links'[u] = links[u]
    BY DEF CreateLink, UndoLink, TypeOK
  <1>3. OfKrn(job.before.links[Last.target]) => HasBackup(Last.target)
    BY FlagEffect DEF KeptInv, MovedHaveBackups, Last
  <1>4. OthersInPlace'
    BY <1>1, <1>2, <1>3 DEF KeptInv, OthersInPlace, MovedHaveBackups, HasBackup
  <1>5. MovedHaveBackups'
    BY <1>1 DEF KeptInv, OthersInPlace, MovedHaveBackups, HasBackup
  <1>6. ChangedOnce'
    BY <1>1 DEF KeptInv, ChangedOnce, OthersInPlace, MovedHaveBackups
  <1> QED BY <1>4, <1>5, <1>6 DEF KeptInv

LEMMA PopKept ==
  ASSUME TypeOK, KeptInv, UndoMove
  PROVE  KeptInv'
  <1>1. /\ job'.before = job.before
        /\ DOMAIN job'.changed = DOMAIN job.changed \ {Len(job.changed)}
        /\ \A i \in DOMAIN job'.changed : job'.changed[i] = job.changed[i]
        /\ Last \in Changes
    BY PopEffect, LastType DEF JobRest
  <1>2. \A backup \in backups :
          \/ backup \in backups'
          \/ backup.target = Last.target /\ links'[Last.target] = backup.saved
    BY <1>1 DEF UndoMove, TypeOK, Changes
  <1>3. \A u \in Targets : u # Last.target => links'[u] = links[u]
    BY DEF UndoMove, TypeOK
  <1>4. ASSUME NEW u \in Targets, HasBackup(u), u # Last.target
        PROVE  HasBackup(u)'
    BY <1>1, <1>2, <1>4 DEF HasBackup
  <1>5. ASSUME NEW u \in Targets, u = Last.target, OfKrn(job.before.links[u])
        PROVE  links'[u] = job.before.links[u] \/ HasBackup(u)'
    <2>1. HasBackup(u)
      BY <1>5, PopEffect DEF KeptInv, MovedHaveBackups, Last
    <2> QED BY <1>1, <1>2, <1>5, <2>1 DEF HasBackup
  <1>6. OthersInPlace'
    BY <1>1, <1>3, <1>4, <1>5 DEF KeptInv, OthersInPlace, MovedHaveBackups
  <1>7. \A i \in DOMAIN job'.changed :
          /\ job.changed[i].target \in Targets
          /\ job.changed[i].target # Last.target
    BY <1>1, PopEffect, Changed DEF KeptInv, ChangedOnce, Last, Changes
  <1>8. MovedHaveBackups'
    BY <1>1, <1>4, <1>7 DEF KeptInv, OthersInPlace, MovedHaveBackups, HasBackup
  <1>9. ChangedOnce'
    BY <1>1 DEF KeptInv, ChangedOnce, OthersInPlace, MovedHaveBackups
  <1> QED BY <1>6, <1>8, <1>9 DEF KeptInv

LEMMA NextKept ==
  ASSUME TypeOK, KeptInv, [Next]_vars
  PROVE  KeptInv'
  <1> USE DEF KeptInv, OthersInPlace, MovedHaveBackups, ChangedOnce, HasBackup
  <1>1. ASSUME NEW c \in Commits, Begin(c) PROVE KeptInv'
    <2>1. UNCHANGED links /\ job'.before.links = links /\ job'.changed = <<>>
      <3>1. job'.before = [current |-> current, links |-> links] /\ job'.changed = <<>>
        BY <1>1, BeginJob
      <3> QED BY <1>1, <3>1 DEF Begin
    <2>2. OthersInPlace' /\ MovedHaveBackups' /\ ChangedOnce'
      BY <2>1
    <2> QED BY <2>2
  <1>2. CASE Around \/ \E t \in Targets : LeaveLink(t)
    <2>1. /\ UNCHANGED <<links, backups>> /\ job'.before = job.before
          /\ job'.changed = job.changed \/ job'.changed = <<>>
      BY <1>2, AroundEffect, LeaveEffect DEF JobRest
    <2> QED BY <2>1
  <1>3. CASE Others
    <2>1. \A t \in Targets : OfKrn(links[t]) => links'[t] = links[t]
      BY <1>3, OthersEffect DEF OfKrn
    <2> QED BY <1>3, <2>1, OthersEffect
  <1>4. ASSUME NEW t \in Targets, Move(t) PROVE KeptInv'
    BY <1>4, MoveKept
  <1>5. CASE CreateLink \/ UndoLink
    BY <1>5, FlagKept
  <1>6. CASE UndoMove
    BY <1>6, PopKept
  <1>7. CASE UNCHANGED vars
    BY <1>7 DEF vars
  <1> QED BY <1>1, <1>2, <1>3, <1>4, <1>5, <1>6, <1>7, Split

\* No link of KRN's that an apply found is lost, wherever it stops.
THEOREM NoLinkIsLost == Spec => []LinksKept
  <1>1. Init => KeptInv
    BY KeptInit
  <1>2. TypeOK /\ KeptInv /\ [Next]_vars => KeptInv'
    BY NextKept
  <1>3. KeptInv => LinksKept
    BY DEF KeptInv, OthersInPlace, LinksKept, OfKrn, HasBackup
  <1> QED BY <1>1, <1>2, <1>3, TypeCorrect, PTL DEF Spec

-----------------------------------------------------------------------------
(* Files of others, where other programs wait for an apply to end *)

\* What preflight has let pass holds to the end: no destination that is or has
\* been dealt with is, or was, a file of others.
ForeignInv ==
  Running =>
    /\ \A t \in managedTargets(job.commit) \cup job.todo : links[t] # Foreign
    /\ \A i \in DOMAIN job.changed : /\ job.changed[i].saved # Foreign
                                     /\ links[job.changed[i].target] # Foreign

LEMMA ForeignInit == Init => ForeignInv
  BY DEF Init, NewJob, ForeignInv, Running, Steps

LEMMA NothingForeign ==
  /\ Nothing # Foreign
  /\ \A path : Through(path) # Foreign /\ Through(path) # Nothing
  /\ ~IsInStore(Foreign) /\ ~IsInStore(Nothing)
  BY ManifestsAssumption DEF Nothing, Foreign, Through, IsInStore

LEMMA PreflightForeign ==
  ASSUME NEW c \in Commits, Collisions(c) = {}, NEW t \in managedTargets(c)
  PROVE  links[t] # Foreign
  <1> SUFFICES ASSUME links[t] = Foreign PROVE FALSE
    OBVIOUS
  <1>1. /\ links[t].via # "source" /\ ~Resolves(links[t])
    BY NothingForeign DEF Foreign, Resolves
  <1>2. classifyTarget(c, t, links[t]) = "foreign"
    BY <1>1 DEF classifyTarget
  <1> QED BY <1>2, NothingForeign DEF Collisions, Ours

LEMMA AroundRuns ==
  ASSUME Around
  PROVE  Running
  BY DEF Around, Stage, RecordOverride, Place, RewriteMetadata, Verify, replaceCurrent,
         ReconcileFails, Succeed, Undone, Unbind, Rebind, Crash, Smoke, At, Running, Steps

LEMMA TodoForeign ==
  ASSUME TypeOK, ForeignInv, Around, Running'
  PROVE  \A t \in job'.todo : links[t] # Foreign
  <1> USE Changed DEF Goto, Jobs
  <1>1. CASE Smoke
    <2>1. \A t \in orphanManagedLinks(job.commit) : links[t] # Foreign
      BY NothingForeign DEF orphanManagedLinks
    <2>2. Running
      BY <1>1 DEF Smoke, At, Running, Steps
    <2> QED BY <1>1, <2>1, <2>2 DEF Smoke, ForeignInv
  <1>2. CASE ~Smoke
    <2>1. Running
      BY AroundRuns
    <2>2. job'.todo = job.todo
      BY <1>2 DEF Around, Stage, RecordOverride, Place, RewriteMetadata, Verify,
                  replaceCurrent, ReconcileFails, Succeed, Undone, Unbind, Rebind, Crash
    <2> QED BY <2>1, <2>2 DEF ForeignInv
  <1> QED BY <1>1, <1>2

LEMMA ReconcileRuns ==
  ASSUME NEW t \in Targets,
         Move(t) \/ LeaveLink(t) \/ CreateLink \/ UndoLink \/ UndoMove
  PROVE  Running
  BY DEF Move, RetireOrphan, MoveOldLink, LeaveLink, CreateLink, UndoLink, UndoMove,
         At, Running, Steps

LEMMA MoveForeign ==
  ASSUME TypeOK, ForeignInv, NEW t \in Targets, Move(t)
  PROVE  /\ ForeignInv'
         /\ \A u \in Targets : links[u] = Foreign => links'[u] = Foreign
  <1>1. Running /\ t \in job.todo /\ links[t] # Foreign
    BY ReconcileRuns, MoveEffect DEF ForeignInv
  <1>2. \A u \in Targets : links'[u] = IF u = t THEN Nothing ELSE links[u]
    BY MoveEffect DEF TypeOK
  <1>3. /\ job'.commit = job.commit /\ job'.todo \subseteq job.todo
        /\ \A i \in DOMAIN job'.changed :
             i \in DOMAIN job.changed \/ i = Len(job.changed) + 1
    BY MoveEffect, Changed DEF JobRest
  <1>4. ASSUME NEW i \in DOMAIN job'.changed
        PROVE  /\ job'.changed[i].target \in Targets
               /\ job'.changed[i].saved # Foreign
               /\ links[job'.changed[i].target] # Foreign
    <2>1. Entry(t).target = t /\ Entry(t).saved = links[t]
      BY DEF Entry
    <2>2. CASE i \in DOMAIN job.changed
      <3>1. job'.changed[i] = job.changed[i]
        BY <2>2, MoveEffect
      <3> QED BY <1>1, <2>2, <3>1, Changed DEF ForeignInv, Changes
    <2>3. CASE i = Len(job.changed) + 1
      <3>1. job'.changed[i] = Entry(t)
        BY <2>3, MoveEffect
      <3> QED BY <1>1, <2>1, <3>1
    <2> QED BY <1>3, <2>2, <2>3
  <1>5. \A u \in managedTargets(job.commit) \cup job.todo : u \in Targets /\ links[u] # Foreign
    BY <1>1, CommitOfJob, ManifestsAssumption DEF ForeignInv, TypeOK, Jobs, managedTargets
  <1>6. ForeignInv'
    BY <1>2, <1>3, <1>4, <1>5, NothingForeign DEF ForeignInv, managedTargets
  <1> QED BY <1>1, <1>2, <1>6

LEMMA FlagForeign ==
  ASSUME TypeOK, ForeignInv, CreateLink \/ UndoLink
  PROVE  /\ ForeignInv'
         /\ \A u \in Targets : links[u] = Foreign => links'[u] = Foreign
  <1>1. Running /\ \A u \in Targets : links[u] = Foreign => links'[u] = Foreign
    BY NothingForeign
       DEF CreateLink, UndoLink, At, Running, Steps, TypeOK
  <1>2. \A u \in Targets : links'[u] = Foreign => links[u] = Foreign
    BY NothingForeign DEF CreateLink, UndoLink, TypeOK
  <1>3. \A u \in managedTargets(job.commit) \cup job.todo : u \in Targets /\ links[u] # Foreign
    BY <1>1, CommitOfJob, ManifestsAssumption DEF ForeignInv, TypeOK, Jobs, managedTargets
  <1>4. \A i \in DOMAIN job'.changed :
          /\ job'.changed[i].target \in Targets
          /\ job'.changed[i].saved # Foreign
          /\ links[job'.changed[i].target] # Foreign
    BY <1>1, FlagEffect, Changed DEF ForeignInv, Changes
  <1>5. job'.commit = job.commit /\ job'.todo = job.todo
    BY FlagEffect DEF JobRest
  <1>6. ForeignInv'
    BY <1>2, <1>3, <1>4, <1>5 DEF ForeignInv, managedTargets
  <1> QED BY <1>1, <1>6

LEMMA PopForeign ==
  ASSUME TypeOK, ForeignInv, UndoMove
  PROVE  /\ ForeignInv'
         /\ \A u \in Targets : links[u] = Foreign => links'[u] = Foreign
  <1>1. Running /\ job'.commit = job.commit /\ job'.todo = job.todo
    BY Changed DEF UndoMove, At, Running, Steps, Jobs
  <1>2. Last.saved # Foreign /\ links[Last.target] # Foreign
    BY <1>1, PopEffect DEF ForeignInv, Last
  <1>3. \A u \in Targets : \/ links'[u] = links[u]
                           \/ u = Last.target /\ links'[u] = Last.saved
    BY DEF UndoMove, TypeOK
  <1>4. \A u \in Targets : (links[u] = Foreign) = (links'[u] = Foreign)
    BY <1>2, <1>3
  <1>5. \A u \in managedTargets(job.commit) \cup job.todo : u \in Targets /\ links[u] # Foreign
    BY <1>1, CommitOfJob, ManifestsAssumption DEF ForeignInv, TypeOK, Jobs, managedTargets
  <1>6. \A i \in DOMAIN job'.changed :
          /\ job'.changed[i].target \in Targets
          /\ job'.changed[i].saved # Foreign
          /\ links[job'.changed[i].target] # Foreign
    BY <1>1, PopEffect, Changed DEF ForeignInv, Changes
  <1>7. ForeignInv'
    BY <1>1, <1>4, <1>5, <1>6 DEF ForeignInv, managedTargets
  <1> QED BY <1>4, <1>7

LEMMA NextForeign ==
  ASSUME TypeOK, ForeignInv, [Next]_vars, "user" \notin Interference
  PROVE  /\ ForeignInv'
         /\ Running => \A t \in Targets : links[t] = Foreign => links'[t] = Foreign
  <1>1. ASSUME NEW c \in Commits, Begin(c) PROVE UNCHANGED links /\ ForeignInv'
    <2>1. UNCHANGED links /\ (Running' => Collisions(c) = {})
      <3>1. job'.pc = "refused" \/ Collisions(c) = {}
        <4>1. CASE Collisions(c) # {}
          <5>1. \/ job' = NewJob("refused", c, FALSE, None)
                \/ \E t \in Collisions(c) : job' = NewJob("refused", c, FALSE, t)
            BY <1>1, <4>1 DEF Begin
          <5> QED BY <5>1 DEF NewJob
        <4> QED BY <4>1
      <3> QED BY <1>1, <3>1 DEF Begin, Running, Steps
    <2>2. /\ job'.commit = c /\ job'.changed = <<>> /\ job'.todo = {}
      BY <1>1, BeginJob
    <2>3. Running' => \A t \in managedTargets(c) : links[t] # Foreign
      BY <2>1, PreflightForeign
    <2> QED BY <2>1, <2>2, <2>3 DEF ForeignInv, managedTargets
  <1>2. CASE Around
    <2>1. UNCHANGED links /\ Running /\ job'.commit = job.commit
      BY <1>2, AroundEffect, AroundRuns DEF JobRest
    <2>2. Running' => \A t \in job'.todo : links[t] # Foreign
      BY <1>2, TodoForeign
    <2>3. \A i \in DOMAIN job'.changed : /\ job'.changed[i].saved # Foreign
                                         /\ links[job'.changed[i].target] # Foreign
      BY <1>2, <2>1, AroundEffect DEF ForeignInv
    <2> QED BY <2>1, <2>2, <2>3 DEF ForeignInv, managedTargets
  <1>3. CASE Others
    <2>1. UNCHANGED job /\ (Running => UNCHANGED links)
      BY <1>3, OthersEffect
         DEF Others, BeginPrune, PruneCrash, RemoveTree, Repoint, Occupy, Clear, Quiet
    <2> QED BY <2>1 DEF ForeignInv, managedTargets, Running
  <1>4. ASSUME NEW t \in Targets, Move(t)
        PROVE  ForeignInv' /\ \A u \in Targets : links[u] = Foreign => links'[u] = Foreign
    BY <1>4, MoveForeign
  <1>5. ASSUME NEW t \in Targets, LeaveLink(t) PROVE UNCHANGED links /\ ForeignInv'
    BY <1>5, ReconcileRuns, LeaveEffect DEF JobRest, ForeignInv, managedTargets
  <1>6. CASE CreateLink \/ UndoLink
    BY <1>6, FlagForeign
  <1>7. CASE UndoMove
    BY <1>7, PopForeign
  <1>8. CASE UNCHANGED vars
    BY <1>8 DEF vars, ForeignInv, managedTargets, Running
  <1> QED BY <1>1, <1>2, <1>3, <1>4, <1>5, <1>6, <1>7, <1>8, Split

\* Where nobody else writes at a managed destination while an apply runs, the
\* apply leaves every file of others there as it is.
THEOREM ForeignFilesStay ==
  "user" \notin Interference => (Spec => ForeignUntouched)
  <1> SUFFICES ASSUME "user" \notin Interference
               PROVE  Spec => ForeignUntouched
    OBVIOUS
  <1>1. Init => ForeignInv
    BY ForeignInit
  <1>2. TypeOK /\ ForeignInv /\ [Next]_vars
          => ForeignInv'
    BY NextForeign
  <1>3. TypeOK /\ ForeignInv /\ [Next]_vars
          => [\A t \in Targets : links[t] = Foreign /\ Running => links'[t] = Foreign]_vars
    BY NextForeign
  <1> QED BY <1>1, <1>2, <1>3, TypeCorrect, PTL DEF Spec, ForeignUntouched

-----------------------------------------------------------------------------
(* An apply that fails, where nothing runs beside it *)

Early == {"stage", "override", "place", "rewrite", "verify"}
Switched == {"switch", "smoke", "reconcile", "link", "undo", "unbind", "rebind"}

\* What an apply found is where it was, or in the entry of its destination;
\* and a destination whose link is not made yet, or is gone again, is empty.
LinksRestorable ==
  /\ \A t \in Targets :
       (\A i \in DOMAIN job.changed : job.changed[i].target # t) =>
         links[t] = job.before.links[t]
  /\ \A i \in DOMAIN job.changed :
       /\ job.changed[i].saved = job.before.links[job.changed[i].target]
       /\ ~job.changed[i].created => links[job.changed[i].target] = Nothing

CurrentRestorable ==
  /\ job.pc \in Early \cup {"switch"} => current = job.before.current
  /\ job.pc \in Switched => job.previous = job.before.current
  /\ job.pc \notin {"reconcile", "link", "undo"} => job.changed = <<>>

RestoreInv == Running => LinksRestorable /\ CurrentRestorable

LEMMA MoveRestorable ==
  ASSUME TypeOK, LinksRestorable, NEW t \in Targets, Move(t)
  PROVE  LinksRestorable'
  <1>1. /\ job'.before = job.before
        /\ \A u \in Targets : links'[u] = IF u = t THEN Nothing ELSE links[u]
    BY MoveEffect DEF JobRest, TypeOK
  <1>2. /\ DOMAIN job'.changed = DOMAIN job.changed \cup {Len(job.changed) + 1}
        /\ Len(job.changed) + 1 \notin DOMAIN job.changed
    BY MoveEffect, Changed
  <1>3. \A i \in DOMAIN job.changed : /\ job'.changed[i] = job.changed[i]
                                      /\ job.changed[i].target \in Targets \ {t}
    BY MoveEffect, Changed DEF TypeOK, Changes
  <1>4. /\ job'.changed[Len(job.changed) + 1].target = t
        /\ job'.changed[Len(job.changed) + 1].saved = job.before.links[t]
    <2>1. Entry(t).target = t /\ Entry(t).saved = links[t]
      BY DEF Entry
    <2>2. links[t] = job.before.links[t]
      BY <1>3 DEF LinksRestorable
    <2> QED BY <2>1, <2>2, MoveEffect
  <1>5. ASSUME NEW i \in DOMAIN job'.changed
        PROVE  /\ job'.changed[i].saved = job'.before.links[job'.changed[i].target]
               /\ ~job'.changed[i].created => links'[job'.changed[i].target] = Nothing
    <2>1. CASE i \in DOMAIN job.changed
      BY <1>1, <1>3, <2>1 DEF LinksRestorable
    <2>2. CASE i = Len(job.changed) + 1
      BY <1>1, <1>4, <2>2
    <2> QED BY <1>2, <2>1, <2>2
  <1>6. ASSUME NEW u \in Targets, \A i \in DOMAIN job'.changed : job'.changed[i].target # u
        PROVE  links'[u] = job'.before.links[u]
    <2>1. u # t
      BY <1>2, <1>4, <1>6
    <2>2. \A i \in DOMAIN job.changed : job.changed[i].target # u
      BY <1>2, <1>3, <1>6
    <2> QED BY <1>1, <2>1, <2>2 DEF LinksRestorable
  <1> QED BY <1>5, <1>6 DEF LinksRestorable

LEMMA FlagRestorable ==
  ASSUME TypeOK, ForeignInv, ChangedOnce, LinksRestorable, CreateLink \/ UndoLink
  PROVE  LinksRestorable'
  <1>1. /\ job'.before = job.before
        /\ DOMAIN job'.changed = DOMAIN job.changed
        /\ Len(job.changed) \in DOMAIN job.changed
        /\ \A i \in DOMAIN job.changed :
             /\ job'.changed[i].target = job.changed[i].target
             /\ job'.changed[i].saved = job.changed[i].saved
             /\ job.changed[i].target \in Targets
    BY FlagEffect, Changed DEF JobRest, Changes
  <1>2. \A u \in Targets : u # Last.target => links'[u] = links[u]
    BY DEF CreateLink, UndoLink, TypeOK
  <1>3. ASSUME NEW i \in DOMAIN job.changed, ~job'.changed[i].created
        PROVE  links'[job'.changed[i].target] = Nothing
    <2>1. CASE i = Len(job.changed)
      <3>1. UndoLink /\ links[Last.target] # Foreign /\ Last.target \in Targets
        <4>1. Running
          BY DEF CreateLink, UndoLink, At, Running, Steps
        <4> QED BY <1>1, <1>3, <2>1, <4>1, FlagEffect DEF ForeignInv, Last
      <3> QED BY <1>1, <2>1, <3>1 DEF UndoLink, TypeOK, Last
    <2>2. CASE i # Len(job.changed)
      <3>1. job.changed[i].target # Last.target /\ ~job.changed[i].created
        BY <1>1, <1>3, <2>2, FlagEffect DEF ChangedOnce, Last
      <3> QED BY <1>1, <1>2, <3>1 DEF LinksRestorable
    <2> QED BY <2>1, <2>2
  <1>4. ASSUME NEW u \in Targets, \A i \in DOMAIN job'.changed : job'.changed[i].target # u
        PROVE  links'[u] = job'.before.links[u]
    <2>1. u # Last.target /\ \A i \in DOMAIN job.changed : job.changed[i].target # u
      BY <1>1, <1>4 DEF Last
    <2> QED BY <1>1, <1>2, <2>1 DEF LinksRestorable
  <1> QED BY <1>1, <1>3, <1>4 DEF LinksRestorable

LEMMA PopRestorable ==
  ASSUME TypeOK, ChangedOnce, LinksRestorable, UndoMove
  PROVE  LinksRestorable'
  <1>1. /\ job'.before = job.before
        /\ Len(job.changed) \in DOMAIN job.changed
        /\ DOMAIN job'.changed = DOMAIN job.changed \ {Len(job.changed)}
        /\ \A i \in DOMAIN job'.changed :
             /\ job'.changed[i] = job.changed[i]
             /\ job.changed[i].target \in Targets \ {Last.target}
    BY PopEffect, Changed DEF JobRest, Changes, ChangedOnce, Last
  <1>2. /\ Last.target \in Targets
        /\ Last.saved = job.before.links[Last.target]
        /\ links[Last.target] = Nothing
    BY <1>1, Changed DEF LinksRestorable, Last, UndoMove, Changes
  <1>3. \A u \in Targets :
          links'[u] = IF u = Last.target THEN Last.saved ELSE links[u]
    BY <1>2 DEF UndoMove, TypeOK
  <1>4. ASSUME NEW i \in DOMAIN job'.changed
        PROVE  /\ job'.changed[i].saved = job'.before.links[job'.changed[i].target]
               /\ ~job'.changed[i].created => links'[job'.changed[i].target] = Nothing
    BY <1>1, <1>3 DEF LinksRestorable
  <1>5. ASSUME NEW u \in Targets, \A i \in DOMAIN job'.changed : job'.changed[i].target # u
        PROVE  links'[u] = job'.before.links[u]
    <2>1. CASE u = Last.target
      BY <1>1, <1>2, <1>3, <2>1
    <2>2. CASE u # Last.target
      <3>1. \A i \in DOMAIN job.changed : job.changed[i].target # u
        BY <1>1, <1>5, <2>2 DEF Last
      <3> QED BY <1>1, <1>3, <2>2, <3>1 DEF LinksRestorable
    <2> QED BY <2>1, <2>2
  <1> QED BY <1>4, <1>5 DEF LinksRestorable

LEMMA AroundRestore ==
  ASSUME TypeOK, WholeInv, RestoreInv, Around, Running'
  PROVE  RestoreInv'
  <1> USE DEF Early, Switched, Steps
  <1>1. Running /\ LinksRestorable /\ CurrentRestorable
    BY AroundRuns DEF RestoreInv
  <1>2. LinksRestorable'
    <2>1. UNCHANGED links /\ job'.before = job.before
      BY AroundEffect DEF JobRest
    <2>2. job'.changed = job.changed \/ (job.changed = <<>> /\ job'.changed = <<>>)
      <3>1. CASE Smoke
        <4>1. job.changed = <<>>
          BY <1>1, <3>1 DEF Smoke, At, CurrentRestorable
        <4> QED BY <4>1, AroundEffect
      <3>2. CASE ~Smoke
        BY <3>2, Changed
           DEF Around, Stage, RecordOverride, Place, RewriteMetadata, Verify, replaceCurrent,
               ReconcileFails, Succeed, Undone, Unbind, Rebind, Crash, Goto, Jobs
      <3> QED BY <3>1, <3>2
    <2> QED BY <1>1, <2>1, <2>2 DEF LinksRestorable
  <1>3. CurrentRestorable'
    <2>1. job'.before = job.before
      BY AroundEffect DEF JobRest
    <2>2. CASE Stage \/ RecordOverride \/ Place \/ RewriteMetadata
      <3>1. PICK pc \in {"override", "place", "refused", "verify", "failed", "rewrite"} :
              Goto(pc)
        BY <2>2 DEF Stage, RecordOverride, Place, RewriteMetadata, Goto
      <3>2. UNCHANGED current /\ job.pc \in Early
        BY <2>2 DEF Stage, RecordOverride, Place, RewriteMetadata, At
      <3>3. job'.pc = pc /\ job'.changed = job.changed
        BY <3>1, GotoType DEF Ended
      <3> QED BY <1>1, <2>1, <3>1, <3>2, <3>3 DEF CurrentRestorable
    <2>3. CASE Verify
      <3>1. UNCHANGED current /\ job.pc = "verify"
        BY <2>3 DEF Verify, At
      <3>2. /\ job'.pc \in {"switch", "failed"} /\ job'.changed = job.changed
            /\ job'.previous = CurrentTarget
        BY <2>3, Changed DEF Verify, Jobs
      <3>3. CurrentTarget = current
        BY DEF CurrentTarget, WholeInv
      <3> QED BY <1>1, <2>1, <3>1, <3>2, <3>3 DEF CurrentRestorable
    <2>4. CASE replaceCurrent
      <3>1. /\ job.pc = "switch" /\ job'.pc = "smoke" /\ job'.changed = job.changed
            /\ job'.previous = job.previous
        BY <2>4, GotoType DEF replaceCurrent, At
      <3> QED BY <1>1, <2>1, <3>1 DEF CurrentRestorable
    <2>5. CASE Smoke
      <3>1. /\ job.pc = "smoke" /\ job'.pc \in {"unbind", "reconcile"}
            /\ job'.changed \in {job.changed, <<>>} /\ job'.previous = job.previous
        BY <2>5, Changed DEF Smoke, At, Goto, Jobs
      <3> QED BY <1>1, <2>1, <3>1 DEF CurrentRestorable
    <2>6. CASE ReconcileFails \/ Undone
      <3>1. PICK pc \in {"undo", "unbind"} :
              Goto(pc) /\ (pc = "unbind" => job.changed = <<>>)
        BY <2>6 DEF ReconcileFails, Undone, Goto
      <3>2. /\ job.pc \in Switched /\ job'.pc = pc /\ job'.changed = job.changed
            /\ job'.previous = job.previous
        BY <2>6, <3>1, GotoType DEF ReconcileFails, Undone, At
      <3> QED BY <1>1, <2>1, <3>1, <3>2 DEF CurrentRestorable
    <2>7. CASE Unbind
      <3>1. /\ job.pc = "unbind" /\ job'.pc = "rebind" /\ job'.changed = job.changed
            /\ job'.previous = job.previous
        BY <2>7, GotoType DEF Unbind, At
      <3> QED BY <1>1, <2>1, <3>1 DEF CurrentRestorable
    <2>8. CASE Succeed \/ Rebind \/ Crash
      <3>1. PICK pc \in Ended : Goto(pc)
        BY <2>8 DEF Succeed, Rebind, Crash, Ended
      <3>2. ~Running'
        BY <3>1, GotoType DEF Ended, Running
      <3> QED BY <3>2
    <2> QED BY <2>2, <2>3, <2>4, <2>5, <2>6, <2>7, <2>8 DEF Around
  <1> QED BY <1>2, <1>3 DEF RestoreInv

LEMMA NextRestore ==
  ASSUME TypeOK, WholeInv, ForeignInv, ChangedOnce, RestoreInv, [Next]_vars,
         Interference \cap {"prune", "user"} = {}
  PROVE  RestoreInv'
  <1>1. ASSUME NEW c \in Commits, Begin(c) PROVE RestoreInv'
    <2>1. /\ job'.before.links = links /\ job'.before.current = current
          /\ job'.changed = <<>> /\ (job'.pc = "stage" \/ job'.pc = "refused")
      BY <1>1, BeginJob
    <2>2. UNCHANGED <<links, current>>
      BY <1>1 DEF Begin
    <2> QED BY <2>1, <2>2
            DEF RestoreInv, LinksRestorable, CurrentRestorable, Switched, Running, Steps
  <1>2. CASE Around
    BY <1>2, AroundRestore DEF RestoreInv
  <1>3. CASE Others
    <2>1. UNCHANGED job /\ (Running => UNCHANGED <<links, current>>)
      BY <1>3, OthersEffect
         DEF Others, BeginPrune, PruneCrash, RemoveTree, Repoint, Occupy, Clear, Quiet
    <2> QED BY <2>1 DEF RestoreInv, LinksRestorable, CurrentRestorable, Running
  <1>4. CASE Relink /\ ~Around
    <2>1. /\ Running /\ job.pc \in {"reconcile", "link", "undo"}
          /\ UNCHANGED current /\ job'.previous = job.previous
          /\ job'.pc \in {"reconcile", "link", "undo"}
      <3>1. Running /\ Aside /\ SameCommit /\ job.pc \in {"reconcile", "link", "undo"}
        BY <1>4, RelinkAside
      <3>2. job'.pc \in {"reconcile", "link", "undo"}
        BY <1>4, <3>1, Changed
           DEF Relink, Around, RetireOrphan, LeaveLink, MoveOldLink, CreateLink, UndoLink,
               UndoMove, At, Jobs
      <3> QED BY <3>1, <3>2 DEF Aside, SameCommit
    <2>2. LinksRestorable' /\ job'.before = job.before
      <3>1. LinksRestorable
        BY <2>1 DEF RestoreInv
      <3>2. ASSUME NEW t \in Targets, LeaveLink(t)
            PROVE  LinksRestorable' /\ job'.before = job.before
        BY <3>1, <3>2, LeaveEffect DEF LinksRestorable, JobRest
      <3>3. ASSUME NEW t \in Targets, Move(t)
            PROVE  LinksRestorable' /\ job'.before = job.before
        BY <3>1, <3>3, MoveEffect, MoveRestorable DEF JobRest
      <3>4. CASE CreateLink \/ UndoLink
        BY <3>1, <3>4, FlagEffect, FlagRestorable DEF JobRest
      <3>5. CASE UndoMove
        BY <3>1, <3>5, PopEffect, PopRestorable DEF JobRest
      <3> QED BY <1>4, <3>2, <3>3, <3>4, <3>5 DEF Relink, Around, Move
    <2>3. CurrentRestorable'
      BY <2>1, <2>2 DEF RestoreInv, CurrentRestorable, Early, Switched
    <2> QED BY <2>2, <2>3 DEF RestoreInv
  <1>5. CASE UNCHANGED vars
    BY <1>5 DEF vars, RestoreInv, LinksRestorable, CurrentRestorable, Running
  <1> QED BY <1>1, <1>2, <1>3, <1>4, <1>5, Split DEF Relink, Move

LEMMA FailureRestores ==
  ASSUME TypeOK, RestoreInv, [Next]_vars, Becomes("failed")
  PROVE  current' = job.before.current /\ links' = job.before.links
  <1>1. Place \/ Verify \/ Rebind
    <2>1. job'.pc = "failed" /\ job.pc # "failed"
      BY DEF Becomes
    <2>2. ASSUME NEW c \in Commits, Begin(c) PROVE FALSE
      BY <2>1, <2>2, BeginJob
    <2>3. ~Others /\ ~UNCHANGED vars
      BY <2>1, OthersEffect DEF vars
    <2>4. ~Relink
      BY <2>1, RelinkAside
    <2>5. ASSUME NEW pc \in {"place", "override", "refused", "verify", "smoke", "rebind", "idle"},
                 Goto(pc)
          PROVE  FALSE
      BY <2>1, <2>5, GotoType DEF Steps, Ended
    <2>6. ~Stage /\ ~RecordOverride /\ ~RewriteMetadata /\ ~replaceCurrent /\ ~Unbind /\ ~Crash
      BY <2>5 DEF Stage, RecordOverride, RewriteMetadata, replaceCurrent, Unbind, Crash
    <2>7. ~Smoke
      BY <2>1, Changed DEF Smoke, Goto, Jobs
    <2> QED BY <2>2, <2>3, <2>4, <2>6, <2>7, Split DEF Around, Relink, Move
  <1>2. Running /\ job.pc \in {"place", "verify", "rebind"} /\ UNCHANGED links
    BY <1>1 DEF Place, Verify, Rebind, At, Running, Steps
  <1>3. job.changed = <<>> /\ \A t \in Targets : links[t] = job.before.links[t]
    BY <1>2 DEF RestoreInv, CurrentRestorable, LinksRestorable
  <1>4. links = job.before.links
    BY <1>3, Changed DEF TypeOK, Jobs
  <1>5. current' = job.before.current
    BY <1>1, <1>2 DEF Place, Verify, Rebind, At, RestoreInv, CurrentRestorable, Early, Switched
  <1> QED BY <1>2, <1>4, <1>5

\* Where nothing else runs beside an apply, one that fails leaves `current` and
\* every managed destination as it found them, wherever it failed.
THEOREM FailureChangesNothing ==
  Interference \cap {"prune", "user"} = {} => (Spec => FailedApplyRestores)
  <1> SUFFICES ASSUME Interference \cap {"prune", "user"} = {}
               PROVE  Spec => FailedApplyRestores
    OBVIOUS
  <1> DEFINE Inv == WholeInv /\ KeptInv /\ ForeignInv /\ RestoreInv
  <1>1. Init => Inv
    <2>1. Init => RestoreInv
      BY DEF Init, NewJob, RestoreInv, Running, Steps
    <2> QED BY <2>1, WholeInit, KeptInit, ForeignInit
  <1>2. TypeOK /\ Inv /\ [Next]_vars => Inv'
    <2> SUFFICES ASSUME TypeOK, Inv, [Next]_vars
                 PROVE  Inv'
      OBVIOUS
    <2>1. WholeInv' /\ KeptInv' /\ ForeignInv'
      BY NextWhole, NextKept, NextForeign
    <2>2. RestoreInv'
      BY NextRestore DEF KeptInv
    <2> QED BY <2>1, <2>2
  <1>3. TypeOK /\ Inv /\ [Next]_vars =>
          [Becomes("failed") => /\ current' = job.before.current
                                /\ links' = job.before.links]_vars
    BY FailureRestores
  <1> QED BY <1>1, <1>2, <1>3, TypeCorrect, PTL DEF Spec, FailedApplyRestores

-----------------------------------------------------------------------------
(* An apply that succeeds, whatever runs beside it *)

Installed(t) == links[t] = Through(Manifest[job.commit][t])
Pending(t) == job.pc = "link" /\ t = Last.target

\* Every destination that has been dealt with is as the manifest wants it.
DoneInv ==
  /\ job.pc \in {"smoke", "reconcile", "link"} => current = job.commit
  /\ job.pc \in {"reconcile", "link"} =>
       \A t \in Targets \ job.todo :
         IF t \in managedTargets(job.commit) THEN Installed(t) \/ Pending(t)
         ELSE ~IsInStore(links[t])

LEMMA RelinkDone ==
  ASSUME TypeOK, DoneInv, Relink
  PROVE  DoneInv'
  <1>1. /\ current' = current /\ job'.commit = job.commit
    BY RelinkAside DEF Aside, SameCommit
  <1>2. ASSUME NEW t \in Targets, Move(t) PROVE DoneInv'
    <2>1. job.pc = "reconcile" /\ current = job.commit
      BY <1>2 DEF Move, RetireOrphan, MoveOldLink, At, DoneInv
    <2>2. \A u \in Targets : links'[u] = IF u = t THEN Nothing ELSE links[u]
      BY <1>2, MoveEffect DEF TypeOK
    <2>3. t \in managedTargets(job.commit) => job'.pc = "link" /\ Last'.target = t
      <3>1. SUFFICES ASSUME MoveOldLink(t) PROVE job'.pc = "link" /\ Last'.target = t
        BY <1>2 DEF Move, RetireOrphan
      <3>2. job'.pc = "link"
        BY <3>1, Changed DEF MoveOldLink, Jobs
      <3>3. Last' = Entry(t)
        BY <1>2, MoveEffect DEF Last
      <3> QED BY <3>2, <3>3 DEF Entry
    <2>4. \A u \in Targets \ job'.todo : u = t \/ u \notin job.todo
      BY <1>2, MoveEffect
    <2>5. ASSUME NEW u \in Targets \ job'.todo
          PROVE  IF u \in managedTargets(job.commit)
                 THEN \/ links'[u] = Through(Manifest[job.commit][u])
                      \/ job'.pc = "link" /\ u = Last'.target
                 ELSE ~IsInStore(links'[u])
      <3>1. CASE u = t
        BY <2>2, <2>3, <3>1, NothingForeign DEF IsInStore
      <3>2. CASE u # t
        <4>1. u \notin job.todo /\ links'[u] = links[u]
          BY <2>2, <2>4, <3>2
        <4>2. IF u \in managedTargets(job.commit) THEN Installed(u) ELSE ~IsInStore(links[u])
          BY <2>1, <4>1 DEF DoneInv, Pending
        <4> QED BY <4>1, <4>2 DEF Installed, IsInStore
      <3> QED BY <3>1, <3>2
    <2> QED BY <1>1, <2>1, <2>5 DEF DoneInv, Installed, Pending, managedTargets, IsInStore
  <1>3. ASSUME NEW t \in Targets, LeaveLink(t) PROVE DoneInv'
    <2>1. /\ job.pc = "reconcile" /\ job'.pc = "reconcile" /\ UNCHANGED links
          /\ job'.todo = job.todo \ {t}
      BY <1>3, Changed DEF LeaveLink, At, Jobs
    <2>2. Installed(t) /\ t \in managedTargets(job.commit)
      <3>1. /\ links[t] \in Occupants /\ links[t].via = "current"
            /\ links[t].path = Manifest[job.commit][t]
        BY <1>3 DEF LeaveLink, UpToDate, TypeOK
      <3>2. links[t] \in [via : {"current", "source"} \cup Commits, path : Paths]
        BY <3>1 DEF Occupants, Foreign, Nothing
      <3> QED BY <1>3, <3>1, <3>2 DEF Installed, Through, LeaveLink
    <2> QED BY <1>1, <2>1, <2>2 DEF DoneInv, Installed, Pending, managedTargets
  <1>4. CASE CreateLink
    <2>1. /\ job.pc = "link" /\ job'.pc = "reconcile" /\ job'.todo = job.todo
      BY <1>4, Changed DEF CreateLink, At, Jobs
    <2>2. \A u \in Targets :
            links'[u] = IF u = Last.target THEN Through(Manifest[job.commit][u]) ELSE links[u]
      BY <1>4 DEF CreateLink, TypeOK
    <2>3. Last.target \in managedTargets(job.commit)
      BY <2>1 DEF TypeOK
    <2> QED BY <1>1, <2>1, <2>2, <2>3
            DEF DoneInv, Installed, Pending, managedTargets, IsInStore
  <1>5. CASE ReconcileFails \/ Succeed \/ UndoLink \/ UndoMove \/ Undone
    <2>1. job'.pc \in {"undo", "done", "unbind"}
      BY <1>5, Changed
         DEF ReconcileFails, Succeed, UndoLink, UndoMove, Undone, At, Goto, Jobs
    <2> QED BY <2>1 DEF DoneInv
  <1> QED BY <1>2, <1>3, <1>4, <1>5 DEF Relink, Move

LEMMA NextDone ==
  ASSUME TypeOK, DoneInv, [Next]_vars
  PROVE  DoneInv'
  <1>1. ASSUME NEW c \in Commits, Begin(c) PROVE DoneInv'
    BY <1>1, BeginJob DEF DoneInv
  <1>2. CASE Relink
    BY <1>2, RelinkDone
  <1>3. CASE Others
    <2>1. /\ UNCHANGED job /\ (Running => UNCHANGED current)
          /\ Running => \A t \in Targets :
               links'[t] = links[t] \/ (links[t] = Nothing /\ links'[t] = Foreign)
      BY <1>3 DEF Others, BeginPrune, PruneCrash, RemoveTree, Repoint, Occupy, Clear, TypeOK
    <2>2. CASE job.pc \in {"smoke", "reconcile", "link"}
      <3>1. Running
        BY <2>2 DEF Running, Steps
      <3>2. ASSUME NEW t \in Targets, Installed(t) PROVE links'[t] = links[t]
        BY <2>1, <3>1, <3>2, NothingForeign DEF Installed
      <3>3. ASSUME NEW t \in Targets, ~IsInStore(links[t]) PROVE ~IsInStore(links'[t])
        BY <2>1, <3>1, <3>3, NothingForeign
      <3> QED BY <2>1, <3>1, <3>2, <3>3
              DEF DoneInv, Installed, Pending, Last, managedTargets, IsInStore
    <2>3. CASE job.pc \notin {"smoke", "reconcile", "link"}
      BY <2>1, <2>3 DEF DoneInv
    <2> QED BY <2>2, <2>3
  <1>4. CASE Smoke
    <2>1. /\ job.pc = "smoke" /\ UNCHANGED <<current, links>> /\ job'.commit = job.commit
      BY <1>4, Changed DEF Smoke, At, Goto, Jobs
    <2>2. \/ job'.pc = "unbind"
          \/ /\ job'.pc = "reconcile"
             /\ job'.todo = orphanManagedLinks(job.commit) \cup managedTargets(job.commit)
      BY <1>4, Changed DEF Smoke, Goto, Jobs
    <2> QED BY <2>1, <2>2
            DEF DoneInv, Installed, Pending, orphanManagedLinks, managedTargets, IsInStore
  <1>5. CASE replaceCurrent
    <2>1. job'.pc = "smoke" /\ job'.commit = job.commit
      BY <1>5, GotoType DEF replaceCurrent, Steps
    <2> QED BY <1>5, <2>1 DEF replaceCurrent, DoneInv
  <1>6. CASE Around /\ ~Smoke /\ ~replaceCurrent /\ ~Relink
    <2>1. job'.pc \notin {"smoke", "reconcile", "link"}
      <3>1. CASE Verify
        BY <3>1, Changed DEF Verify, Jobs
      <3>2. CASE ~Verify
        <4>1. PICK pc \in {"override", "place", "refused", "verify", "failed", "rewrite",
                           "rebind", "idle"} : Goto(pc)
          BY <1>6, <3>2 DEF Around, Relink, Stage, RecordOverride, Place, RewriteMetadata,
                            Unbind, Rebind, Crash, Goto
        <4> QED BY <4>1, GotoType DEF Steps, Ended
      <3> QED BY <3>1, <3>2
    <2> QED BY <2>1 DEF DoneInv
  <1>7. CASE UNCHANGED vars
    BY <1>7 DEF vars, DoneInv, Installed, Pending, Last, managedTargets, IsInStore
  <1> QED BY <1>1, <1>2, <1>3, <1>4, <1>5, <1>6, <1>7, Split DEF Relink, Move

LEMMA SuccessInstalls ==
  ASSUME TypeOK, DoneInv, [Next]_vars, Becomes("done")
  PROVE  /\ current' = job.commit
         /\ \A t \in managedTargets(job.commit) :
              links'[t] = Through(Manifest[job.commit][t])
         /\ \A t \in Targets \ managedTargets(job.commit) : ~IsInStore(links'[t])
  <1>1. job'.pc = "done" /\ job.pc # "done"
    BY DEF Becomes
  <1>2. ASSUME NEW c \in Commits, Begin(c) PROVE FALSE
    BY <1>1, <1>2, BeginJob
  <1>3. ~Others /\ ~UNCHANGED vars
    BY <1>1, OthersEffect DEF vars
  <1>4. ASSUME NEW pc \in (Steps \cup Ended) \ {"done"}, Goto(pc) PROVE FALSE
    BY <1>1, <1>4, GotoType
  <1>5. ~(\/ Stage \/ RecordOverride \/ RewriteMetadata \/ replaceCurrent
          \/ ReconcileFails \/ Undone \/ Unbind \/ Rebind \/ Crash \/ Place)
    BY <1>4 DEF Stage, RecordOverride, RewriteMetadata, replaceCurrent, ReconcileFails,
                Undone, Unbind, Rebind, Crash, Place, Steps, Ended
  <1>6. ~Verify /\ ~Smoke
    BY <1>1, Changed DEF Verify, Smoke, Goto, Jobs
  <1>7. ~(CreateLink \/ UndoLink \/ UndoMove) /\ \A t \in Targets : ~Move(t) /\ ~LeaveLink(t)
    BY <1>1, Changed DEF CreateLink, UndoLink, UndoMove, Move, RetireOrphan, MoveOldLink,
                         LeaveLink, At, Jobs
  <1>8. Succeed
    BY <1>2, <1>3, <1>5, <1>6, <1>7, Split DEF Around
  <1>9. job.pc = "reconcile" /\ job.todo = {} /\ UNCHANGED <<current, links>>
    BY <1>8 DEF Succeed, At
  <1>10. managedTargets(job.commit) \subseteq Targets
    BY <1>9, CommitOfJob, ManifestsAssumption DEF managedTargets, Running, Steps
  <1> QED BY <1>9, <1>10 DEF DoneInv, Installed, Pending

\* An apply that reports success has installed its commit.
THEOREM SuccessMeansInstalled == Spec => DoneMeansInstalled
  <1>1. Init => DoneInv
    BY DEF Init, NewJob, DoneInv
  <1>2. TypeOK /\ DoneInv /\ [Next]_vars => DoneInv'
    BY NextDone
  <1>3. TypeOK /\ DoneInv /\ [Next]_vars =>
          [Becomes("done") =>
             /\ current' = job.commit
             /\ \A t \in managedTargets(job.commit) :
                  links'[t] = Through(Manifest[job.commit][t])
             /\ \A t \in Targets \ managedTargets(job.commit) : ~IsInStore(links'[t])]_vars
    BY SuccessInstalls
  <1> QED BY <1>1, <1>2, <1>3, TypeCorrect, PTL DEF Spec, DoneMeansInstalled

=============================================================================
