------------------------------ MODULE Lessons ------------------------------
(* Workflow memory: the rows of docs/research/workflow-lessons.md, the commits *)
(* that prove them, and the re-anchoring of those proofs                       *)
(* (scripts/lib/lessons/lessons.mjs and lessons-verify.mjs).                   *)
(*                                                                             *)
(* An active row names gate files, a falsifier `test::case@commit` and the     *)
(* commits at which its friction occurred. A commit is a number; its record    *)
(* says which files it changes, which gate files its tree holds and which      *)
(* lessons' cases pass in its tree. Git's history is a line that --amend may   *)
(* fork; merges are left out, and so are the page's layout, triggers and       *)
(* retired rows. `recent` is a page on disk; whether it is committed shows in  *)
(* `clean` alone.                                                              *)
EXTENDS Integers, Sequences, FiniteSets, FiniteSetsExt

CONSTANTS
  Lessons,        \* active rows
  GateFiles,      \* files that enforce lessons
  TestOf,         \* the falsifier's test file of each lesson, never a gate
  GatesOf,        \* the gate files each row names
  MaxCommits      \* bound on the commits

ASSUME LessonsAssumption == GatesOf \in [Lessons -> SUBSET GateFiles]

VARIABLES
  commits,        \* what each commit is
  tip,            \* HEAD
  recent,         \* each row: its falsifier's anchor and its occurrences
  clean,          \* git status --porcelain is empty
  anew            \* the re-anchoring run

lessonVars == <<commits, tip, recent, clean, anew>>

Tests == {TestOf[l] : l \in Lessons}

\* A commit and what it descends from.
LineOf[c \in 0 .. Len(commits)] ==
  IF c = 0 THEN {} ELSE {c} \cup LineOf[commits[c].parent]

Green(l, c) == l \in commits[c].green

-----------------------------------------------------------------------------
(* What checkLessons says of a row. *)

\* The gates of a row that resolve to a file.
ResolvedGates(l, c) == GatesOf[l] \cap commits[c].files

\* git log <since>..HEAD -- <paths>.
Changes(since, paths) ==
  {c \in LineOf[tip] \ LineOf[since] : commits[c].changes \cap paths # {}}

\* resolveFalsifier: the anchor is not in HEAD's history.
StrayAnchor(l) == recent[l].anchor \notin LineOf[tip]

\* proofWarnings.
Stale(l) == Changes(recent[l].anchor, {TestOf[l]} \cup ResolvedGates(l, tip)) # {}

\* recurrenceAfterProof.
Recurred(l) ==
  {o \in recent[l].seen \ {recent[l].anchor} : recent[l].anchor \in LineOf[o]}

LessonErrors(l) ==
  {e \in {"gate", "stray", "stale", "recurred"} :
     CASE e = "gate"     -> ResolvedGates(l, tip) # GatesOf[l] \/ GatesOf[l] = {}
       [] e = "stray"    -> StrayAnchor(l)
       [] e = "stale"    -> ~ StrayAnchor(l) /\ Stale(l)
       [] e = "recurred" -> ~ StrayAnchor(l) /\ Recurred(l) # {}}

-----------------------------------------------------------------------------
(* The repository moves on. *)

Commit(parent, changes, files, green) ==
  /\ Len(commits) < MaxCommits
  /\ \A g \in GateFiles : (g \in files) # (g \in commits[parent].files) => g \in changes
  /\ commits' = Append(commits, [parent |-> parent, changes |-> changes,
                                 files |-> files, green |-> green])
  /\ tip' = Len(commits')
  /\ clean' = TRUE
  /\ UNCHANGED <<recent, anew>>

CommitOnTop ==
  \E changes \in SUBSET (Tests \cup GateFiles), files \in SUBSET GateFiles,
     green \in SUBSET Lessons : Commit(tip, changes, files, green)

Amend ==
  /\ commits[tip].parent # 0
  /\ \E changes \in SUBSET (Tests \cup GateFiles), files \in SUBSET GateFiles,
        green \in SUBSET Lessons :
       Commit(commits[tip].parent, changes, files, green)

\* The friction is met again and its commit noted in the row.
Occurs(l) ==
  /\ tip \notin recent[l].seen
  /\ recent' = [recent EXCEPT ![l].seen = @ \cup {tip}]
  /\ clean' = FALSE
  /\ UNCHANGED <<commits, tip, anew>>

-----------------------------------------------------------------------------
(* reanchorLessons. *)

Idle == [at |-> "idle", todo |-> {}, row |-> {}, to |-> 0, done |-> {},
         head |-> 0, was |-> <<>>, gates |-> <<>>, text |-> <<>>]

\* The check's report, then the page's text; an unclean checkout stops the run.
\* The gates are those that resolve now.
StartReanchor ==
  /\ anew.at = "idle"
  /\ anew' = [Idle EXCEPT !.at = "read", !.was = recent, !.head = tip, !.todo = Lessons,
                          !.gates = [l \in Lessons |-> ResolvedGates(l, tip)]]
  /\ UNCHANGED <<commits, tip, recent, clean>>

ReadPage ==
  /\ anew.at = "read"
  /\ anew' = IF clean THEN [anew EXCEPT !.at = "next", !.text = recent] ELSE Idle
  /\ UNCHANGED <<commits, tip, recent, clean>>

\* The newest commit since the anchor that changed the test or a gate.
Newest(l) ==
  Max({0} \cup Changes(anew.was[l].anchor, {TestOf[l]} \cup anew.gates[l]))

\* Nothing changed since the anchor, or the case fails here: the row stays as it
\* is. Otherwise the newest commit is the candidate.
NextRow(l) ==
  /\ anew.at = "next" /\ l \in anew.todo
  /\ anew' = IF Newest(l) = 0 \/ ~ Green(l, tip)
             THEN [anew EXCEPT !.todo = @ \ {l}]
             ELSE [anew EXCEPT !.todo = @ \ {l}, !.at = "candidate",
                               !.row = {l}, !.to = Newest(l)]
  /\ UNCHANGED <<commits, tip, recent, clean>>

\* Slip: the run in the checkout is proof enough.
CandidateGreen_Here(l) == TRUE

\* The case in a worktree of the candidate.
CandidateGreen(l) == Green(l, anew.to)

\* The token is replaced in the cell of the row that holds the old one.
Candidate(l) ==
  /\ anew.at = "candidate" /\ anew.row = {l}
  /\ anew' = IF CandidateGreen(l) /\ anew.text[l].anchor = anew.was[l].anchor
             THEN [anew EXCEPT !.at = "next", !.row = {}, !.to = 0,
                               !.text[l].anchor = anew.to, !.done = @ \cup {l}]
             ELSE [anew EXCEPT !.at = "next", !.row = {}, !.to = 0]
  /\ UNCHANGED <<commits, tip, recent, clean>>

\* The text as read and edited replaces the page, whatever is there by now.
SavePage ==
  /\ anew.at = "next" /\ anew.todo = {}
  /\ recent' = IF anew.done # {} THEN anew.text ELSE recent
  /\ clean' = (clean /\ recent' = recent)
  /\ anew' = Idle
  /\ UNCHANGED <<commits, tip>>

LessonInit ==
  /\ \E files \in SUBSET GateFiles, green \in SUBSET Lessons :
       commits = <<[parent |-> 0, changes |-> {}, files |-> files, green |-> green]>>
  /\ tip = 1
  /\ recent = [l \in Lessons |-> [anchor |-> 1, seen |-> {1}]]
  /\ clean = TRUE
  /\ anew = Idle

LessonNext ==
  \/ CommitOnTop \/ Amend \/ StartReanchor \/ ReadPage \/ SavePage
  \/ \E l \in Lessons : Occurs(l) \/ NextRow(l) \/ Candidate(l)

LessonSpec == LessonInit /\ [][LessonNext]_lessonVars

-----------------------------------------------------------------------------
(* Properties. *)

\* "bumps an anchor only when the named case stays green, so drift is confirmed
\* rather than blessed" (docs/research/workflow-lessons.md:29): at the commit a
\* run writes into a row, the row's case passes and its test or a gate changed.
\* The check is then content with the proof, unless HEAD moved meanwhile, and it
\* drops a recurrence only when that commit comes after the recurrence or the
\* recurrence is no longer in HEAD's history.
AnchorsProven ==
  [][\A l \in anew.done : SavePage =>
       LET to == recent'[l].anchor IN
         /\ Green(l, to)
         /\ commits[to].changes \cap ({TestOf[l]} \cup GatesOf[l]) # {}
         /\ to \in LineOf[tip] =>
              \/ LessonErrors(l)' \cap {"stray", "stale"} = {}
              \/ tip # anew.head
         /\ \A o \in Recurred(l) \ Recurred(l)' :
              \/ o \in LineOf[to]
              \/ o \notin LineOf[tip]
              \/ o \notin recent'[l].seen]_lessonVars
=============================================================================
