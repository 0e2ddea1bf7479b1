--------------------------- MODULE OutcomeCapsule ---------------------------
(* Outcome capsules and the workflow runs they owe the cleanup of:             *)
(* krn state compile, check and resume (scripts/lib/state/).                   *)
(*                                                                             *)
(* A capsule is a directory of .krn/runs/delivery-loop, or a link to one, with *)
(* its state.md; a run is a directory of another workflow under .krn/runs, or  *)
(* a link to one. Two names of each are modelled, and of a capsule's text what *)
(* the check tells apart. Warnings, field wording and the lessons page's own   *)
(* findings are left out.                                                      *)
EXTENDS Integers, FiniteSets

CONSTANTS
  CapsuleTexts,          \* what a state.md may say
  CapsuleStores,         \* how the capsules' and runs' names may start, and the texts
  Candidates,     \* frictions a capsule may name as lesson candidates
  HandEdits,      \* which hands are at work: a subset of Hands
  MaxHands        \* bound on the changes after the start

VARIABLES
  named,          \* [capsule, run]: what each name is
  texts,          \* the state.md of each directory
  around,         \* [head, tracked, evidence, unlistable, ignored]
  draft,          \* what compile printed last, not saved yet
  handsOn         \* changes so far

capsuleVars == <<named, texts, around, draft, handsOn>>

Hands == {"rename", "commit", "track", "remove", "unlist", "unignore"}

Names == {1, 2}

Kinds == {"absent", "directory", "alias", "elsewhere", "outside", "broken"}

\* Directories: those of the names, one elsewhere in the repository (ignored as
\* the runs are) and one outside.
Nowhere  == 0
FarOff   == 3
Outside  == 4

Contained == Names \cup {FarOff}

\* A text that is not there, and one that cannot be read.
NoState    == [form |-> "none"]
Unreadable == [form |-> "unreadable"]

OutcomeStates == {"ACTIVE", "BLOCKED", "DEFERRED", "NEEDS_REVIEW", "COMPLETE",
                  "SUPERSEDED", "ABANDONED"}

\* What the check tells apart in a text that it reads.
Says ==
  [form : {"whole", "malformed-cleanup", "placeholder"}, outcome : OutcomeStates,
   head : Int, acceptance : {"todo", "pass", "malformed"},
   owes : SUBSET [run : Names, state : {"ACTIVE", "CLEANUP_PENDING", "BLOCKED"}],
   candidates : SUBSET Candidates, prose : BOOLEAN,
   restart : {"ABSENT", "there", "gone", "outside"},
   review : {"none", "pending", "prose", "evidence"}, participant : {"none", "active"},
   next : BOOLEAN]

Stores ==
  [named : [{"capsule", "run"} -> [Names -> Kinds]],
   texts : [Contained -> Says \cup {NoState, Unreadable}]]

ASSUME CapsuleAssumption == CapsuleTexts \subseteq Says /\ CapsuleStores \subseteq Stores

-----------------------------------------------------------------------------
(* Names and what they are names of. *)

IsLink(is, n) == is[n] \in Kinds \ {"absent", "directory"}

\* realpath: an alias is a link to the other name.
Straight(is, n) ==
  CASE is[n] = "directory" -> n
    [] is[n] = "elsewhere" -> FarOff
    [] is[n] = "outside"   -> Outside
    [] OTHER               -> Nowhere

Realpath(is, n) == Straight(is, IF is[n] = "alias" THEN 3 - n ELSE n)

\* Slip: a run is known by its name.
Identity_ByName(n) == n

\* normalizeRunPointer, and the owner's key: what a pointer resolves to, or
\* else its name, which is also that of the directory it would be.
Identity(n) == IF Realpath(named.run, n) # Nowhere THEN Realpath(named.run, n) ELSE n

\* runDirectoriesDetailed.
RunList == IF "runs" \in around.unlistable THEN {}
           ELSE {r \in Names : named.run[r] # "absent"}

-----------------------------------------------------------------------------
(* capsuleStoreReport. *)

Entries == IF "store" \in around.unlistable THEN {}
           ELSE {c \in Names : named.capsule[c] # "absent"}

PlaceOf(c) == Realpath(named.capsule, c)

EntryError(c) ==
  IF PlaceOf(c) = Nowhere THEN "unreadable-capsule"
  ELSE IF PlaceOf(c) \notin Contained THEN "capsule-outside-repo"
  ELSE IF texts[PlaceOf(c)] = NoState THEN "capsule-state-missing"
  ELSE IF texts[PlaceOf(c)] = Unreadable THEN "unreadable-capsule"
  ELSE "none"

\* A directory is read once, under its own name before a link's.
Again(c) ==
  \E d \in Entries \ {c} :
    /\ PlaceOf(d) = PlaceOf(c) /\ PlaceOf(c) # Nowhere
    /\ IF IsLink(named.capsule, d) = IsLink(named.capsule, c) THEN d < c
       ELSE IsLink(named.capsule, c)

Capsules == {c \in Entries : EntryError(c) = "none" /\ ~ Again(c)}

StateOf(c) == texts[PlaceOf(c)]

-----------------------------------------------------------------------------
(* What the check says of a capsule. *)

Complete(t) == t.outcome = "COMPLETE"

\* parseCleanup of the cleanup field, and who owns what it lists.
Owed(c) == {o.run : o \in StateOf(c).owes}

CleanupErrors(c) ==
  {e \in {"malformed-cleanup", "duplicate-run-consumer", "cleanup-pointer-outside-repo",
          "ghost-cleanup-entry"} :
     CASE e = "malformed-cleanup" -> StateOf(c).form = "malformed-cleanup"
       [] e = "duplicate-run-consumer" ->
            \E d \in Capsules : d # c /\ \E r \in Owed(c), s \in Owed(d) :
                                           Identity(r) = Identity(s)
       [] e = "cleanup-pointer-outside-repo" ->
            \E r \in Owed(c) : Realpath(named.run, r) = Outside
       [] OTHER ->
            \E o \in StateOf(c).owes : /\ o.state \in {"ACTIVE", "BLOCKED"}
                                    /\ Realpath(named.run, o.run) = Nowhere}

\* frictionFindings: a candidate drains when a lesson or a ticket takes it up.
FrictionErrors(t) ==
  {e \in {"dangling-candidate", "complete-with-friction"} :
     IF e = "dangling-candidate" THEN Complete(t) /\ ~ t.candidates \subseteq around.tracked
     ELSE Complete(t) /\ t.prose}

\* The fixed point: a commit (1 ..), none (0), or no commit of the repository.
NoCommitToken == -1

FixedPointErrors(t) ==
  {e \in {"invalid-fixed-point", "missing-fixed-point", "complete-without-commit-anchor",
          "stale-fixed-point"} :
     CASE e = "invalid-fixed-point" -> t.head = NoCommitToken
       [] e = "missing-fixed-point" -> t.head = 0 /\ t.outcome = "ACTIVE"
       [] e = "complete-without-commit-anchor" -> Complete(t) /\ t.head < 1
       [] OTHER -> Complete(t) /\ t.head > 0 /\ t.head # around.head}

RestartErrors(t) ==
  {e \in {"restart-path-outside-repo", "restart-path-missing"} :
     t.restart = IF e = "restart-path-missing" THEN "gone" ELSE "outside"}

\* The review names evidence, and the evidence is there.
ReviewErrors(t) ==
  {e \in {"complete-with-pending-review", "complete-review-without-evidence",
          "complete-review-evidence-unresolved"} :
     CASE e = "complete-with-pending-review"     -> t.review = "pending"
       [] e = "complete-review-without-evidence" -> t.review = "prose"
       [] OTHER -> t.review = "evidence" /\ ~ around.evidence}

CompleteErrors(t) ==
  IF ~ Complete(t) THEN {}
  ELSE ReviewErrors(t) \cup
       {e \in {"complete-with-open-acceptance", "complete-with-cleanup",
               "complete-with-restart", "complete-with-active-participant"} :
          CASE e = "complete-with-open-acceptance" -> t.acceptance = "todo"
            [] e = "complete-with-cleanup"         -> t.owes # {}
            [] e = "complete-with-restart"         -> t.restart # "ABSENT"
            [] OTHER                               -> t.participant = "active"}

\* A missing, doubled, unfilled or overlong field, or a state there is none of.
FormErrors(t) ==
  {e \in {"malformed-field", "malformed-acceptance", "active-without-next"} :
     CASE e = "malformed-field"      -> t.form \notin {"whole", "malformed-cleanup"}
       [] e = "malformed-acceptance" -> t.acceptance = "malformed"
       [] OTHER                      -> t.outcome = "ACTIVE" /\ ~ t.next}

CapsuleErrors(c) ==
  CleanupErrors(c) \cup FrictionErrors(StateOf(c)) \cup FixedPointErrors(StateOf(c))
    \cup RestartErrors(StateOf(c)) \cup CompleteErrors(StateOf(c)) \cup FormErrors(StateOf(c))
    \cup (IF around.ignored THEN {} ELSE {"runs-not-ignored"})

\* Every run listed by no capsule, once there are capsules.
Orphans == {r \in RunList : \A c \in Capsules : \A s \in Owed(c) : Identity(s) # Identity(r)}

inspectSpineState ==
  [capsules |-> Capsules,
   errors   |->
     {[id |-> c, rule |-> EntryError(c)] : c \in {d \in Entries : EntryError(d) # "none" /\ ~ Again(d)}}
       \cup (UNION {{[id |-> c, rule |-> e] : e \in CapsuleErrors(c)} : c \in Capsules})
       \cup (IF Capsules = {} THEN {} ELSE {[id |-> r, rule |-> "orphaned-run"] : r \in Orphans})
       \cup {[id |-> 0, rule |-> u] : u \in around.unlistable}]

Status ==
  IF inspectSpineState.errors # {} THEN "divergent"
  ELSE IF inspectSpineState.capsules # {} THEN "clean" ELSE "not-applicable"

-----------------------------------------------------------------------------
(* resumeBrief: a capsule's cleanup against the runs there are. *)

\* Pointers resolve, the runs' own names do not.
MissingRuns(c) == {Identity(r) : r \in Owed(c)} \ RunList

UnlistedRuns(c) == {Identity(r) : r \in RunList} \ {Identity(r) : r \in Owed(c)}

\* compileCapsule: every run is listed, whoever owns it already.
Compiled ==
  [form |-> "whole", outcome |-> "ACTIVE", head |-> around.head, acceptance |-> "todo",
   owes |-> {[run |-> r, state |-> "ACTIVE"] : r \in RunList}, candidates |-> {},
   prose |-> FALSE, restart |-> "ABSENT", review |-> "pending", participant |-> "none",
   next |-> TRUE]

-----------------------------------------------------------------------------

CapsuleInit ==
  /\ \E start \in CapsuleStores : named = start.named /\ texts = start.texts
  /\ around = [head |-> 1, tracked |-> {}, evidence |-> TRUE, unlistable |-> {}, ignored |-> TRUE]
  /\ draft = NoState
  /\ handsOn = 0

Hand(hand) == handsOn < MaxHands /\ hand \in HandEdits /\ handsOn' = handsOn + 1

Compile ==
  /\ handsOn < MaxHands /\ draft # Compiled
  /\ draft' = Compiled
  /\ handsOn' = handsOn + 1
  /\ UNCHANGED <<named, texts, around>>

\* The draft, its placeholders filled in, becomes a capsule.
Save(c) ==
  /\ draft # NoState /\ named.capsule[c] = "absent"
  /\ named' = [named EXCEPT !.capsule[c] = "directory"]
  /\ texts' = [texts EXCEPT ![c] = draft]
  /\ draft' = NoState
  /\ UNCHANGED <<around, handsOn>>

\* The owner of a capsule writes it anew.
WriteText(place) ==
  /\ handsOn < MaxHands /\ handsOn' = handsOn + 1
  /\ texts[place].form \notin {"none", "unreadable"}
  /\ \E text \in CapsuleTexts : texts' = [texts EXCEPT ![place] = text]
  /\ UNCHANGED <<named, around, draft>>

RenameEntry ==
  /\ Hand("rename")
  /\ \E what \in {"capsule", "run"}, n \in Names, kind \in Kinds :
       /\ kind # named[what][n]
       /\ named' = [named EXCEPT ![what][n] = kind]
  /\ UNCHANGED <<texts, around, draft>>

ChangeAround(hand, field, value) ==
  /\ Hand(hand) /\ value # around[field]
  /\ around' = [around EXCEPT ![field] = value]
  /\ UNCHANGED <<named, texts, draft>>

CapsuleNext ==
  \/ Compile
  \/ \E c \in Names : Save(c)
  \/ \E place \in Contained : WriteText(place)
  \/ RenameEntry
  \/ ChangeAround("commit", "head", around.head + 1)
  \/ \E tracked \in SUBSET Candidates : ChangeAround("track", "tracked", tracked)
  \/ ChangeAround("remove", "evidence", FALSE)
  \/ \E unlistable \in SUBSET {"store", "runs"} : ChangeAround("unlist", "unlistable", unlistable)
  \/ ChangeAround("unignore", "ignored", FALSE)

CapsuleSpec == CapsuleInit /\ [][CapsuleNext]_capsuleVars

-----------------------------------------------------------------------------
(* Properties. *)

\* The directories that are capsules, and those that list a run by some name.
CapsulePlaces == {p \in Contained : \E c \in Names : named.capsule[c] # "absent" /\ PlaceOf(c) = p}

OwnersOf(run) ==
  {p \in CapsulePlaces : \E o \in texts[p].owes : Realpath(named.run, o.run) = run}

\* A clean check accounts for every run: exactly one capsule answers for each, by
\* whatever names run and capsule go; a complete capsule stands at HEAD, its
\* evidence is there and its candidates were taken up; and resume then shows no
\* run under .krn/runs as missing that is there, nor a run that every capsule fails
\* to list ("resume normalizes cleanup
\* pointers so a live run is neither missing nor unlisted",
\* test/state/state-brief.test.mjs:221; state-check.mjs:70-77, 327-347, 400-407).
CleanIsAccounted ==
  Status = "clean" =>
    /\ \A r \in Names :
         Realpath(named.run, r) # Nowhere => Cardinality(OwnersOf(Realpath(named.run, r))) = 1
    /\ \A p \in CapsulePlaces : Complete(texts[p]) =>
         /\ texts[p].head = around.head
         /\ texts[p].candidates \subseteq around.tracked
         /\ texts[p].review = "evidence" => around.evidence
    /\ \A c \in Capsules : \A r \in Owed(c) :
         Realpath(named.run, r) \in Names => Identity(r) \notin MissingRuns(c)
    /\ \A r \in RunList : \E c \in Capsules : Identity(r) \notin UnlistedRuns(c)
=============================================================================
