--------------------------- MODULE ChangeContract ---------------------------
(* krn-codex changes check --before: what each commit of a range declares of a *)
(* check (`Change-contract: ref: red -> green`, `At-risk: ref`), against what  *)
(* the check does at the head and before the commit                            *)
(* (scripts/lib/contract/change-contract.mjs and change-contract-runs.mjs).    *)
(*                                                                             *)
(* The repository of the model: one source module, one test file and one npm   *)
(* script. A source is the set of test cases it makes pass. A test file is its *)
(* cases (none: there is no file) and those a source must have for it to load. *)
(* The script is absent, runs the test file by name, or is not a literal       *)
(* command. Recall of lessons and warnings are left out.                       *)
EXTENDS Integers, Sequences, FiniteSets

CONSTANTS
  Sources,        \* what a source may make pass
  TestFiles,      \* what the test file may be: [cases, needs]
  Scripts,        \* what the script may be: [base, now]
  Declarations,   \* what a commit may say: sets of [ref, before, after, risk]
  MaxRange        \* bound on the commits of a range

VARIABLES
  range,          \* commits: [source, test, files, says], first the base; script
  judged          \* the errors found, once judged

contractVars == <<range, judged>>

\* contractSurface, of the model's files.
Surface == {"source", "test", "other"}

BaseCommit == 1
HeadCommit == Len(range.commits)
Declaring  == 2 .. HeadCommit

NoTest == [cases |-> {}, needs |-> {}]

At_(i) == range.commits[i]

-----------------------------------------------------------------------------
(* runCheck and runCheckAtBase: a test file run on a source. The script, where *)
(* it gets this far, runs the test file.                                       *)

RunOn(test, source) ==
  LET loads == test # NoTest /\ test.needs \subseteq source IN
  [setup   |-> ~ loads,
   passing |-> IF loads THEN test.cases \cap source ELSE {},
   failing |-> IF loads THEN test.cases \ source ELSE {},
   ok      |-> loads /\ test.cases \subseteq source]

AtHead == RunOn(At_(HeadCommit).test, At_(HeadCommit).source)

\* The commit's parent as it is.
BeforePlain(i) == RunOn(At_(i - 1).test, At_(i - 1).source)

\* Slip: a frozen observer is run at the parent with the parent's test.
Before_NoOverlay(i, frozen) == BeforePlain(i)

\* A frozen observer is the commit's test laid over the commit's parent.
Before(i, frozen) ==
  IF frozen THEN RunOn(At_(i).test, At_(i - 1).source) ELSE BeforePlain(i)

-----------------------------------------------------------------------------
(* admit: may the check be used to judge the commit that names it? *)

IsScript(entry) == entry.ref = "script"

\* resolveCheck, in the checkout.
Known(entry) == IF IsScript(entry) THEN range.script.now # "none"
                ELSE At_(HeadCommit).test # NoTest

AuthoredNow(i, entry) == IF IsScript(entry) THEN range.script.base = "none"
                         ELSE At_(i - 1).test = NoTest

CommandChanged(entry) ==
  IsScript(entry) /\ range.script.base \notin {"none", range.script.now}

NonLiteral(entry) == IsScript(entry) /\ range.script.now = "glob"

FileChanged(i, entry) == ~ IsScript(entry) /\ "test" \in At_(i).files

\* checkFileRedefined: the test the script names, between the base and now.
TestRedefined(entry) ==
  /\ IsScript(entry) /\ ~ NonLiteral(entry)
  /\ At_(BaseCommit).test \notin {NoTest, At_(HeadCommit).test}

Frozen(i, entry) ==
  IF IsScript(entry)
  THEN /\ ~ AuthoredNow(i, entry) /\ ~ CommandChanged(entry)
       /\ TestRedefined(entry)
  ELSE AuthoredNow(i, entry) \/ FileChanged(i, entry)

\* The check is the range's own and cannot be held against its former self.
SelfAuthorized(i, entry) ==
  /\ ~ Frozen(i, entry)
  /\ \/ AuthoredNow(i, entry) \/ CommandChanged(entry)
     \/ FileChanged(i, entry) \/ NonLiteral(entry)

\* importCone: the source and the test, which imports it, reach the check.
Reached(i) == At_(i).files \cap {"source", "test"} # {}

\* The check changed, or a file of the commit reaches it through imports.
Exercised(i, entry) == Frozen(i, entry) \/ CommandChanged(entry) \/ Reached(i)

Admitted(i, entry) == Known(entry) /\ ~ SelfAuthorized(i, entry)

AdmitErrors(i, entry) ==
  {e \in {"unknown-check", "self-authorized-check", "non-falsifiable-prediction"} :
     CASE e = "unknown-check"         -> ~ Known(entry)
       [] e = "self-authorized-check" -> Known(entry) /\ SelfAuthorized(i, entry)
       [] OTHER -> /\ Admitted(i, entry) /\ ~ entry.risk
                   /\ At_(i).files \cap Surface # {}
                   /\ entry.before = "green" /\ entry.after = "green"
                   /\ ~ Exercised(i, entry)}

-----------------------------------------------------------------------------
(* What a commit must declare, and across the range. *)

\* A surface change declares a flip, or that all it declares stays green.
CommitErrors(i) ==
  LET contract == {entry \in At_(i).says : ~ entry.risk}
      flips    == \E entry \in contract : entry.before = "red" /\ entry.after = "green"
      keeps    == \A entry \in contract : entry.before = "green" /\ entry.after = "green"
  IN IF At_(i).files \cap Surface = {} \/ flips \/ (contract # {} /\ keeps) THEN {}
     ELSE IF contract = {} THEN {"missing-change-contract"}
     ELSE {"non-falsifiable-prediction"}

Claims == {claim \in UNION {{i} \X At_(i).says : i \in Declaring} :
             Admitted(claim[1], claim[2])}

Conflicts ==
  IF \E p, q \in Claims : p[2].ref = q[2].ref /\ p[2].after # q[2].after
  THEN {"conflicting-obligations"} ELSE {}

-----------------------------------------------------------------------------
(* The obligations. *)

\* Slip: a test that fails to load is red.
FlipErrors_SetupIsRed(i, frozen) ==
  IF Before(i, frozen).ok THEN {"before-state-not-red"} ELSE {}

\* red -> green: red before; for a frozen observer, some case was red, all that
\* were are green at the head, and so are those the parent's test had.
FlipErrors(i, frozen) ==
  LET before == Before(i, frozen) IN
  IF (frozen /\ At_(i).test = NoTest) \/ before.setup
  THEN {"before-state-unverified"}
  ELSE IF before.ok THEN {"before-state-not-red"}
  ELSE IF ~ frozen THEN {}
  ELSE {e \in {"frozen-observer-mismatch", "observer-shrinkage"} :
          LET had == BeforePlain(i).passing \cup BeforePlain(i).failing IN
          CASE e = "frozen-observer-mismatch" -> ~ before.failing \subseteq AtHead.passing
            [] OTHER -> ~ had \subseteq AtHead.passing}

\* green -> green by a frozen observer: green before.
KeepErrors(i) == IF Before(i, TRUE).ok THEN {} ELSE {"before-state-unverified"}

ClaimErrors(i, entry) ==
  IF (entry.after = "green") # AtHead.ok THEN {"unmet-prediction"}
  ELSE IF entry.after = "red" THEN {}
  ELSE IF entry.before = "red" THEN FlipErrors(i, Frozen(i, entry))
  ELSE IF Frozen(i, entry) THEN KeepErrors(i)
  ELSE {}

ContractErrors ==
  (UNION {CommitErrors(i) \cup UNION {AdmitErrors(i, entry) : entry \in At_(i).says} :
            i \in Declaring})
    \cup Conflicts
    \cup UNION {ClaimErrors(claim[1], claim[2]) : claim \in Claims}

\* The range's commits are made; `other` is on the surface and not reached by
\* the test's imports, `doc` is neither.
ContractInit ==
  /\ \E source \in Sources, test \in TestFiles, script \in Scripts :
       range = [commits |-> <<[source |-> source, test |-> test,
                              files |-> {}, says |-> {}]>>, script |-> script]
  /\ judged = {"unjudged"}

AddCommit(source, test, says) ==
  LET before  == At_(HeadCommit)
      changed == {f \in {"source", "test"} :
                    IF f = "source" THEN source # before.source ELSE test # before.test}
  IN
  /\ judged = {"unjudged"} /\ HeadCommit <= MaxRange
  /\ \E files \in IF changed = {} THEN {{"other"}, {"doc"}} ELSE {changed} :
       range' = [range EXCEPT !.commits =
                   Append(@, [source |-> source, test |-> test,
                              files |-> files, says |-> says])]
  /\ UNCHANGED judged

\* checkChangeContract of base..HEAD; an empty range is refused.
Judge ==
  /\ judged = {"unjudged"}
  /\ judged' = IF Declaring = {} THEN {"vacuous-range"} ELSE ContractErrors
  /\ UNCHANGED range

ContractNext ==
  \/ \E source \in Sources, test \in TestFiles, says \in Declarations :
       AddCommit(source, test, says)
  \/ Judge

ContractSpec == ContractInit /\ [][ContractNext]_contractVars

-----------------------------------------------------------------------------
(* Properties. *)

\* What an accepted range declares of a test is so ("a behavioral change must
\* show a red->green", change-contract.mjs:340-341). A flip: some case of the test
\* as the commit has it fails on the source before the commit, and passes at the
\* head unless a later commit of the range changes the test. A flip or a kept
\* green whose test is not the base's: all those cases pass at the head and so do
\* the cases of the test before, or they pass before the commit as well.
AcceptedIsSo ==
  judged = {} =>
    \A i \in Declaring : \A entry \in At_(i).says :
      LET red     == At_(i).test.cases \ At_(i - 1).source
          flip    == entry.before = "red"
          changed == IF IsScript(entry)
                     THEN At_(BaseCommit).test \notin {NoTest, At_(HeadCommit).test}
                     ELSE "test" \in At_(i).files
      IN
      entry.after = "green" =>
        /\ AtHead.ok
        /\ (flip /\ (changed \/ ~ IsScript(entry))) =>
             /\ red # {}
             /\ \/ red \subseteq AtHead.passing
                \/ ~ changed /\ \E j \in i + 1 .. HeadCommit : "test" \in At_(j).files
        /\ (flip /\ changed) =>
             \/ At_(i - 1).test.cases \subseteq AtHead.passing
             \/ ~ At_(i - 1).test.needs \subseteq At_(i - 1).source
        /\ (~ flip /\ changed) => red = {}
=============================================================================
