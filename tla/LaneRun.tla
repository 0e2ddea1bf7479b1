------------------------------ MODULE LaneRun ------------------------------
(***************************************************************************)
(* The decisions of one lane (scripts/lane/run-ticket.sh): what refuses it *)
(* before the worker session starts, what the session may leave behind,    *)
(* and the exit status the frontier loop sees.                             *)
(***************************************************************************)
EXTENDS Naturals, FiniteSets

-----------------------------------------------------------------------------
(* The deciding check. *)

\* How a check is written: nothing, a package script, or a test file.
Specs == {"empty", "npm", "file"}

\* 0 green, 1 red, 2 for a check that could not be exercised.
ClassifyCheck(spec, present, loads, passes) ==
  CASE spec = "empty" -> 2
    [] spec = "file" /\ ~present -> 2
    [] spec # "empty" /\ (spec = "npm" \/ present) ->
         IF ~loads THEN 2 ELSE IF passes THEN 0 ELSE 1

\* A package script has no single file the worker tree must contain.
DecidingCheckGuard(spec, present) == spec = "npm" \/ (spec = "file" /\ present)

-----------------------------------------------------------------------------
(* Before the worker starts. *)

\* What a line of the sandbox probe reports.
ProbeReports == {"denied", "hidden", "WROTE", "UPDATED", "VISIBLE"}

ProbeVerdict(reports) == reports \cap {"WROTE", "UPDATED", "VISIBLE"} = {}

\* The answer of `krn memory recall'.  A source that was read and matches
\* nothing is an answer; a malformed or absent one is not.
RecallAnswers == {"failed", "notJson", "noHits", "notAdopted", "malformedRows",
                  "emptyLesson", "hits", "zero"}

SnapshotRecall(answer, writable) ==
  CASE answer = "failed" -> 73
    [] answer \notin {"failed", "hits", "zero"} -> 74
    [] answer \in {"hits", "zero"} -> IF writable THEN 0 ELSE 75

\* What the host offers: a transport that is known, its model authorised, its
\* program there, and a sandbox that is new enough and not setuid.
HostRefusal(host) ==
  CASE ~host.transport \/ ~host.model -> 64
    [] host.transport /\ host.model /\ ~host.program -> 65
    [] host.transport /\ host.model /\ host.program ->
         IF host.sandbox THEN 0 ELSE 66

Hosts == [transport : BOOLEAN, model : BOOLEAN, program : BOOLEAN,
          sandbox : BOOLEAN]

\* The lane's refusals in the order it meets them: the host, a check that is
\* not red at the cut base, recall, and the sandbox probe.
Preflight(host, class, recall, reports) ==
  CASE HostRefusal(host) # 0 -> HostRefusal(host)
    [] HostRefusal(host) = 0 /\ class # 1 -> IF class = 0 THEN 69 ELSE 70
    [] HostRefusal(host) = 0 /\ class = 1 ->
         IF recall # 0 THEN 72
         ELSE IF ProbeVerdict(reports) THEN 0 ELSE 67

-----------------------------------------------------------------------------
(* The worker session. *)

Sessions == [ok : BOOLEAN, commits : BOOLEAN, dirty : BOOLEAN, leaks : BOOLEAN,
             recovers : BOOLEAN]

\* One recovery session, only after a first one that ended well and left
\* changes it did not commit.
NeedsRecovery(session) == session.ok /\ ~session.commits /\ session.dirty

\* The clone has a commit to fetch; an exit status of the recovery session is
\* not looked at.
HasCommit(session) ==
  session.commits \/ (NeedsRecovery(session) /\ session.recovers)

LaneExit(session, checkPresent, spec, gate) ==
  IF ~DecidingCheckGuard(spec, checkPresent) THEN 71
  ELSE IF session.ok /\ ~session.leaks /\ gate THEN 0 ELSE 1
=============================================================================
