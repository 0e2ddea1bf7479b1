--------------------------- MODULE MutationProbe ---------------------------
(* The mutation probe: each fixed mutation is written into a copy of the tree, *)
(* the one test it is bound to is run, and the file is put back                *)
(* (scripts/lib/audit/mutation-probe.mjs). All mutations share the copy, and   *)
(* those with the same selection share one run on the unchanged tree.          *)
(*                                                                             *)
(* A tree is the set of mutations written in its file; `fault` says which      *)
(* tests each of them breaks and which fail without any. Two mutations of      *)
(* different files do not disturb each other's text: one file is enough.       *)
EXTENDS Integers, Sequences, FiniteSets

CONSTANTS
  Mutations,      \* the mutations, in the order they are tried: a sequence
  TestCases,      \* the tests of the suites
  FocusOf,        \* the tests a mutation's suite and name pattern select
  Faults          \* what the tests may do

ASSUME ProbeAssumption ==
  /\ IsFiniteSet(TestCases)
  /\ FocusOf \in [DOMAIN FocusOf -> SUBSET TestCases]
  /\ Mutations \in Seq(DOMAIN FocusOf) \ {<<>>}
  /\ Faults \subseteq [base : SUBSET TestCases, unanchored : SUBSET DOMAIN FocusOf,
                       by : [DOMAIN FocusOf -> SUBSET TestCases]]

VARIABLES
  fault,          \* [base: tests that fail anyway, by: tests each one breaks]
  tree,           \* the mutations written in the copy's file
  baselines,      \* the baselines so far, by selection
  probe,          \* the mutation being tried, where, and the original text
  verdicts        \* what came of each mutation

probeVars == <<fault, tree, baselines, probe, verdicts>>

Current == Mutations[probe.number]

Failing(text) == fault.base \cup UNION {fault.by[m] : m \in text}

\* A run of the selected tests: as the tree says, or the file does not load, or
\* the process ends badly after them, or ends well all the same.
RunOutcomes(focus, text) ==
  LET failing == focus \cap Failing(text)
      passing == focus \ failing IN
  {[ok |-> failing = {}, passing |-> passing, failing |-> failing],
   [ok |-> FALSE, passing |-> {}, failing |-> {}],
   [ok |-> FALSE, passing |-> passing, failing |-> failing],
   [ok |-> TRUE, passing |-> passing, failing |-> failing]}

\* Slip: any failing run is a kill.
Classify_ExitStatus(result, focus) == IF result.ok THEN "green" ELSE "red"

Classify(result, focus) ==
  LET matched == focus \cap (result.passing \cup result.failing)
      failed  == focus \cap result.failing # {} IN
  IF result.ok /\ matched # {} /\ ~ failed THEN "green"
  ELSE IF ~ result.ok /\ failed THEN "red"
  ELSE "invalid"

\* Slip: the baselines are kept by suite alone.
Selection_Suite(m) == {}

\* The key of a baseline.
Selection(m) == FocusOf[m]

BaselineOf(m) == {b \in baselines : b.key = Selection(m)}

\* baselineFor: green, and of one observer.
Baseline ==
  /\ probe.at = "baseline"
  /\ \E result \in RunOutcomes(FocusOf[Current], tree) :
       LET good == /\ Classify(result, FocusOf[Current]) = "green"
                   /\ Cardinality(result.passing) = 1 IN
         baselines' = IF BaselineOf(Current) # {} THEN baselines
                      ELSE baselines \cup {[key |-> Selection(Current), ok |-> good]}
  /\ probe' = [probe EXCEPT !.at = "write"]
  /\ UNCHANGED <<fault, tree, verdicts>>

NextMutation == [number |-> probe.number + 1, original |-> {},
                 at |-> IF probe.number = Len(Mutations) THEN "end" ELSE "baseline"]

Verdict(v) == verdicts' = [verdicts EXCEPT ![Current] = v]

\* The anchor is not there once, or the baseline is no good.
Invalid ==
  /\ probe.at = "write"
  /\ \/ \E b \in BaselineOf(Current) : ~ b.ok
     \/ Current \in fault.unanchored
  /\ Verdict("invalid")
  /\ probe' = NextMutation
  /\ UNCHANGED <<fault, tree, baselines>>

Mutate ==
  /\ probe.at = "write"
  /\ Current \notin fault.unanchored
  /\ \A b \in BaselineOf(Current) : b.ok
  /\ tree' = tree \cup {Current}
  /\ probe' = [probe EXCEPT !.at = "observe", !.original = tree]
  /\ UNCHANGED <<fault, baselines, verdicts>>

\* Slip: the file keeps the mutation.
Restored_Not == tree

\* What the file holds after the mutation's run.
Restored == probe.original

Observe ==
  /\ probe.at = "observe"
  /\ \E result \in RunOutcomes(FocusOf[Current], tree) :
       LET state == Classify(result, FocusOf[Current]) IN
         Verdict(IF state = "red" THEN "killed"
                 ELSE IF state = "green" THEN "survived" ELSE "invalid")
  /\ tree' = Restored
  /\ probe' = NextMutation
  /\ UNCHANGED <<fault, baselines>>

\* The run throws: the file is restored and the probe ends.
RunThrows ==
  /\ probe.at \in {"baseline", "observe"}
  /\ tree' = IF probe.at = "observe" THEN Restored ELSE tree
  /\ probe' = [probe EXCEPT !.at = "end"]
  /\ UNCHANGED <<fault, baselines, verdicts>>

ProbeInit ==
  /\ fault \in Faults
  /\ tree = {}
  /\ baselines = {}
  /\ probe = [number |-> 1, at |-> "baseline", original |-> {}]
  /\ verdicts = [m \in {Mutations[i] : i \in DOMAIN Mutations} |-> "none"]

ProbeNext == Baseline \/ Invalid \/ Mutate \/ Observe \/ RunThrows

ProbeSpec == ProbeInit /\ [][ProbeNext]_probeVars

-----------------------------------------------------------------------------
(* Properties. *)

\* "A killed mutant requires the focused observer itself to be observed failing
\* after the mutation ... the same focused selection's baseline must be green
\* first" (mutation-probe.mjs:141-145): a kill is of a mutation whose selection is
\* one test that passes in the unchanged tree and fails with this mutation alone.
KillsAreTrue ==
  \A m \in DOMAIN verdicts : verdicts[m] = "killed" =>
    \E c \in TestCases :
      FocusOf[m] = {c} /\ c \notin fault.base /\ c \in fault.by[m]
=============================================================================
