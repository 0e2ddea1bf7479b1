-------------------------- MODULE JudgementsProofs --------------------------
(* The judgements that admit work judge rightly: the gate command, the         *)
(* mutation probe, check install, lessons and their recall, the change         *)
(* contract, the plan of a profile and the search for dependency cycles; and   *)
(* the lane loop lands what it has proved.                                     *)
EXTENDS GateCommand, MutationProbe, InstallCheck, LessonRecall, ChangeContract,
        Frontier, CatalogPlan, Lessons, DependencyCycle, TaskStateProofs,
        FiniteSetTheorems, WellFoundedInduction

-----------------------------------------------------------------------------
(* The gate command. Its base is looked at in a worktree of its own and so     *)
(* keeps; what is known of the fixed point is known while the checkout is      *)
(* there.                                                                      *)

GatePcs == {"start", "refused", "base", "head", "recheck", "admitted"}

GateTypeOK ==
  /\ checkout \in [head : GateCommits, edits : Outcomes \cup {"clean"}]
  /\ gate \in [pc : GatePcs, back : BOOLEAN, fixed : GateCommits \cup {NoCommit},
               base : GateCommits \cup {NoCommit}]

\* From the run in the worktree on, the base is red.
BaseIsRed == gate.pc \in {"head", "recheck", "admitted"} => does[gate.base] = "red"

\* A run in the checkout tells of the fixed point, if the checkout is still there
\* or has come back; else the second look will find it away.
HeadPassed ==
  /\ GateAt("recheck") /\ StillThere => does[gate.fixed] = "pass" \/ gate.back
  /\ GateAt("admitted") => does[gate.fixed] = "pass" \/ gate.back

GateInv == GateTypeOK /\ BaseIsRed /\ HeadPassed

LEMMA GateStep ==
  ASSUME GateInv, GateNext
  PROVE  GateInv'
<1> USE DEF GateInv, GateTypeOK, BaseIsRed, HeadPassed, GateAt, GatePcs
<1>1. CASE ResolveCommits
  BY <1>1 DEF ResolveCommits, Refuse_, StillThere
<1>2. CASE RunAtBase
  BY <1>2 DEF RunAtBase, Refuse_, StillThere
<1>3. CASE RunAtHead
  BY <1>3 DEF RunAtHead, Refuse_, StillThere, HereDoes
<1>4. CASE Recheck
  BY <1>4 DEF Recheck, Refuse_, StillThere
<1>5. CASE CheckoutMoves
  <2>1. /\ checkout' \in [head : GateCommits, edits : Outcomes \cup {"clean"}]
        /\ checkout' # checkout /\ does' = does
        /\ gate' = [gate EXCEPT !.back =
                      @ \/ /\ gate.pc \in {"base", "head", "recheck"}
                           /\ checkout' = [head |-> gate.fixed, edits |-> "clean"]]
    BY <1>5 DEF CheckoutMoves
  <2>2. /\ gate' \in [pc : GatePcs, back : BOOLEAN, fixed : GateCommits \cup {NoCommit},
                      base : GateCommits \cup {NoCommit}]
        /\ gate'.pc = gate.pc /\ gate'.fixed = gate.fixed /\ gate'.base = gate.base
        /\ gate.back => gate'.back
    BY <2>1
  <2>3. GateAt("recheck")' /\ StillThere' => gate'.back
    <3> SUFFICES ASSUME GateAt("recheck"), checkout'.head = gate.fixed,
                        checkout'.edits = "clean"
                 PROVE  gate'.back
      BY <2>2 DEF StillThere
    <3>1. checkout' = [head |-> gate.fixed, edits |-> "clean"]
      BY <2>1
    <3> QED
      BY <2>1, <3>1
  <2>4. GateTypeOK' /\ BaseIsRed'
    BY <2>1, <2>2
  <2>5. GateAt("admitted")' => does'[gate'.fixed] = "pass" \/ gate'.back
    BY <2>1, <2>2
  <2>6. GateAt("recheck")' /\ StillThere' => does'[gate'.fixed] = "pass" \/ gate'.back
    BY <2>3
  <2>7. HeadPassed'
    BY <2>5, <2>6 DEF StillThere
  <2> QED
    BY <2>4, <2>7
<1> QED
  BY <1>1, <1>2, <1>3, <1>4, <1>5 DEF GateNext

\* A commit the gate command admits has a falsifier that fails at the base and
\* passes at the commit (gated-transition.mjs:115-116), unless the checkout came
\* back to it while the command ran.
THEOREM GatesAdmitFixedPoints == GateSpec => []AdmittedAtFixedPoint
<1>1. GateInit => GateInv
  BY GateAssumption DEF GateInit, GateInv, GateTypeOK, BaseIsRed, HeadPassed, GateAt, GatePcs
<1>2. GateInv /\ [GateNext]_gateVars => GateInv'
  <2>1. GateInv /\ UNCHANGED gateVars => GateInv'
    BY DEF gateVars, GateInv, GateTypeOK, BaseIsRed, HeadPassed, GateAt, StillThere
  <2> QED
    BY <2>1, GateStep
<1>3. GateInv => AdmittedAtFixedPoint
  BY DEF GateInv, BaseIsRed, HeadPassed, AdmittedAtFixedPoint, GateAt
<1> QED
  BY <1>1, <1>2, <1>3, PTL DEF GateSpec
-----------------------------------------------------------------------------
(* The mutation probe. Between two mutations the copy is the tree as it was,   *)
(* so a baseline is one of the unchanged tree, and a run is of one mutation.   *)

Tried == {Mutations[i] : i \in DOMAIN Mutations}

Guarding(m) == \E c \in TestCases : FocusOf[m] = {c} /\ c \notin fault.base

ProbeTypeOK ==
  /\ fault \in [base : SUBSET TestCases, unanchored : SUBSET DOMAIN FocusOf,
                by : [DOMAIN FocusOf -> SUBSET TestCases]]
  /\ probe \in [number : Nat, original : {{}}, at : {"baseline", "write", "observe", "end"}]
  /\ probe.at # "end" => probe.number \in DOMAIN Mutations
  /\ DOMAIN verdicts = Tried

\* The copy holds the mutation being observed and nothing else.
CopyIsWhole == tree = IF probe.at = "observe" THEN {Current} ELSE {}

\* A good baseline is of one test that passes in the unchanged tree.
BaselinesHold ==
  \A b \in baselines : b.ok => \E c \in TestCases : b.key = {c} /\ c \notin fault.base

\* A mutation is written and observed behind its baseline.
BaselineFirst ==
  /\ probe.at = "write" => BaselineOf(Current) # {}
  /\ probe.at = "observe" => Guarding(Current)

ProbeInv == ProbeTypeOK /\ CopyIsWhole /\ BaselinesHold /\ BaselineFirst /\ KillsAreTrue

\* The one test a green run has passed, where one test has been run.
LEMMA GreenIsOneTest ==
  ASSUME NEW focus \in SUBSET TestCases, NEW text,
         Failing(text) \subseteq TestCases,
         NEW result \in RunOutcomes(focus, text),
         Classify(result, focus) = "green", Cardinality(result.passing) = 1
  PROVE  \E c \in TestCases : focus = {c} /\ c \notin Failing(text)
<1>1. /\ result.ok /\ focus \cap result.failing = {}
      /\ focus \cap (result.passing \cup result.failing) # {}
  BY DEF Classify
<1>2. result.passing = focus \ Failing(text) /\ result.failing = focus \cap Failing(text)
  BY <1>1 DEF RunOutcomes
<1>3. result.passing = focus /\ focus \cap Failing(text) = {}
  BY <1>1, <1>2
<1>4. IsFiniteSet(focus) /\ Cardinality(focus) = 1
  BY <1>3, ProbeAssumption, FS_Subset
<1>5. focus # {}
  BY <1>1
<1>6. PICK c : c \in focus
  BY <1>5
<1>7. Cardinality(focus \ {c}) = 0 /\ IsFiniteSet(focus \ {c})
  BY <1>4, <1>6, FS_RemoveElement
<1>8. focus \ {c} = {}
  BY <1>7, FS_EmptySet
<1> QED
  BY <1>3, <1>6, <1>8

\* What a red run of one test says of it.
LEMMA RedFails ==
  ASSUME NEW focus \in SUBSET TestCases, NEW text,
         NEW result \in RunOutcomes(focus, text),
         Classify(result, focus) = "red"
  PROVE  focus \cap Failing(text) # {}
BY DEF Classify, RunOutcomes

LEMMA CurrentIsTried ==
  ASSUME ProbeTypeOK, probe.at # "end"
  PROVE  /\ Current \in Tried /\ Current \in DOMAIN FocusOf
         /\ FocusOf[Current] \in SUBSET TestCases
BY ProbeAssumption DEF ProbeTypeOK, Current, Tried

LEMMA FailingTests ==
  ASSUME ProbeTypeOK, NEW m \in DOMAIN FocusOf
  PROVE  /\ Failing({}) = fault.base
         /\ Failing({m}) = fault.base \cup fault.by[m]
         /\ fault.base \subseteq TestCases
<1>1. UNION {fault.by[x] : x \in {}} = {} /\ UNION {fault.by[x] : x \in {m}} = fault.by[m]
  OBVIOUS
<1> QED
  BY <1>1 DEF Failing, ProbeTypeOK

LEMMA NextMutationTyped ==
  ASSUME ProbeTypeOK, probe.at # "end", probe' = NextMutation
  PROVE  /\ probe' \in [number : Nat, original : {{}},
                        at : {"baseline", "write", "observe", "end"}]
         /\ probe'.at \in {"baseline", "end"}
         /\ probe'.at # "end" => probe'.number \in DOMAIN Mutations
<1>1. Len(Mutations) \in Nat /\ DOMAIN Mutations = 1 .. Len(Mutations)
  BY ProbeAssumption
<1>2. probe.number \in 1 .. Len(Mutations)
  BY <1>1 DEF ProbeTypeOK
<1> QED
  BY <1>1, <1>2 DEF NextMutation

LEMMA BaselineKeeps ==
  ASSUME ProbeInv, Baseline
  PROVE  ProbeInv'
<1>1. /\ probe.at = "baseline" /\ UNCHANGED <<fault, tree, verdicts>>
      /\ probe' = [probe EXCEPT !.at = "write"]
  BY DEF Baseline
<1>2. PICK result \in RunOutcomes(FocusOf[Current], tree) :
        baselines' = IF BaselineOf(Current) # {} THEN baselines
                     ELSE baselines \cup
                       {[key |-> Selection(Current),
                         ok |-> /\ Classify(result, FocusOf[Current]) = "green"
                                /\ Cardinality(result.passing) = 1]}
  BY DEF Baseline
<1>3. ProbeTypeOK'
  BY <1>1 DEF ProbeInv, ProbeTypeOK
<1>4. tree = {} /\ CopyIsWhole'
  BY <1>1 DEF ProbeInv, CopyIsWhole, ProbeTypeOK
<1>5. Current' = Current /\ probe'.at = "write"
  BY <1>1 DEF Current, ProbeInv, ProbeTypeOK
<1>6. BaselinesHold'
  <2> DEFINE good == /\ Classify(result, FocusOf[Current]) = "green"
                     /\ Cardinality(result.passing) = 1
             new == [key |-> Selection(Current), ok |-> good]
  <2>1. good => \E c \in TestCases : FocusOf[Current] = {c} /\ c \notin fault.base
    <3> SUFFICES ASSUME good PROVE \E c \in TestCases : FocusOf[Current] = {c} /\ c \notin fault.base
      OBVIOUS
    <3>1. Failing({}) = fault.base /\ fault.base \subseteq TestCases
      BY <1>1, CurrentIsTried, FailingTests DEF ProbeInv
    <3>2. FocusOf[Current] \in SUBSET TestCases
      BY <1>1, CurrentIsTried DEF ProbeInv
    <3> QED
      BY <1>2, <1>4, <3>1, <3>2, GreenIsOneTest
  <2>2. new.key = FocusOf[Current] /\ new.ok = good
    BY DEF Selection
  <2>3. \A b \in baselines' : b \in baselines \/ b = new
    BY <1>2
  <2> HIDE DEF good, new
  <2> QED
    BY <1>1, <2>1, <2>2, <2>3 DEF ProbeInv, BaselinesHold
<1>7. BaselineFirst'
  <2> DEFINE good == /\ Classify(result, FocusOf[Current]) = "green"
                     /\ Cardinality(result.passing) = 1
  <2>1. [key |-> Selection(Current), ok |-> good].key = Selection(Current)
    OBVIOUS
  <2>2. \E b \in baselines' : b.key = Selection(Current)
    BY <1>2, <2>1 DEF BaselineOf
  <2>3. Selection(Current)' = Selection(Current)
    BY <1>5 DEF Selection
  <2> QED
    BY <1>5, <2>2, <2>3 DEF BaselineFirst, BaselineOf
<1>8. KillsAreTrue'
  BY <1>1 DEF ProbeInv, KillsAreTrue
<1> QED
  BY <1>3, <1>4, <1>6, <1>7, <1>8 DEF ProbeInv

LEMMA MutateKeeps ==
  ASSUME ProbeInv, Mutate
  PROVE  ProbeInv'
<1>1. /\ probe.at = "write" /\ UNCHANGED <<fault, baselines, verdicts>>
      /\ \A b \in BaselineOf(Current) : b.ok
      /\ tree' = tree \cup {Current}
      /\ probe' = [probe EXCEPT !.at = "observe", !.original = tree]
  BY DEF Mutate
<1>2. tree = {}
  BY <1>1 DEF ProbeInv, CopyIsWhole
<1>3. ProbeTypeOK' /\ probe'.at = "observe"
  BY <1>1, <1>2 DEF ProbeInv, ProbeTypeOK
<1>4. Current' = Current
  BY <1>1 DEF Current, ProbeInv, ProbeTypeOK
<1>5. CopyIsWhole'
  BY <1>1, <1>2, <1>3, <1>4 DEF CopyIsWhole
<1>6. Guarding(Current)
  BY <1>1 DEF ProbeInv, BaselineFirst, BaselinesHold, BaselineOf, Selection, Guarding
<1>7. BaselineFirst'
  BY <1>1, <1>3, <1>4, <1>6 DEF BaselineFirst, Guarding
<1> QED
  BY <1>1, <1>3, <1>5, <1>7 DEF ProbeInv, BaselinesHold, KillsAreTrue

\* A verdict that is no kill, or a justified one.
LEMMA VerdictKeeps ==
  ASSUME ProbeInv, probe.at # "end", NEW v, Verdict(v), fault' = fault,
         v = "killed" => \E c \in TestCases :
           FocusOf[Current] = {c} /\ c \notin fault.base /\ c \in fault.by[Current]
  PROVE  DOMAIN verdicts' = Tried /\ KillsAreTrue'
BY CurrentIsTried DEF ProbeInv, ProbeTypeOK, KillsAreTrue, Verdict

LEMMA ObserveKeeps ==
  ASSUME ProbeInv, Observe
  PROVE  ProbeInv'
<1>1. /\ probe.at = "observe" /\ UNCHANGED <<fault, baselines>>
      /\ tree' = probe.original /\ probe' = NextMutation
  BY DEF Observe, Restored
<1>2. PICK result \in RunOutcomes(FocusOf[Current], tree) :
        Verdict(IF Classify(result, FocusOf[Current]) = "red" THEN "killed"
                ELSE IF Classify(result, FocusOf[Current]) = "green" THEN "survived"
                ELSE "invalid")
  BY DEF Observe
<1>3. tree = {Current} /\ Guarding(Current) /\ tree' = {}
  BY <1>1 DEF ProbeInv, CopyIsWhole, BaselineFirst, ProbeTypeOK
<1>4. Classify(result, FocusOf[Current]) = "red" =>
        \E c \in TestCases :
          FocusOf[Current] = {c} /\ c \notin fault.base /\ c \in fault.by[Current]
  <2> SUFFICES ASSUME Classify(result, FocusOf[Current]) = "red"
               PROVE  \E c \in TestCases :
                 FocusOf[Current] = {c} /\ c \notin fault.base /\ c \in fault.by[Current]
    OBVIOUS
  <2>1. FocusOf[Current] \in SUBSET TestCases /\ Current \in DOMAIN FocusOf
    BY <1>1, CurrentIsTried DEF ProbeInv
  <2>2. FocusOf[Current] \cap Failing({Current}) # {}
    BY <1>2, <1>3, <2>1, RedFails
  <2>3. Failing({Current}) = fault.base \cup fault.by[Current]
    BY <2>1, FailingTests DEF ProbeInv
  <2> QED
    BY <1>3, <2>2, <2>3 DEF Guarding
<1>5. DOMAIN verdicts' = Tried /\ KillsAreTrue'
  BY <1>1, <1>2, <1>4, VerdictKeeps
<1>6. /\ probe' \in [number : Nat, original : {{}},
                     at : {"baseline", "write", "observe", "end"}]
      /\ probe'.at \in {"baseline", "end"}
      /\ probe'.at # "end" => probe'.number \in DOMAIN Mutations
  BY <1>1, NextMutationTyped DEF ProbeInv
<1>7. ProbeTypeOK'
  BY <1>1, <1>5, <1>6 DEF ProbeInv, ProbeTypeOK
<1> QED
  BY <1>1, <1>3, <1>5, <1>6, <1>7
     DEF ProbeInv, CopyIsWhole, BaselinesHold, BaselineFirst

LEMMA InvalidKeeps ==
  ASSUME ProbeInv, Invalid
  PROVE  ProbeInv'
<1>1. /\ probe.at = "write" /\ UNCHANGED <<fault, tree, baselines>>
      /\ Verdict("invalid") /\ probe' = NextMutation
  BY DEF Invalid
<1>2. DOMAIN verdicts' = Tried /\ KillsAreTrue'
  BY <1>1, VerdictKeeps
<1>3. /\ probe' \in [number : Nat, original : {{}},
                     at : {"baseline", "write", "observe", "end"}]
      /\ probe'.at \in {"baseline", "end"}
      /\ probe'.at # "end" => probe'.number \in DOMAIN Mutations
  BY <1>1, NextMutationTyped DEF ProbeInv
<1>4. ProbeTypeOK'
  BY <1>1, <1>2, <1>3 DEF ProbeInv, ProbeTypeOK
<1> QED
  BY <1>1, <1>2, <1>3, <1>4 DEF ProbeInv, CopyIsWhole, BaselinesHold, BaselineFirst

LEMMA ThrowKeeps ==
  ASSUME ProbeInv, RunThrows
  PROVE  ProbeInv'
<1>1. /\ UNCHANGED <<fault, baselines, verdicts>>
      /\ tree' = IF probe.at = "observe" THEN probe.original ELSE tree
      /\ probe.at \in {"baseline", "observe"} /\ probe' = [probe EXCEPT !.at = "end"]
  BY DEF RunThrows, Restored
<1>2. ProbeTypeOK' /\ probe'.at = "end"
  BY <1>1 DEF ProbeInv, ProbeTypeOK
<1>3. tree' = {}
  BY <1>1 DEF ProbeInv, CopyIsWhole, ProbeTypeOK
<1> QED
  BY <1>1, <1>2, <1>3 DEF ProbeInv, CopyIsWhole, BaselinesHold, BaselineFirst, KillsAreTrue

\* A kill is of a mutation whose selection is one test that passes in the
\* unchanged tree and fails with this mutation alone (mutation-probe.mjs:141-145).
THEOREM KillsAreJustified == ProbeSpec => []KillsAreTrue
<1>1. ProbeInit => ProbeInv
  <2> SUFFICES ASSUME ProbeInit PROVE ProbeInv
    OBVIOUS
  <2>1. 1 \in DOMAIN Mutations
    BY ProbeAssumption
  <2>2. ProbeTypeOK
    BY <2>1, ProbeAssumption DEF ProbeInit, ProbeTypeOK, Tried
  <2> QED
    BY <2>2 DEF ProbeInit, ProbeInv, CopyIsWhole, BaselinesHold, BaselineFirst, KillsAreTrue
<1>2. ProbeInv /\ [ProbeNext]_probeVars => ProbeInv'
  <2>1. ProbeInv /\ UNCHANGED probeVars => ProbeInv'
    BY DEF probeVars, ProbeInv, ProbeTypeOK, CopyIsWhole, BaselinesHold, BaselineFirst,
           KillsAreTrue, BaselineOf, Current, Guarding, Selection
  <2> QED
    BY <2>1, BaselineKeeps, InvalidKeeps, MutateKeeps, ObserveKeeps, ThrowKeeps DEF ProbeNext
<1>3. ProbeInv => KillsAreTrue
  BY DEF ProbeInv
<1> QED
  BY <1>1, <1>2, <1>3, PTL DEF ProbeSpec
-----------------------------------------------------------------------------
(* The report of an installation. What the report asks of a release is what    *)
(* apply asks, but for the ancestry of the key, so it cannot refuse it.        *)

CheckTypeOK ==
  /\ selected \in Harness \cup {Elsewhere}
  /\ DOMAIN store = Harness
  /\ host \in [masked : BOOLEAN, legacyHook : BOOLEAN, orphan : BOOLEAN,
               current : {"missing", "foreign_collision", "broken_link"},
               links : [ManagedLinks -> DOMAIN LinkStatus],
               requirements : Requirements \cup {[state |-> "absent", lines |-> {}]}]

CheckInv == CheckTypeOK /\ SealedApplyIsHealthy

LEMMA LinkStatusDomain ==
  /\ DOMAIN LinkStatus = {"current", "prior_release", "legacy_source", "other_release",
                          "foreign", "file", "dangling", "nothing", "beside"}
  /\ \A kind \in DOMAIN LinkStatus :
       LinkStatus[kind] = "filesystem_installed" => kind = "current"
  /\ LinkStatus["current"] = "filesystem_installed"
BY DEF LinkStatus

\* A release the report takes for installed verifies, and all leads into it.
LEMMA InstalledMeans ==
  ASSUME CheckTypeOK
  PROVE  Filesystem = "filesystem_installed" =>
           /\ selected # Elsewhere
           /\ verifyRelease(store[selected], selected, anchoredLedger, FALSE, TRUE) = "verified"
           /\ ~host.masked /\ ~host.legacyHook
           /\ LinkStatuses = {"filesystem_installed"}
<1> SUFFICES ASSUME Filesystem = "filesystem_installed"
             PROVE  /\ selected # Elsewhere
                    /\ verifyRelease(store[selected], selected, anchoredLedger, FALSE, TRUE)
                         = "verified"
                    /\ ~host.masked /\ ~host.legacyHook
                    /\ LinkStatuses = {"filesystem_installed"}
  OBVIOUS
<1>1. host.current # "filesystem_installed"
  BY DEF CheckTypeOK
<1>2. WithoutRelease # "filesystem_installed"
  BY <1>1 DEF WithoutRelease
<1>3. selected # Elsewhere /\ SelectedRelease = "filesystem_installed"
  BY <1>2 DEF Filesystem, RULE_STATUS
<1>4. /\ verifyRelease(store[selected], selected, anchoredLedger, FALSE, TRUE) = "verified"
      /\ AsSeen("filesystem_installed") = "filesystem_installed"
  BY <1>3 DEF SelectedRelease, RULE_STATUS, AsSeen
<1> QED
  BY <1>3, <1>4 DEF AsSeen

LEMMA SealedByAnEntry ==
  ASSUME NEW release, NEW commit \in Harness, NEW ledger,
         ledger.state = "read", SealedIn(release, commit, ledger, FALSE)
  PROVE  \E k \in Harness \cup {Unrelated} : ledger.entries[k] = release.bytes
<1> DEFINE entries == releaseDigests(ledger)
<1>1. entries = [k \in Harness \cup {Unrelated} |-> ledger.entries[k]]
  BY DEF releaseDigests
<1>2. IF entries[commit] # NoDigest THEN entries[commit] = release.bytes
      ELSE SealsByValue(entries, commit, release.bytes, FALSE)
  BY DEF SealedIn
<1> HIDE DEF entries
<1> QED
  BY <1>1, <1>2 DEF SealsByValue

LEMMA HealthyMeans ==
  ASSUME CheckTypeOK
  PROVE  HealthyIsAttested
<1> SUFFICES ASSUME Healthy
             PROVE  /\ selected # Elsewhere
                    /\ NamesItsFiles(store[selected])
                    /\ anchoredLedger.state = "read" =>
                         \E k \in Harness \cup {Unrelated} :
                           anchoredLedger.entries[k] = store[selected].bytes
                    /\ \A t \in ManagedLinks : host.links[t] = "current"
                    /\ ~host.masked /\ ~host.legacyHook /\ ~host.orphan
  BY DEF HealthyIsAttested
<1>1. /\ selected # Elsewhere /\ ~host.masked /\ ~host.legacyHook
      /\ verifyRelease(store[selected], selected, anchoredLedger, FALSE, TRUE) = "verified"
      /\ LinkStatuses = {"filesystem_installed"}
  BY InstalledMeans DEF Healthy
<1>2. \A t \in ManagedLinks : LinkStatus[host.links[t]] = "filesystem_installed"
  BY <1>1 DEF LinkStatuses, itemStatus
<1>3. ~host.orphan
  BY <1>1 DEF LinkStatuses
<1>4. \A t \in ManagedLinks : host.links[t] = "current"
  BY <1>2, LinkStatusDomain DEF CheckTypeOK
<1>5. /\ NamesItsFiles(store[selected])
      /\ SealedIn(store[selected], selected, anchoredLedger, FALSE)
  BY <1>1 DEF verifyRelease, Integrity
<1>6. anchoredLedger.state = "read" =>
        \E k \in Harness \cup {Unrelated} :
          anchoredLedger.entries[k] = store[selected].bytes
  <2>1. selected \in Harness
    BY <1>1 DEF CheckTypeOK
  <2> QED
    BY <1>5, <2>1, SealedByAnEntry
<1> QED
  BY <1>1, <1>3, <1>4, <1>5, <1>6

\* What is sealed for apply is sealed for the report.
LEMMA SealedWithoutHarness ==
  ASSUME NEW release, NEW commit, NEW ledger,
         verifyRelease(release, commit, ledger, TRUE, TRUE) = "verified"
  PROVE  verifyRelease(release, commit, ledger, FALSE, TRUE) = "verified"
<1>1. /\ Integrity(release) = "verified" /\ release.local.state # "torn"
      /\ SealedIn(release, commit, ledger, TRUE)
  BY DEF verifyRelease
<1>2. SealedIn(release, commit, ledger, FALSE)
  BY <1>1 DEF SealedIn, SealsByValue
<1> QED
  BY <1>1, <1>2 DEF verifyRelease

LEMMA ApplyDoneKeeps ==
  ASSUME CheckInv, NEW commit \in Harness, ApplyDone(commit)
  PROVE  CheckInv'
<1>1. /\ commit = checkedOut /\ commit # Elsewhere /\ checkedOut' = checkedOut
      /\ harness' = harness /\ harness.ledger[commit].state # "torn"
      /\ ~host.masked /\ ~host.legacyHook
      /\ Verifies(commit) /\ selected' = commit
      /\ store' = [store EXCEPT ![commit] = Existing(commit)]
      /\ host' = [host EXCEPT !.links = [t \in ManagedLinks |-> "current"], !.orphan = FALSE]
  BY DEF ApplyDone, Applies, PreflightTargets, Placed
<1>2. applied'.sealed = targetSeal(commit)
  BY DEF ApplyDone, Turn
<1>3. CheckTypeOK'
  BY <1>1, LinkStatusDomain DEF CheckInv, CheckTypeOK
<1>4. /\ ~host'.masked /\ ~host'.legacyHook /\ ~host'.orphan
      /\ \A t \in ManagedLinks : host'.links[t] = "current"
  BY <1>1 DEF CheckInv, CheckTypeOK
<1>5. LinkStatuses' = {"filesystem_installed"}
  BY <1>4, LinkStatusDomain, CheckAssumption DEF LinkStatuses, itemStatus
<1>6. store'[selected'] = Existing(commit)
  BY <1>1 DEF CheckInv, CheckTypeOK
<1>7. anchoredLedger' = harness.ledger[commit]
  BY <1>1 DEF anchoredLedger
<1>8. targetSeal(commit) => Filesystem' = "filesystem_installed"
  <2> SUFFICES ASSUME targetSeal(commit) PROVE Filesystem' = "filesystem_installed"
    OBVIOUS
  <2>1. verifyRelease(Existing(commit), commit, harness.ledger[commit], TRUE, TRUE) = "verified"
    BY <1>1 DEF Verifies, verifyRelease
  <2>2. verifyRelease(Existing(commit), commit, harness.ledger[commit], FALSE, TRUE) = "verified"
    BY <2>1, SealedWithoutHarness
  <2>3. SelectedRelease' = AsSeen("filesystem_installed")'
    BY <1>1, <1>6, <1>7, <2>2 DEF SelectedRelease, verifyRelease, Integrity, SealedIn,
       Unattested, NamesItsFiles, Superseded
  <2>4. AsSeen("filesystem_installed")' = "filesystem_installed"
    BY <1>4, <1>5 DEF AsSeen
  <2> QED
    BY <1>1, <1>7, <2>3, <2>4 DEF Filesystem
<1> QED
  BY <1>2, <1>3, <1>8 DEF CheckInv, SealedApplyIsHealthy

\* Every other step forgets the apply.
LEMMA OthersForget ==
  ASSUME Turn(Nobody)
  PROVE  SealedApplyIsHealthy'
BY DEF Turn, Nobody, SealedApplyIsHealthy

LEMMA CheckStep ==
  ASSUME CheckInv, CheckNext
  PROVE  CheckInv'
<1>1. ASSUME NEW c \in Harness, ApplyRefused(c) \/ ApplyUnverified(c) \/ ApplyDone(c)
      PROVE  CheckInv'
  <2>1. CASE ApplyRefused(c)
    BY <2>1, OthersForget DEF ApplyRefused, CheckInv, CheckTypeOK
  <2>2. CASE ApplyUnverified(c)
    BY <2>2, OthersForget DEF ApplyUnverified, Placed, CheckInv, CheckTypeOK
  <2>3. CASE ApplyDone(c)
    BY <2>3, ApplyDoneKeeps
  <2> QED
    BY <1>1, <2>1, <2>2, <2>3
<1>2. ASSUME NEW c \in Harness \cup {Elsewhere}, CheckOut(c)
      PROVE  CheckInv'
  BY <1>2, OthersForget DEF CheckOut, HandsOn, CheckInv, CheckTypeOK
<1>3. CASE RewriteRelease
  <2>1. Turn(Nobody) /\ UNCHANGED <<selected, host>> /\ DOMAIN store' = DOMAIN store
    BY <1>3 DEF RewriteRelease, HandsOn
  <2> QED
    BY <2>1, OthersForget DEF CheckInv, CheckTypeOK
<1>4. CASE SignAgain
  BY <1>4, OthersForget DEF SignAgain, HandsOn, CheckInv, CheckTypeOK
<1>5. CASE Reselect
  <2>1. /\ Turn(Nobody) /\ store' = store
        /\ selected' \in Harness \cup {Elsewhere}
    BY <1>5 DEF Reselect, HandsOn
  <2>2. PICK kind \in {"missing", "foreign_collision", "broken_link"} :
          host' = IF selected' # Elsewhere THEN host
                  ELSE [host EXCEPT !.current = kind,
                                    !.links = [t \in ManagedLinks |->
                                      IF host.links[t] = "current" THEN "dangling"
                                      ELSE host.links[t]]]
    BY <1>5 DEF Reselect
  <2>3. [t \in ManagedLinks |-> IF host.links[t] = "current" THEN "dangling"
                                ELSE host.links[t]] \in [ManagedLinks -> DOMAIN LinkStatus]
    BY LinkStatusDomain DEF CheckInv, CheckTypeOK
  <2>4. CheckTypeOK'
    BY <2>1, <2>2, <2>3 DEF CheckInv, CheckTypeOK
  <2> QED
    BY <2>1, <2>4, OthersForget DEF CheckInv
<1>6. CASE ChangeHost
  <2>1. /\ Turn(Nobody) /\ UNCHANGED <<store, selected>>
        /\ host' \in {[host EXCEPT !.masked = ~host.masked],
                      [host EXCEPT !.legacyHook = ~host.legacyHook],
                      [host EXCEPT !.orphan = TRUE]}
             \cup {[host EXCEPT !.links[t] = kind] :
                      t \in ManagedLinks, kind \in DOMAIN LinkStatus}
             \cup {[host EXCEPT !.requirements = file] : file \in Requirements}
    BY <1>6 DEF ChangeHost, HandsOn
  <2>2. CASE host' \in {[host EXCEPT !.masked = ~host.masked],
                        [host EXCEPT !.legacyHook = ~host.legacyHook],
                        [host EXCEPT !.orphan = TRUE]}
    <3>1. CheckTypeOK'
      <4>1. CASE host' = [host EXCEPT !.masked = ~host.masked]
        BY <2>1, <4>1 DEF CheckInv, CheckTypeOK
      <4>2. CASE host' = [host EXCEPT !.legacyHook = ~host.legacyHook]
        BY <2>1, <4>2 DEF CheckInv, CheckTypeOK
      <4>3. CASE host' = [host EXCEPT !.orphan = TRUE]
        BY <2>1, <4>3 DEF CheckInv, CheckTypeOK
      <4> QED
        BY <2>2, <4>1, <4>2, <4>3
    <3> QED
      BY <2>1, <3>1, OthersForget DEF CheckInv
  <2>3. ASSUME NEW t \in ManagedLinks, NEW kind \in DOMAIN LinkStatus,
               host' = [host EXCEPT !.links[t] = kind]
        PROVE  CheckInv'
    <3>1. [host.links EXCEPT ![t] = kind] \in [ManagedLinks -> DOMAIN LinkStatus]
      BY DEF CheckInv, CheckTypeOK
    <3>2. host' = [host EXCEPT !.links = [host.links EXCEPT ![t] = kind]]
      BY <2>3
    <3>3. CheckTypeOK'
      BY <2>1, <3>1, <3>2 DEF CheckInv, CheckTypeOK
    <3> QED
      BY <2>1, <3>3, OthersForget DEF CheckInv
  <2>4. ASSUME NEW file \in Requirements, host' = [host EXCEPT !.requirements = file]
        PROVE  CheckInv'
    BY <2>1, <2>4, OthersForget DEF CheckInv, CheckTypeOK
  <2> QED
    BY <2>1, <2>2, <2>3, <2>4
<1> QED
  BY <1>1, <1>2, <1>3, <1>4, <1>5, <1>6 DEF CheckNext

\* A release that install check calls healthy is one the committed ledger lists,
\* and all that KRN manages leads into it; what apply took for sealed is healthy
\* (verifyRelease, inspectInstall, targetSeal).
THEOREM ReportsAreTrue == CheckSpec => []CheckIsTrue
<1>1. CheckInit => CheckInv
  <2> SUFFICES ASSUME CheckInit PROVE CheckInv
    OBVIOUS
  <2>1. PICK start \in CheckStarts :
          /\ selected = start.selected
          /\ host = IF selected # Elsewhere
                    THEN [CleanHost EXCEPT !.links = [t \in ManagedLinks |-> "current"]]
                    ELSE CleanHost
    BY DEF CheckInit
  <2>2. DOMAIN store = Harness
    BY DEF CheckInit
  <2>3. CheckTypeOK
    BY <2>1, <2>2, CheckAssumption, LinkStatusDomain DEF CheckTypeOK, CleanHost
  <2> QED
    BY <2>3 DEF CheckInit, CheckInv, SealedApplyIsHealthy, Nobody
<1>2. CheckInv /\ [CheckNext]_checkVars => CheckInv'
  <2>1. CheckInv /\ UNCHANGED checkVars => CheckInv'
    <3> SUFFICES ASSUME CheckInv, UNCHANGED checkVars PROVE CheckInv'
      OBVIOUS
    <3>1. CheckTypeOK'
      BY DEF checkVars, CheckInv, CheckTypeOK
    <3>2. Filesystem' = Filesystem /\ applied' = applied
      BY DEF checkVars, Filesystem, WithoutRelease, SelectedRelease, AsSeen, LinkStatuses,
             itemStatus, verifyRelease, Integrity, NamesItsFiles, Superseded, SealedIn,
             Unattested, anchoredLedger
    <3> QED
      BY <3>1, <3>2 DEF CheckInv, SealedApplyIsHealthy
  <2> QED
    BY <2>1, CheckStep
<1>3. CheckInv => CheckIsTrue
  BY HealthyMeans DEF CheckInv, CheckIsTrue
<1> QED
  BY <1>1, <1>2, <1>3, PTL DEF CheckSpec
-----------------------------------------------------------------------------
(* Recall of lessons. That nothing is on the surface must mean that the page   *)
(* is the page of the base: it is handed on from commit to commit.             *)

Spanned == [page : FirstPages] \cup [diff : Diffs, says : Messages, page : Pages]

RecallTypeOK ==
  /\ span \in Seq(Spanned) /\ Len(span) >= 1
  /\ recallMode \in RecallModes

PageHandedOn ==
  (\A i \in Since : span[i].page = span[i - 1].page) => HeadPage = BasePage

RecallInv == RecallTypeOK /\ PageHandedOn

LEMMA HeadPageTyped ==
  ASSUME RecallTypeOK
  PROVE  HeadPage \in FirstPages \cup Pages /\ BasePage \in FirstPages \cup Pages
<1>1. span[1] \in Spanned /\ span[Len(span)] \in Spanned
  BY DEF RecallTypeOK
<1> QED
  BY <1>1 DEF Spanned, HeadPage, BasePage

LEMMA CommitKeeps ==
  ASSUME RecallInv, CommitLesson
  PROVE  RecallInv'
<1>1. PICK diff \in Diffs, says \in Messages, page \in Pages :
        span' = Append(span, [diff |-> diff, says |-> says, page |-> page])
  BY DEF CommitLesson
<1> DEFINE new == [diff |-> diff, says |-> says, page |-> page]
<1>2. new \in Spanned /\ new.page = page
  BY DEF Spanned
<1>3. /\ span' \in Seq(Spanned) /\ Len(span') = Len(span) + 1 /\ Len(span) \in Nat
      /\ \A i \in 1 .. Len(span) : span'[i] = span[i]
      /\ span'[Len(span) + 1] = new
  BY <1>1, <1>2 DEF RecallInv, RecallTypeOK
<1> HIDE DEF new
<1>4. RecallTypeOK'
  BY <1>3 DEF RecallInv, RecallTypeOK, CommitLesson
<1>5. PageHandedOn'
  <2> SUFFICES ASSUME \A i \in 2 .. Len(span') : span'[i].page = span'[i - 1].page
               PROVE  span'[Len(span')].page = span'[1].page
    BY DEF PageHandedOn, Since, HeadPage, BasePage
  <2>1. Len(span) >= 1
    BY DEF RecallInv, RecallTypeOK
  <2>2. \A i \in 2 .. Len(span) : span[i].page = span[i - 1].page
    <3> SUFFICES ASSUME NEW i \in 2 .. Len(span)
                 PROVE  span[i].page = span[i - 1].page
      OBVIOUS
    <3>1. i \in 1 .. Len(span) /\ i - 1 \in 1 .. Len(span) /\ i \in 2 .. Len(span')
      BY <1>3
    <3> QED
      BY <1>3, <3>1
  <2>3. span[Len(span)].page = span[1].page
    BY <2>2 DEF RecallInv, PageHandedOn, Since, HeadPage, BasePage
  <2>4. span'[Len(span) + 1].page = span'[Len(span)].page
    <3>1. Len(span) + 1 \in 2 .. Len(span') /\ (Len(span) + 1) - 1 = Len(span)
      BY <1>3, <2>1
    <3> QED
      BY <3>1
  <2>5. span'[Len(span)] = span[Len(span)] /\ span'[1] = span[1]
    BY <1>3, <2>1
  <2> QED
    BY <1>3, <2>3, <2>4, <2>5
<1> QED
  BY <1>4, <1>5 DEF RecallInv

-----------------------------------------------------------------------------
(* What the absence of errors says.                                            *)

LEMMA NoPageErrors ==
  ASSUME RecallInv, Since # {}, PageErrors = {}, NEW l \in ActiveRows(BasePage)
  PROVE  /\ HeadPage.there /\ l \in RowsOf(HeadPage)
         /\ Permitted(l) \/ BasePage.rows[l].trigger \subseteq HeadRow(l).trigger
<1>1. BasePage.there /\ l \in Frictions
  BY DEF ActiveRows, RowsOf
<1>2. HeadPage.there
  <2>1. HeadPage.there \/ \A i \in Since : ~ OnSurface(i)
    BY DEF PageErrors
  <2>2. (\A i \in Since : ~ OnSurface(i)) => HeadPage = BasePage
    BY DEF OnSurface, RecallInv, PageHandedOn
  <2> QED
    BY <1>1, <2>1, <2>2
<1>3. Dropped = {}
  BY <1>1, <1>2 DEF PageErrors
<1>4. \A m \in Withdrawn : Permitted(m)
  BY <1>1, <1>2 DEF PageErrors
<1> QED
  BY <1>2, <1>3, <1>4 DEF Dropped, Withdrawn

LEMMA NoMemoryErrors ==
  ASSUME RecallInv, MemoryErrors = {}, NEW l \in RowsOf(HeadPage), l \notin ActiveRows(HeadPage)
  PROVE  /\ HeadRow(l).trigger = {}
         /\ \/ \E m \in ActiveRows(HeadPage) :
                 HeadRow(l).status.by \in {m} \cup NamedBy(HeadRow(m))
            \/ HeadRow(l).gates \cap StructuralGates \cap LiveGates # {}
            \/ HeadRow(l).gates \cap LiveGates = {}
<1>1. RetiredErrors(l) = {}
  <2>1. UNION {RetiredErrors(m) : m \in RowsOf(HeadPage) \ ActiveRows(HeadPage)} = {}
    BY DEF MemoryErrors
  <2>2. RetiredErrors(l) \subseteq
          UNION {RetiredErrors(m) : m \in RowsOf(HeadPage) \ ActiveRows(HeadPage)}
    OBVIOUS
  <2> QED
    BY <2>1, <2>2
<1>2. HeadRow(l).trigger = {}
  BY <1>1 DEF RetiredErrors
<1>3. HeadRow(l).status.is \in {"superseded", "enforced", "retired"}
  BY HeadPageTyped, RecallAssumption DEF RecallInv, RowsOf, ActiveRows, HeadRow
<1>4. CASE HeadRow(l).status.is = "superseded"
  <2>1. PICK m \in ActiveRows(HeadPage) :
          HeadRow(l).status.by \in {m, HeadRow(m).falsifier} \cup HeadRow(m).gates
    BY <1>1, <1>4 DEF RetiredErrors
  <2> QED
    BY <1>2, <2>1 DEF NamedBy
<1>5. CASE HeadRow(l).status.is = "enforced"
  BY <1>1, <1>2, <1>5 DEF RetiredErrors
<1>6. CASE HeadRow(l).status.is = "retired"
  BY <1>1, <1>2, <1>6 DEF RetiredErrors
<1> QED
  BY <1>3, <1>4, <1>5, <1>6

\* A trigger that grew meets what it met.
LEMMA TriggersGrow ==
  ASSUME NEW less, NEW more, less.trigger \subseteq more.trigger, NEW i
  PROVE  FilesMet(less, i) \subseteq FilesMet(more, i)
         /\ SymbolsMet(less, i) \subseteq SymbolsMet(more, i)
BY DEF FilesMet, SymbolsMet, EntriesOf

\* A lesson that is met and answered for to the check's content is answered for.
LEMMA NoRecallErrors ==
  ASSUME RecallInv, recallMode # "advisory", NEW i \in Since, RecallErrors(i) = {},
         span[i].says.tests \subseteq PassingTests,
         NEW l \in ActiveRows(HeadPage),
         FilesMet(HeadRow(l), i) # {} \/ SymbolsMet(HeadRow(l), i) # {}
  PROVE  Answered(l, i)
<1>1. l \in Hits(i)
  BY DEF Hits, Matched
<1>2. Obliges(l, i)
  BY RecallAssumption DEF Obliges, RecallInv, RecallTypeOK
<1>3. \/ Waived(l, i)
      \/ /\ Reconstructed(l, i)
         /\ RequiredTests(l) = {} \/ RequiredTests(l) \cap span[i].says.tests # {}
  BY <1>1, <1>2 DEF RecallErrors
<1>4. CASE Waived(l, i)
  <2>1. PICK reason \in Reasons(i) : WaiverTokens(reason) \cap HitAnchors(l, i) # {}
    BY <1>4 DEF Waived
  <2>2. \/ WaiverTokens(reason) \subseteq {reason}
        \/ /\ reason \in DOMAIN TicketScopes
           /\ WaiverTokens(reason) = {reason} \cup TicketScopes[reason]
    BY DEF WaiverTokens
  <2>3. \/ reason \in HitAnchors(l, i)
        \/ reason \in DOMAIN TicketScopes /\ TicketScopes[reason] \cap HitAnchors(l, i) # {}
    BY <2>1, <2>2
  <2> QED
    BY <2>3 DEF Answered
<1>5. CASE /\ Reconstructed(l, i)
           /\ RequiredTests(l) = {} \/ RequiredTests(l) \cap span[i].says.tests # {}
  <2>1. \E line \in span[i].says.lines : line.left \in NamedBy(HeadRow(l))
    BY <1>5 DEF Reconstructed
  <2>2. RequiredTests(l) = {} \/ RequiredTests(l) \cap PassingTests \cap span[i].says.tests # {}
    BY <1>5
  <2> QED
    BY <2>1, <2>2 DEF Answered
<1> QED
  BY <1>3, <1>4, <1>5

LEMMA AcceptedAnswers ==
  ASSUME RecallInv
  PROVE  LessonsAnswered
<1> SUFFICES ASSUME recallMode # "advisory", Since # {}, ChangesErrors = {},
                    MemoryErrors = {}, NEW l \in ActiveRows(BasePage)
             PROVE  /\ HeadPage.there /\ HeadRow(l) # NoRow
                    /\ \/ l \in ActiveRows(HeadPage)
                       \/ \E m \in ActiveRows(HeadPage) :
                            HeadRow(l).status.by \in {m} \cup NamedBy(HeadRow(m))
                       \/ HeadRow(l).gates \cap StructuralGates \cap LiveGates # {}
                       \/ HeadRow(l).gates \cap LiveGates = {}
                    /\ \A i \in Since :
                         \/ Permitted(l) \/ Answered(l, i)
                         \/ /\ FilesMet(BasePage.rows[l], i) = {}
                            /\ SymbolsMet(BasePage.rows[l], i) = {}
  BY DEF LessonsAnswered
<1>1. /\ PageErrors = {} /\ RiskErrors = {}
      /\ \A i \in Since : RecallErrors(i) = {}
  BY DEF ChangesErrors
<1>2. /\ HeadPage.there /\ l \in RowsOf(HeadPage)
      /\ Permitted(l) \/ BasePage.rows[l].trigger \subseteq HeadRow(l).trigger
  BY <1>1, NoPageErrors
<1>3. HeadRow(l) # NoRow
  BY <1>2 DEF RowsOf, HeadRow
<1>4. \A i \in Since : span[i].says.tests \subseteq PassingTests
  BY <1>1 DEF RiskErrors
<1>5. l \in ActiveRows(HeadPage) \/ HeadRow(l).trigger = {}
  BY <1>2, NoMemoryErrors
<1>6. ASSUME NEW i \in Since, ~ Permitted(l),
             \/ FilesMet(BasePage.rows[l], i) # {}
             \/ SymbolsMet(BasePage.rows[l], i) # {}
      PROVE  Answered(l, i)
  <2>1. FilesMet(HeadRow(l), i) # {} \/ SymbolsMet(HeadRow(l), i) # {}
    BY <1>2, <1>6, TriggersGrow
  <2>2. HeadRow(l).trigger # {}
    BY <2>1 DEF FilesMet, SymbolsMet, EntriesOf
  <2> QED
    BY <1>1, <1>4, <1>5, <2>1, <2>2, NoRecallErrors
<1>7. \/ l \in ActiveRows(HeadPage)
      \/ \E m \in ActiveRows(HeadPage) :
           HeadRow(l).status.by \in {m} \cup NamedBy(HeadRow(m))
      \/ HeadRow(l).gates \cap StructuralGates \cap LiveGates # {}
      \/ HeadRow(l).gates \cap LiveGates = {}
  BY <1>2, NoMemoryErrors
<1> QED
  BY <1>2, <1>3, <1>6, <1>7

\* In a range that is accepted with recall obligatory, every lesson of the base
\* lives on or was retired for cause, and every commit that met its trigger
\* answered for it (change-contract.mjs:99-102, :277-278).
THEOREM AcceptedRangesAnswer == RecallSpec => []LessonsAnswered
<1>1. RecallInit => RecallInv
  <2> SUFFICES ASSUME RecallInit PROVE RecallInv
    OBVIOUS
  <2>1. PICK page \in FirstPages : span = <<[page |-> page]>>
    BY DEF RecallInit
  <2>2. [page |-> page] \in Spanned
    BY DEF Spanned
  <2>3. span \in Seq(Spanned) /\ Len(span) = 1
    BY <2>1, <2>2
  <2> QED
    BY <2>3 DEF RecallInit, RecallInv, RecallTypeOK, PageHandedOn, HeadPage, BasePage
<1>2. RecallInv /\ [CommitLesson]_recallVars => RecallInv'
  <2>1. RecallInv /\ UNCHANGED recallVars => RecallInv'
    BY DEF recallVars, RecallInv, RecallTypeOK, PageHandedOn, Since, HeadPage, BasePage
  <2> QED
    BY <2>1, CommitKeeps
<1>3. RecallInv => LessonsAnswered
  BY AcceptedAnswers
<1> QED
  BY <1>1, <1>2, <1>3, PTL DEF RecallSpec
-----------------------------------------------------------------------------
(* Change contracts. A test stays what it is until a commit changes it, so a   *)
(* run at the head is one of the commit's test, or a later commit changed it.  *)

RangeCommits == [source : Sources, test : TestFiles, files : SUBSET (Surface \cup {"doc"}),
                 says : Declarations \cup {{}}]

ContractTypeOK ==
  range \in [commits : Seq(RangeCommits), script : Scripts] /\ Len(range.commits) >= 1

FilesTell ==
  \A i \in Declaring : "test" \in At_(i).files <=> At_(i).test # At_(i - 1).test

TestHandedOn ==
  \A i \in 1 .. HeadCommit :
    (\A j \in i + 1 .. HeadCommit : "test" \notin At_(j).files) =>
      At_(i).test = At_(HeadCommit).test

JudgedSo ==
  \/ judged = {"unjudged"}
  \/ judged = IF Declaring = {} THEN {"vacuous-range"} ELSE ContractErrors

ContractInv == ContractTypeOK /\ FilesTell /\ TestHandedOn /\ JudgedSo

LEMMA AddCommitKeeps ==
  ASSUME ContractInv, NEW origin \in Sources, NEW test \in TestFiles,
         NEW says \in Declarations, AddCommit(origin, test, says)
  PROVE  ContractInv'
<1> DEFINE before  == At_(HeadCommit)
           changed == {f \in {"source", "test"} :
                         IF f = "source" THEN origin # before.source
                                         ELSE test # before.test}
<1>1. PICK edited \in IF changed = {} THEN {{"other"}, {"doc"}} ELSE {changed} :
        range' = [range EXCEPT !.commits =
                    Append(range.commits, [source |-> origin, test |-> test,
                                           files |-> edited, says |-> says])]
  BY DEF AddCommit
<1> DEFINE new == [source |-> origin, test |-> test, files |-> edited, says |-> says]
           n   == Len(range.commits)
<1>2. edited \in SUBSET (Surface \cup {"doc"})
  BY <1>1 DEF Surface
<1>3. "test" \in edited <=> test # before.test
  <2> DEFINE moved == test # before.test
  <2>1. "test" \in changed <=> moved
    OBVIOUS
  <2> QED
    BY <1>1, <2>1
<1>4. new \in RangeCommits /\ new.test = test /\ new.files = edited
  BY <1>2 DEF RangeCommits
<1> HIDE DEF new, changed
<1>5. /\ range'.commits = Append(range.commits, new) /\ range'.script = range.script
      /\ range' \in [commits : Seq(RangeCommits), script : Scripts]
  BY <1>1, <1>4 DEF ContractInv, ContractTypeOK, new
<1>6. /\ n \in Nat /\ n >= 1 /\ Len(range'.commits) = n + 1
      /\ \A i \in 1 .. n : range'.commits[i] = range.commits[i]
      /\ range'.commits[n + 1] = new
  BY <1>4, <1>5 DEF ContractInv, ContractTypeOK
<1>7. before = range.commits[n]
  BY DEF At_, HeadCommit
<1> HIDE DEF before, n
<1>8. ContractTypeOK'
  BY <1>5, <1>6 DEF ContractTypeOK
<1>9. FilesTell'
  <2> SUFFICES ASSUME NEW i \in 2 .. n + 1
               PROVE  "test" \in range'.commits[i].files
                        <=> range'.commits[i].test # range'.commits[i - 1].test
    BY <1>6 DEF FilesTell, Declaring, At_, HeadCommit
  <2>1. CASE i = n + 1
    <3>1. i - 1 = n /\ n \in 1 .. n
      BY <2>1, <1>6
    <3> QED
      BY <1>3, <1>4, <1>6, <1>7, <2>1, <3>1
  <2>2. CASE i # n + 1
    <3>1. i \in 1 .. n /\ i - 1 \in 1 .. n /\ i \in 2 .. n
      BY <1>6, <2>2
    <3>2. "test" \in range.commits[i].files
            <=> range.commits[i].test # range.commits[i - 1].test
      BY <3>1 DEF ContractInv, FilesTell, Declaring, At_, HeadCommit, n
    <3> QED
      BY <1>6, <3>1, <3>2
  <2> QED
    BY <2>1, <2>2
<1>10. TestHandedOn'
  <2> SUFFICES ASSUME NEW i \in 1 .. n + 1,
                      \A j \in i + 1 .. n + 1 : "test" \notin range'.commits[j].files
               PROVE  range'.commits[i].test = range'.commits[n + 1].test
    BY <1>6 DEF TestHandedOn, At_, HeadCommit
  <2>1. CASE i = n + 1
    BY <2>1
  <2>2. CASE i # n + 1
    <3>1. i \in 1 .. n /\ n + 1 \in i + 1 .. n + 1
      BY <1>6, <2>2
    <3>2. \A j \in i + 1 .. n : "test" \notin range.commits[j].files
      <4> SUFFICES ASSUME NEW j \in i + 1 .. n
                   PROVE  "test" \notin range.commits[j].files
        OBVIOUS
      <4>1. j \in i + 1 .. n + 1 /\ j \in 1 .. n
        BY <1>6
      <4> QED
        BY <1>6, <4>1
    <3>3. range.commits[i].test = range.commits[n].test
      BY <3>1, <3>2 DEF ContractInv, TestHandedOn, At_, HeadCommit, n
    <3>4. "test" \notin edited
      BY <1>4, <1>6, <3>1
    <3>5. test = range.commits[n].test
      BY <1>3, <1>7, <3>4
    <3> QED
      BY <1>4, <1>6, <3>1, <3>3, <3>5
  <2> QED
    BY <2>1, <2>2
<1>11. JudgedSo'
  BY DEF AddCommit, JudgedSo
<1> QED
  BY <1>8, <1>9, <1>10, <1>11 DEF ContractInv

-----------------------------------------------------------------------------
(* What an accepted range says.                                                *)

LEMMA ClaimsChecked ==
  ASSUME Declaring # {}, ContractErrors = {}, NEW i \in Declaring,
         NEW entry \in At_(i).says
  PROVE  Admitted(i, entry) /\ ClaimErrors(i, entry) = {}
<1>1. AdmitErrors(i, entry) = {}
  <2>1. AdmitErrors(i, entry) \subseteq
          UNION {AdmitErrors(i, e) : e \in At_(i).says}
    OBVIOUS
  <2>2. CommitErrors(i) \cup UNION {AdmitErrors(i, e) : e \in At_(i).says} \subseteq
          UNION {CommitErrors(k) \cup UNION {AdmitErrors(k, e) : e \in At_(k).says} :
                   k \in Declaring}
    OBVIOUS
  <2> QED
    BY <2>1, <2>2 DEF ContractErrors
<1>2. Admitted(i, entry)
  BY <1>1 DEF AdmitErrors, Admitted
<1>3. <<i, entry>> \in Claims
  <2>1. <<i, entry>> \in {i} \X At_(i).says
    OBVIOUS
  <2>2. <<i, entry>> \in UNION {{j} \X At_(j).says : j \in Declaring}
    BY <2>1
  <2> QED
    BY <1>2, <2>2 DEF Claims
<1>4. ClaimErrors(<<i, entry>>[1], <<i, entry>>[2]) \subseteq
        UNION {ClaimErrors(claim[1], claim[2]) : claim \in Claims}
  BY <1>3
<1> QED
  BY <1>2, <1>4 DEF ContractErrors

\* What a run of a test on a source is.
LEMMA RunsShow ==
  ASSUME NEW test, NEW origin
  PROVE  LET run == RunOn(test, origin) IN
         /\ ~ run.setup => /\ test # NoTest /\ test.needs \subseteq origin
                          /\ run.passing = test.cases \cap origin
                          /\ run.failing = test.cases \ origin
         /\ run.setup => test = NoTest \/ ~ test.needs \subseteq origin
         /\ run.ok => /\ test # NoTest /\ test.needs \subseteq origin
                     /\ test.cases \subseteq origin
                     /\ run.passing = test.cases
         /\ ~ run.setup /\ ~ run.ok => test.cases \ origin # {}
BY DEF RunOn

\* A flip that is accepted was red, by the observer it is held against.
LEMMA FrozenFlips ==
  ASSUME NEW i, FlipErrors(i, TRUE) = {}
  PROVE  LET red == At_(i).test.cases \ At_(i - 1).source IN
         /\ red # {} /\ red \subseteq AtHead.passing
         /\ \/ At_(i - 1).test.cases \subseteq AtHead.passing
            \/ ~ At_(i - 1).test.needs \subseteq At_(i - 1).source
<1> DEFINE before == Before(i, TRUE)
           plain  == BeforePlain(i)
           red    == At_(i).test.cases \ At_(i - 1).source
<1>1. ~ before.setup /\ ~ before.ok
  BY DEF FlipErrors
<1>2. /\ before.failing \subseteq AtHead.passing
      /\ plain.passing \cup plain.failing \subseteq AtHead.passing
  <2>1. {e \in {"frozen-observer-mismatch", "observer-shrinkage"} :
           CASE e = "frozen-observer-mismatch" -> ~ before.failing \subseteq AtHead.passing
             [] OTHER -> ~ plain.passing \cup plain.failing \subseteq AtHead.passing} = {}
    BY <1>1 DEF FlipErrors
  <2> HIDE DEF before, plain
  <2> QED
    BY <2>1
<1>3. before = RunOn(At_(i).test, At_(i - 1).source)
  BY DEF Before
<1>4. before.failing = red /\ red # {}
  <2> HIDE DEF before
  <2> QED
    BY <1>1, <1>3 DEF RunOn
<1>5. plain = RunOn(At_(i - 1).test, At_(i - 1).source)
  BY DEF BeforePlain
<1> HIDE DEF before, plain
<1>6. \/ plain.passing \cup plain.failing = At_(i - 1).test.cases
      \/ At_(i - 1).test = NoTest
      \/ ~ At_(i - 1).test.needs \subseteq At_(i - 1).source
  BY <1>5, RunsShow
<1>7. At_(i - 1).test = NoTest => At_(i - 1).test.cases \subseteq AtHead.passing
  BY DEF NoTest
<1> QED
  BY <1>2, <1>4, <1>6, <1>7

LEMMA PlainFlips ==
  ASSUME NEW i, FlipErrors(i, FALSE) = {}
  PROVE  At_(i - 1).test.cases \ At_(i - 1).source # {}
<1> DEFINE before == Before(i, FALSE)
<1>1. ~ before.setup /\ ~ before.ok
  BY DEF FlipErrors
<1>2. before = RunOn(At_(i - 1).test, At_(i - 1).source)
  BY DEF Before, BeforePlain
<1> HIDE DEF before
<1> QED
  BY <1>1, <1>2 DEF RunOn

LEMMA AcceptedHolds ==
  ASSUME ContractInv
  PROVE  AcceptedIsSo
<1> SUFFICES ASSUME judged = {}, NEW i \in Declaring, NEW entry \in At_(i).says,
                    entry.after = "green"
             PROVE
      LET red     == At_(i).test.cases \ At_(i - 1).source
          flip    == entry.before = "red"
          changed == IF IsScript(entry)
                     THEN At_(BaseCommit).test \notin {NoTest, At_(HeadCommit).test}
                     ELSE "test" \in At_(i).files
      IN
        /\ AtHead.ok
        /\ (flip /\ (changed \/ ~ IsScript(entry))) =>
             /\ red # {}
             /\ \/ red \subseteq AtHead.passing
                \/ ~ changed /\ \E j \in i + 1 .. HeadCommit : "test" \in At_(j).files
        /\ (flip /\ changed) =>
             \/ At_(i - 1).test.cases \subseteq AtHead.passing
             \/ ~ At_(i - 1).test.needs \subseteq At_(i - 1).source
        /\ (~ flip /\ changed) => red = {}
  BY DEF AcceptedIsSo
<1> DEFINE red     == At_(i).test.cases \ At_(i - 1).source
           changed == IF IsScript(entry)
                      THEN At_(BaseCommit).test \notin {NoTest, At_(HeadCommit).test}
                      ELSE "test" \in At_(i).files
<1>1. Declaring # {} /\ ContractErrors = {}
  BY DEF ContractInv, JudgedSo
<1>2. Admitted(i, entry) /\ ClaimErrors(i, entry) = {}
  BY <1>1, ClaimsChecked
<1>3. AtHead.ok
  BY <1>2 DEF ClaimErrors, AtHead, RunOn
<1>4. changed => Frozen(i, entry)
  BY <1>2 DEF Admitted, SelfAuthorized, Frozen, FileChanged, TestRedefined
<1>5. entry.before = "red" => FlipErrors(i, Frozen(i, entry)) = {}
  BY <1>2, <1>3 DEF ClaimErrors
<1>6. CASE Frozen(i, entry)
  <2>1. entry.before = "red" =>
          /\ red # {} /\ red \subseteq AtHead.passing
          /\ \/ At_(i - 1).test.cases \subseteq AtHead.passing
             \/ ~ At_(i - 1).test.needs \subseteq At_(i - 1).source
    <3> SUFFICES ASSUME entry.before = "red" PROVE FlipErrors(i, TRUE) = {}
      BY FrozenFlips
    <3>1. FlipErrors(i, Frozen(i, entry)) = {}
      BY <1>5
    <3> QED
      BY <1>6, <3>1 DEF FlipErrors, Before
  <2>2. entry.before # "red" => red = {}
    <3> SUFFICES ASSUME entry.before # "red" PROVE red = {}
      OBVIOUS
    <3> DEFINE before == Before(i, TRUE)
    <3>1. before.ok
      BY <1>2, <1>3, <1>6 DEF ClaimErrors, KeepErrors
    <3>2. before = RunOn(At_(i).test, At_(i - 1).source)
      BY DEF Before
    <3> HIDE DEF before
    <3> QED
      BY <3>1, <3>2 DEF RunOn
  <2> QED
    BY <1>3, <2>1, <2>2
<1>7. CASE ~ Frozen(i, entry)
  <2>1. ~ changed
    BY <1>4, <1>7
  <2>2. ASSUME entry.before = "red", ~ IsScript(entry)
        PROVE  /\ red # {}
               /\ \/ red \subseteq AtHead.passing
                  \/ \E j \in i + 1 .. HeadCommit : "test" \in At_(j).files
    <3>1. "test" \notin At_(i).files
      BY <2>1, <2>2
    <3>2. At_(i).test = At_(i - 1).test
      BY <3>1 DEF ContractInv, FilesTell
    <3>3. FlipErrors(i, FALSE) = {}
      BY <1>5, <1>7, <2>2 DEF FlipErrors, Before
    <3>4. red # {}
      BY <3>2, <3>3, PlainFlips
    <3>5. ASSUME \A j \in i + 1 .. HeadCommit : "test" \notin At_(j).files
          PROVE  red \subseteq AtHead.passing
      <4>1. i \in 1 .. HeadCommit
        BY DEF Declaring, ContractInv, ContractTypeOK, HeadCommit
      <4>2. At_(i).test = At_(HeadCommit).test
        BY <3>5, <4>1 DEF ContractInv, TestHandedOn
      <4>3. AtHead.passing = At_(HeadCommit).test.cases
        BY <1>3, RunsShow DEF AtHead
      <4> QED
        BY <4>2, <4>3
    <3> QED
      BY <3>4, <3>5
  <2> QED
    BY <1>3, <2>1, <2>2
<1> QED
  BY <1>6, <1>7

LEMMA SameErrors ==
  ASSUME range' = range
  PROVE  ContractErrors' = ContractErrors
BY DEF ContractErrors, CommitErrors, AdmitErrors, Conflicts, Claims, ClaimErrors, Declaring,
       HeadCommit, At_, Known, IsScript, SelfAuthorized, Frozen, AuthoredNow, CommandChanged,
       FileChanged, NonLiteral, TestRedefined, Admitted, Exercised, Reached, FlipErrors,
       KeepErrors, Before, BeforePlain, AtHead

\* What an accepted range declares of a test is so: a flip was red before the
\* commit and is green at the head, and a kept green was green
\* (change-contract.mjs:340-341).
THEOREM AcceptedRangesAreSo == ContractSpec => []AcceptedIsSo
<1>1. ContractInit => ContractInv
  <2> SUFFICES ASSUME ContractInit PROVE ContractInv
    OBVIOUS
  <2>1. PICK origin \in Sources, test \in TestFiles, script \in Scripts :
          range = [commits |-> <<[source |-> origin, test |-> test,
                                 files |-> {}, says |-> {}]>>, script |-> script]
    BY DEF ContractInit
  <2>2. [source |-> origin, test |-> test, files |-> {}, says |-> {}] \in RangeCommits
    BY DEF RangeCommits
  <2>3. /\ range.commits = <<[source |-> origin, test |-> test, files |-> {}, says |-> {}]>>
        /\ range.commits \in Seq(RangeCommits) /\ Len(range.commits) = 1
        /\ range.script \in Scripts
    BY <2>1, <2>2
  <2>4. ContractTypeOK
    BY <2>1, <2>3 DEF ContractTypeOK
  <2>5. FilesTell /\ TestHandedOn
    BY <2>3 DEF FilesTell, TestHandedOn, Declaring, HeadCommit, At_
  <2> QED
    BY <2>4, <2>5 DEF ContractInit, ContractInv, JudgedSo
<1>2. ContractInv /\ [ContractNext]_contractVars => ContractInv'
  <2>1. ContractInv /\ Judge => ContractInv'
    <3> SUFFICES ASSUME ContractInv, Judge PROVE ContractInv'
      OBVIOUS
    <3>1. /\ ContractTypeOK' /\ FilesTell' /\ TestHandedOn'
          /\ Declaring' = Declaring
      BY DEF Judge, ContractInv, ContractTypeOK, FilesTell, TestHandedOn, Declaring,
             HeadCommit, At_
    <3>2. ContractErrors' = ContractErrors
      BY SameErrors DEF Judge
    <3> QED
      BY <3>1, <3>2 DEF Judge, ContractInv, JudgedSo
  <2>2. ContractInv /\ UNCHANGED contractVars => ContractInv'
    <3> SUFFICES ASSUME ContractInv, UNCHANGED contractVars PROVE ContractInv'
      OBVIOUS
    <3>1. /\ ContractTypeOK' /\ FilesTell' /\ TestHandedOn'
          /\ Declaring' = Declaring
      BY DEF contractVars, ContractInv, ContractTypeOK, FilesTell, TestHandedOn, Declaring,
             HeadCommit, At_
    <3>2. ContractErrors' = ContractErrors
      BY SameErrors DEF contractVars
    <3> QED
      BY <3>1, <3>2 DEF contractVars, ContractInv, JudgedSo
  <2> QED
    BY <2>1, <2>2, AddCommitKeeps DEF ContractNext
<1>3. ContractInv => AcceptedIsSo
  BY AcceptedHolds
<1> QED
  BY <1>1, <1>2, <1>3, PTL DEF ContractSpec

-----------------------------------------------------------------------------
(* The lane loop. Whatever is written to the queue beside the loops keeps the  *)
(* operations they have prepared and the recipes these were checked with; only *)
(* an operation that lands closes a lane task.                                 *)

LoopPcs == {"idle", "finished", "stopped", "picked", "intended", "claimed", "cut",
            "worked", "merged", "prepared", "applied"}

LaneType ==
  [pc : LoopPcs, runs : Nat, task : Tasks \cup {0}, epoch : Nat, revision : Nat,
   base : Commits \cup {NoObject}, work : Commits \cup {NoObject},
   recipe : Recipes \cup {NoRecipe}, target : Commits \cup {NoObject},
   candidate : Commits \cup {NoObject}]

\* Every generation of the task has an operation id.
Numbered(t) == {t} \X (1..MaxEpoch) \subseteq Operations

\* What a loop knows at each of its points.
LaneKnows(l) ==
  /\ l.pc \notin {"idle", "finished", "stopped"} => l.task \in Tasks /\ Numbered(l.task)
  /\ l.pc \in {"claimed", "cut", "worked", "merged", "prepared", "applied"}
       => l.epoch \in 1..MaxEpoch
  /\ l.pc = "cut" => l.base \in Commits
  /\ l.pc = "worked" => l.work \in Commits
  /\ l.pc \in {"idle", "finished", "stopped", "picked", "intended", "claimed", "cut"}
       => l.work = NoObject

\* A merge a loop has proved passes the recipe and contains its target.
MergeProven(l) ==
  l.pc = "merged" => /\ l.target \in Commits /\ l.candidate \in Commits
                     /\ l.recipe \in l.candidate.green
                     /\ l.target.has \subseteq l.candidate.has

FrontierTypeOK ==
  /\ queue \in State
  /\ WellFormed(queue)
  /\ Unused(queue)
  /\ \A t \in Tasks : Exists(queue, t) => Numbered(t)
  /\ head \in Commits
  /\ clock \in Nat
  /\ lane \in [Runners -> LaneType]
  /\ receipt \in [Operations -> Recipes \cup {NoRecipe}]
  /\ hands \in Scenarios

LanesProven == \A r \in Runners : LaneKnows(lane[r]) /\ MergeProven(lane[r])

\* No operation is ahead of its task, and one of the generation that holds the
\* task carries the receipt of the recipe the task has.
ReceiptsCurrent ==
  \A o \in Operations :
    LET operation == queue.operations[o]
        task == queue.tasks[operation.task]
    IN /\ operation.status # "absent" => operation.epoch <= task.epoch
       /\ (/\ operation.status = "prepared"
           /\ task.status = "claimed" /\ operation.epoch = task.epoch)
            => receipt[o] = task.laneRecipe

FrontierInv == FrontierTypeOK /\ LanesProven /\ ReceiptsTrue /\ ReceiptsCurrent

-----------------------------------------------------------------------------
(* Commands beside the loops. *)

\* What a command that lands nothing keeps of a task ...
KeepsProof(a, b) ==
  /\ b.epoch >= a.epoch
  /\ b.status = "claimed" /\ b.epoch = a.epoch
       => a.status = "claimed" /\ b.laneRecipe = a.laneRecipe
  /\ b.lane /\ b.status = "done"
       => a.lane /\ a.status = "done" /\ b.result = a.result

\* ... and one that prepares nothing either, of an operation.
KeepsOperation(x, y) ==
  /\ y.status = x.status /\ y.task = x.task /\ y.epoch = x.epoch
  /\ y.object = x.object /\ y.expected = x.expected

LEMMA MoveKeepsProof ==
  ASSUME NEW a \in Task, NEW b \in Task, ClaimWellFormed(a), NEW now \in Nat,
         ClaimStep(a, b, now), Moved(a, b)
  PROVE  KeepsProof(a, b)
<1>1. a.epoch \in Nat /\ b.epoch \in Nat  BY DEF Task
<1>2. b.epoch >= a.epoch  BY DEF ClaimStep
<1>3. ASSUME b.status = "claimed", b.epoch = a.epoch
      PROVE  a.status = "claimed" /\ b.laneRecipe = a.laneRecipe
  <2>1. b.owner \in Workers /\ b.owner # NoWorker
    BY <1>3, ConstantsAssumption DEF ClaimStep, ClaimWellFormed
  <2>2. b.owner = a.owner  BY <1>1, <1>3, <2>1 DEF ClaimStep
  <2>3. a.status = "claimed"  BY <2>1, <2>2 DEF ClaimWellFormed
  <2> QED  BY <2>3 DEF Moved
<1>4. ASSUME b.lane, b.status = "done"
      PROVE  a.lane /\ a.status = "done" /\ b.result = a.result
  BY <1>4 DEF Moved, StatusStep
<1> QED  BY <1>2, <1>3, <1>4 DEF KeepsProof

LEMMA SameKeepsProof ==
  ASSUME NEW a \in Task
  PROVE  KeepsProof(a, a)
BY DEF KeepsProof, Task

\* An edited task is open or ready.
LEMMA EditKeepsProof ==
  ASSUME NEW s \in State, NEW n, Edits(s, n), NEW u \in Tasks
  PROVE  KeepsProof(s.tasks[u], n.tasks[u])
<1>1. PICK t \in Tasks, d \in SUBSET Tasks, la \in BOOLEAN,
           r \in Recipes \cup {NoRecipe}, text \in BOOLEAN :
             n \in Edit(s, t, d, la, r, text)
  BY DEF Edits
<1> DEFINE a == s.tasks[t]
           b == [a EXCEPT !.dependencies = d, !.lane = a.lane \/ la, !.laneRecipe = r]
           c == [b EXCEPT !.status = "open"]
<1>2. n \in {WithTask(s, t, b), WithTask(s, t, c)} /\ a.status \in {"open", "ready"}
  BY <1>1 DEF Edit
<1>3. a \in Task  BY TaskOf
<1>4. b.status = a.status /\ b.epoch = a.epoch /\ c.status = "open" /\ c.epoch = a.epoch
  BY <1>3 DEF Task
<1>5. KeepsProof(a, b) /\ KeepsProof(a, c)
  BY <1>2, <1>3, <1>4 DEF KeepsProof, Task
<1> HIDE DEF b, c
<1>6. n.tasks[t] \in {b, c} /\ (u # t => n.tasks[u] = s.tasks[u])
  BY <1>2 DEF WithTask, State
<1> QED  BY <1>5, <1>6, TaskOf, SameKeepsProof

LEMMA AddKeepsProof ==
  ASSUME NEW s \in State, Unused(s), NEW n, Adds(s, n), NEW u \in Tasks
  PROVE  KeepsProof(s.tasks[u], n.tasks[u])
<1>1. PICK t \in Tasks, d \in SUBSET Tasks, la \in BOOLEAN,
           r \in Recipes \cup {NoRecipe} : n \in Add(s, t, d, la, r)
  BY DEF Adds
<1> DEFINE b == [NoTask EXCEPT !.status = "open", !.dependencies = d,
                               !.lane = la, !.laneRecipe = r]
<1>2. n = WithTask(s, t, b) /\ ~Exists(s, t)  BY <1>1 DEF Add
<1>3. s.tasks[t] = NoTask  BY <1>2 DEF Unused
<1>4. b.status = "open" /\ b.epoch = 0  BY DEF NoTask
<1>5. KeepsProof(s.tasks[t], b)  BY <1>3, <1>4 DEF KeepsProof, NoTask
<1> HIDE DEF b
<1>6. n.tasks[t] = b /\ (u # t => n.tasks[u] = s.tasks[u])
  BY <1>2 DEF WithTask, State
<1> QED  BY <1>5, <1>6, TaskOf, SameKeepsProof

LEMMA QuietKeepsProof ==
  ASSUME NEW s \in State, WellFormed(s), Unused(s), NEW now \in Nat, NEW n,
         QuietCommand(s, n, now)
  PROVE  /\ n \in State /\ WellFormed(n) /\ Unused(n)
         /\ \A u \in Tasks : KeepsProof(s.tasks[u], n.tasks[u])
<1>1. n \in State  BY CommandType DEF Command
<1>2. ClaimSteps(s, n, now)  BY CommandClaims DEF Command
<1>3. WellFormed(n)  BY <1>2 DEF ClaimSteps, ClaimStep, WellFormed
<1>4. Unused(n)  BY <1>2 DEF ClaimSteps, ClaimStep, Unused, Exists
<1>5. ASSUME NEW u \in Tasks
      PROVE  KeepsProof(s.tasks[u], n.tasks[u])
  <2>1. s.tasks[u] \in Task /\ n.tasks[u] \in Task /\ ClaimWellFormed(s.tasks[u])
    BY <1>1, TaskOf DEF WellFormed
  <2>2. CASE Adds(s, n)  BY <2>2, AddKeepsProof
  <2>3. CASE Edits(s, n)  BY <2>3, EditKeepsProof
  <2>4. CASE ~Adds(s, n) /\ ~Edits(s, n)
    <3>1. CASE n.tasks = s.tasks  BY <2>1, <3>1, SameKeepsProof
    <3>2. ASSUME NEW t \in Tasks, MoveStep(s, n, t)
          PROVE  KeepsProof(s.tasks[u], n.tasks[u])
      <4>1. PICK b \in Task : n.tasks = [s.tasks EXCEPT ![t] = b] /\ Moved(s.tasks[t], b)
        BY <3>2 DEF MoveStep
      <4>2. n.tasks[t] = b /\ (u # t => n.tasks[u] = s.tasks[u])
        BY <4>1 DEF State
      <4>3. CASE u = t
        BY <1>2, <2>1, <4>1, <4>2, <4>3, MoveKeepsProof DEF ClaimSteps
      <4>4. CASE u # t  BY <2>1, <4>2, <4>4, SameKeepsProof
      <4> QED  BY <4>3, <4>4
    <3> QED  BY <2>4, <3>1, <3>2, CommandMoves
  <2> QED  BY <2>2, <2>3, <2>4
<1> QED  BY <1>1, <1>3, <1>4, <1>5

-----------------------------------------------------------------------------
(* Steps of the loops and the hands. *)

\* A commit adds a version to what the command wrote.
Pushed(n) == queue' = [n EXCEPT !.version = queue.version + 1]

LEMMA WritesPush ==
  ASSUME NEW nexts, Writes(nexts)
  PROVE  \E n \in nexts : Pushed(n)
BY DEF Writes, Pushed

LEMMA PushedKeeps ==
  ASSUME queue \in State, NEW n \in State, Pushed(n)
  PROVE  /\ queue' \in State
         /\ queue'.tasks = n.tasks
         /\ queue'.operations = n.operations
         /\ queue'.intents = n.intents
BY DEF Pushed, State

\* The queue is left alone, or written by a command that touches no operation
\* but to hand it over, and adds no task.
QueueKept ==
  \/ queue' = queue
  \/ \E n : /\ QuietCommand(queue, n, clock)
            /\ \A o \in Operations :
                 KeepsOperation(queue.operations[o], n.operations[o])
            /\ \A u \in Tasks : Exists(n, u) => Exists(queue, u)
            /\ Pushed(n)

LEMMA OneTaskKept ==
  ASSUME NEW s \in State, NEW t \in Tasks, NEW b, NEW o \in Operations
  PROVE  KeepsOperation(s.operations[o], WithTask(s, t, b).operations[o])
BY DEF KeepsOperation, WithTask, State

LEMMA NoTaskAdded ==
  ASSUME NEW s \in State, NEW t \in Tasks, NEW b, Exists(s, t), NEW n,
         n.tasks = WithTask(s, t, b).tasks
  PROVE  \A u \in Tasks : Exists(n, u) => Exists(s, u)
BY DEF Exists, WithTask, State

LEMMA TakeoverKept ==
  ASSUME NEW s \in State, NEW t \in Tasks, NEW w \in Workers, NEW e \in Nat,
         NEW at \in Nat, NEW dur \in Durations,
         NEW n \in Takeover(s, t, w, e, at, dur), NEW o \in Operations
  PROVE  KeepsOperation(s.operations[o], n.operations[o])
<1> DEFINE x == s.operations[o]
           y == n.operations[o]
           r == [worker |-> w, epoch |-> Granted(s.tasks[t], w, at, dur).epoch]
           recovered(p) ==
             IF s.operations[p].status = "prepared" /\ s.operations[p].task = t
             THEN [s.operations[p] EXCEPT !.recovery = r]
             ELSE s.operations[p]
<1>1. n.operations = [p \in Operations |-> recovered(p)]
  BY DEF Takeover, WithTask, State
<1> HIDE DEF r
<1>2. y = recovered(o)  BY <1>1
<1>3. CASE y = x  BY <1>3 DEF KeepsOperation
<1>4. CASE x.status = "prepared" /\ y = [x EXCEPT !.recovery = r]
  <2>1. x \in RecordedOperation  BY <1>4, PreparedIsRecorded
  <2> HIDE DEF x, y
  <2>2. KeepsOperation(x, y)  BY <1>4, <2>1 DEF KeepsOperation, RecordedOperation
  <2> QED  BY <2>2 DEF x, y
<1> QED  BY <1>2, <1>3, <1>4

LEMMA ClaimKept ==
  ASSUME FrontierTypeOK, NEW t \in Tasks, NEW w \in Workers, NEW dur \in Durations,
         Writes(Claim(queue, t, w, clock, dur))
  PROVE  /\ QueueKept
         /\ queue'.tasks[t].epoch = queue.tasks[t].epoch + 1
<1>1. PICK n \in Claim(queue, t, w, clock, dur) : Pushed(n)  BY WritesPush
<1>2. n = WithTask(queue, t, Granted(queue.tasks[t], w, clock, dur))
  BY <1>1 DEF Claim
<1>3. queue \in State /\ clock \in Nat /\ clock \in 0..clock
  BY DEF FrontierTypeOK
<1>4. \A o \in Operations : KeepsOperation(queue.operations[o], n.operations[o])
  BY <1>2, <1>3, OneTaskKept
<1>5. QuietCommand(queue, n, clock)
  BY <1>1, <1>3 DEF QuietCommand, ClaimsNamed
<1>6. n \in State  BY <1>3, <1>5, CommandType DEF Command
<1>7. queue'.tasks = n.tasks  BY <1>1, <1>3, <1>6, PushedKeeps
<1>10. \A u \in Tasks : Exists(n, u) => Exists(queue, u)
  BY <1>1, <1>2, <1>3, NoTaskAdded DEF Claim, Exists
<1>8. n.tasks[t] = Granted(queue.tasks[t], w, clock, dur)
  BY <1>2, <1>3 DEF WithTask, State
<1>9. Granted(queue.tasks[t], w, clock, dur).epoch = queue.tasks[t].epoch + 1
  BY <1>3, TaskOf DEF Granted, Task
<1> QED  BY <1>1, <1>4, <1>5, <1>7, <1>8, <1>9, <1>10 DEF QueueKept

LEMMA HandKept ==
  ASSUME FrontierTypeOK, NEW t \in Tasks, HandCommand(t)
  PROVE  QueueKept
<1>1. queue \in State /\ clock \in Nat /\ clock \in 0..clock
  BY DEF FrontierTypeOK
<1>2. queue.tasks[t] \in Task  BY <1>1, TaskOf
<1>w. ASSUME NEW nexts, Writes(nexts),
             \A n \in nexts : QuietCommand(queue, n, clock),
             \A n \in nexts : Exists(queue, t) /\ \E b : n = WithTask(queue, t, b)
      PROVE  QueueKept
  <2>1. PICK n \in nexts : Pushed(n)  BY <1>w, WritesPush
  <2>2. \A o \in Operations : KeepsOperation(queue.operations[o], n.operations[o])
    BY <1>1, <1>w, OneTaskKept
  <2>3. \A u \in Tasks : Exists(n, u) => Exists(queue, u)
    BY <1>1, <1>w, NoTaskAdded
  <2> QED  BY <1>w, <2>1, <2>2, <2>3 DEF QueueKept
<1>3. ASSUME NEW w \in Workers, NEW dur \in Durations,
             Writes(Takeover(queue, t, w, queue.tasks[t].epoch, clock, dur))
      PROVE  QueueKept
  <2>1. PICK n \in Takeover(queue, t, w, queue.tasks[t].epoch, clock, dur) : Pushed(n)
    BY <1>3, WritesPush
  <2>2. queue.tasks[t].epoch \in Nat  BY <1>2 DEF Task
  <2>3. QuietCommand(queue, n, clock)
    BY <1>1, <2>1, <2>2 DEF QuietCommand, TakesOver
  <2>4. \A o \in Operations : KeepsOperation(queue.operations[o], n.operations[o])
    BY <1>1, <2>1, <2>2, TakeoverKept
  <2>5. /\ Exists(queue, t)
        /\ n.tasks = WithTask(queue, t, Granted(queue.tasks[t], w, clock, dur)).tasks
    BY <1>1, <2>1 DEF Takeover, Exists, WithTask, State
  <2>6. \A u \in Tasks : Exists(n, u) => Exists(queue, u)
    BY <1>1, <2>5, NoTaskAdded
  <2> QED  BY <2>1, <2>3, <2>4, <2>6 DEF QueueKept
<1>4. ASSUME NEW w \in Workers, NEW dur \in Durations,
             Writes(Claim(queue, t, w, clock, dur))
      PROVE  QueueKept
  BY <1>4, ClaimKept
<1>5. CASE Writes(Release(queue, t, queue.tasks[t].owner, queue.tasks[t].epoch))
  <2>1. \A n \in Release(queue, t, queue.tasks[t].owner, queue.tasks[t].epoch) :
          Exists(queue, t) /\ \E b : n = WithTask(queue, t, b)
    BY DEF Release, HoldsClaim, Exists
  <2>2. ASSUME NEW n \in Release(queue, t, queue.tasks[t].owner, queue.tasks[t].epoch)
        PROVE  QuietCommand(queue, n, clock)
    <3>1. queue.tasks[t].status = "claimed"  BY DEF Release, HoldsClaim
    <3>2. queue.tasks[t].owner \in Workers /\ queue.tasks[t].epoch \in Nat
      BY <1>2, <3>1 DEF FrontierTypeOK, WellFormed, ClaimWellFormed, Task
    <3> QED  BY <3>2 DEF QuietCommand, Releases
  <2> QED  BY <1>5, <1>w, <2>1, <2>2
<1>6. CASE Writes(Reopen(queue, t))
  <2>1. \A n \in Reopen(queue, t) :
          Exists(queue, t) /\ \E b : n = WithTask(queue, t, b)
    BY DEF Reopen, Exists
  <2>2. \A n \in Reopen(queue, t) : QuietCommand(queue, n, clock)
    BY DEF QuietCommand, Reopens
  <2> QED  BY <1>6, <1>w, <2>1, <2>2
<1>7. CASE Writes(MarkReady(queue, t, FALSE))
  <2>1. \A n \in MarkReady(queue, t, FALSE) :
          Exists(queue, t) /\ \E b : n = WithTask(queue, t, b)
    BY DEF MarkReady, Exists
  <2>2. \A n \in MarkReady(queue, t, FALSE) : QuietCommand(queue, n, clock)
    BY DEF QuietCommand, MarksReady
  <2> QED  BY <1>7, <1>w, <2>1, <2>2
<1>8. ASSUME NEW r \in Recipes,
             Writes(Edit(queue, t, queue.tasks[t].dependencies, queue.tasks[t].lane,
                         r, FALSE))
      PROVE  QueueKept
  <2> DEFINE nexts == Edit(queue, t, queue.tasks[t].dependencies,
                           queue.tasks[t].lane, r, FALSE)
  <2>1. \A n \in nexts : Exists(queue, t) /\ \E b : n = WithTask(queue, t, b)
    BY DEF Edit, Exists
  <2>2. queue.tasks[t].dependencies \in SUBSET Tasks /\ queue.tasks[t].lane \in BOOLEAN
    BY <1>2 DEF Task
  <2>3. \A n \in nexts : Edits(queue, n)  BY <2>2 DEF Edits
  <2>4. \A n \in nexts : QuietCommand(queue, n, clock)  BY <2>3 DEF QuietCommand
  <2> QED  BY <1>8, <1>w, <2>1, <2>4
<1>9. CASE Writes(SetIntentRevision(queue, Intent, 2, 1))
  <2>1. PICK n \in SetIntentRevision(queue, Intent, 2, 1) : Pushed(n)
    BY <1>9, WritesPush
  <2>2. QuietCommand(queue, n, clock)
    BY <2>1, FrontierAssumption DEF QuietCommand, SetsIntent
  <2>3. n.operations = queue.operations /\ n.tasks = queue.tasks
    BY <1>1, <2>1 DEF SetIntentRevision, State
  <2>4. \A o \in Operations : KeepsOperation(queue.operations[o], n.operations[o])
    BY <2>3 DEF KeepsOperation
  <2> QED  BY <2>1, <2>2, <2>3, <2>4 DEF QueueKept, Exists
<1> QED  BY <1>3, <1>4, <1>5, <1>6, <1>7, <1>8, <1>9 DEF HandCommand

-----------------------------------------------------------------------------
(* What each kind of step does to the invariant. *)

\* The queue is kept, and the branch only gains work.
LEMMA KeptKeeps ==
  ASSUME FrontierTypeOK, ReceiptsTrue, ReceiptsCurrent, QueueKept,
         head.has \subseteq head'.has, receipt' = receipt
  PROVE  /\ queue' \in State /\ WellFormed(queue') /\ Unused(queue')
         /\ \A t \in Tasks : Exists(queue', t) => Numbered(t)
         /\ ReceiptsTrue' /\ ReceiptsCurrent'
         /\ \A o \in Operations :
              queue'.operations[o].status = queue.operations[o].status
<1>1. CASE queue' = queue
  <2>1. ReceiptsTrue'  BY <1>1 DEF ReceiptsTrue
  <2>2. ReceiptsCurrent'  BY <1>1 DEF ReceiptsCurrent
  <2> QED  BY <1>1, <2>1, <2>2 DEF FrontierTypeOK
<1>2. ASSUME NEW n, QuietCommand(queue, n, clock), Pushed(n),
             \A o \in Operations : KeepsOperation(queue.operations[o], n.operations[o]),
             \A u \in Tasks : Exists(n, u) => Exists(queue, u)
      PROVE  /\ queue' \in State /\ WellFormed(queue') /\ Unused(queue')
             /\ \A t \in Tasks : Exists(queue', t) => Numbered(t)
             /\ ReceiptsTrue' /\ ReceiptsCurrent'
             /\ \A o \in Operations :
                  queue'.operations[o].status = queue.operations[o].status
  <2>1. /\ n \in State /\ WellFormed(n) /\ Unused(n)
        /\ \A u \in Tasks : KeepsProof(queue.tasks[u], n.tasks[u])
    BY <1>2, QuietKeepsProof DEF FrontierTypeOK
  <2>2. queue' \in State /\ queue'.tasks = n.tasks /\ queue'.operations = n.operations
    BY <1>2, <2>1, PushedKeeps DEF FrontierTypeOK
  <2>3. WellFormed(queue') /\ Unused(queue')
    BY <2>1, <2>2 DEF WellFormed, Unused, Exists
  <2>9. \A t \in Tasks : Exists(queue', t) => Numbered(t)
    BY <1>2, <2>2 DEF Exists, FrontierTypeOK
  <2>4. \A u \in Tasks : KeepsProof(queue.tasks[u], queue'.tasks[u])
    BY <2>1, <2>2
  <2>5. \A o \in Operations : KeepsOperation(queue.operations[o], queue'.operations[o])
    BY <1>2, <2>2
  <2>6. ReceiptsTrue'
    BY <2>4, <2>5 DEF ReceiptsTrue, KeepsProof, KeepsOperation
  <2>7. ASSUME NEW o \in Operations
        PROVE  LET operation == queue'.operations[o]
                   task == queue'.tasks[operation.task]
               IN /\ operation.status # "absent" => operation.epoch <= task.epoch
                  /\ (/\ operation.status = "prepared"
                      /\ task.status = "claimed" /\ operation.epoch = task.epoch)
                       => receipt'[o] = task.laneRecipe
    <3> DEFINE x == queue.operations[o]
               y == queue'.operations[o]
    <3>1. KeepsOperation(x, y)  BY <2>5
    <3>2. CASE x.status = "absent"  BY <3>1, <3>2 DEF KeepsOperation
    <3>3. CASE x.status # "absent"
      <4>1. x \in Operation  BY DEF FrontierTypeOK, State
      <4>2. x \in RecordedOperation
        BY <3>3, <4>1 DEF Operation, AbsentOperation
      <4>3. x.task \in Tasks /\ x.epoch \in Nat  BY <4>2 DEF RecordedOperation
      <4> DEFINE a == queue.tasks[x.task]
                 b == queue'.tasks[x.task]
      <4>4. KeepsProof(a, b)  BY <2>4, <4>3
      <4>5. a.epoch \in Nat /\ b.epoch \in Nat
        BY <2>2, <4>3, TaskOf DEF FrontierTypeOK, Task
      <4>6. x.epoch <= a.epoch  BY <3>3 DEF ReceiptsCurrent
      <4>7. x.status = "prepared" /\ a.status = "claimed" /\ x.epoch = a.epoch
              => receipt[o] = a.laneRecipe
        BY DEF ReceiptsCurrent
      <4>8. y.task = x.task /\ y.epoch = x.epoch /\ y.status = x.status
        BY <3>1 DEF KeepsOperation
      <4>9. b.epoch >= a.epoch
              /\ (b.status = "claimed" /\ b.epoch = a.epoch
                    => a.status = "claimed" /\ b.laneRecipe = a.laneRecipe)
        BY <4>4 DEF KeepsProof
      <4>10. x.epoch <= b.epoch /\ (x.epoch = b.epoch => b.epoch = a.epoch)
        BY <4>3, <4>5, <4>6, <4>9
      <4> HIDE DEF x, y, a, b
      <4>11. /\ y.status # "absent" => y.epoch <= b.epoch
             /\ y.status = "prepared" /\ b.status = "claimed" /\ y.epoch = b.epoch
                  => receipt'[o] = b.laneRecipe
        BY <4>7, <4>8, <4>9, <4>10
      <4> QED  BY <4>8, <4>11 DEF x, y, a, b
    <3> QED  BY <3>2, <3>3
  <2>8. ReceiptsCurrent'  BY <2>7 DEF ReceiptsCurrent
  <2> QED  BY <2>2, <2>3, <2>5, <2>6, <2>8, <2>9 DEF KeepsOperation
<1> QED  BY <1>1, <1>2 DEF QueueKept

LEMMA PrepareKeeps ==
  ASSUME FrontierInv, NEW r \in Runners, Prepare(r)
  PROVE  /\ queue' \in State /\ WellFormed(queue') /\ Unused(queue')
         /\ \A t \in Tasks : Exists(queue', t) => Numbered(t)
         /\ receipt' \in [Operations -> Recipes \cup {NoRecipe}]
         /\ ReceiptsTrue' /\ ReceiptsCurrent'
         /\ \A o \in Operations :
              queue'.operations[o].status = "observed"
                => queue.operations[o].status = "observed"
<1> DEFINE l == lane[r]
           t == l.task
           task == queue.tasks[t]
           p == <<t, l.epoch>>
<1>1. /\ l.pc = "merged" /\ l.recipe = task.laneRecipe
      /\ task.status = "claimed" /\ head = l.target
  BY DEF Prepare, At, ReceiptFits, RecipeOf
<1>2. /\ l \in LaneType /\ LaneKnows(l) /\ MergeProven(l)
      /\ queue \in State /\ head \in Commits
  BY DEF FrontierInv, FrontierTypeOK, LanesProven
<1>3. /\ t \in Tasks /\ l.epoch \in 1..MaxEpoch /\ l.revision \in Nat
      /\ Numbered(t)
      /\ l.target \in Commits /\ l.candidate \in Commits
      /\ l.recipe \in l.candidate.green /\ l.target.has \subseteq l.candidate.has
      /\ l.recipe \in Recipes \cup {NoRecipe}
  BY <1>1, <1>2 DEF LaneKnows, MergeProven, LaneType
<1>4. p \in Operations  BY <1>3 DEF Numbered
<1>5. /\ task \in Task /\ task.owner \in Workers /\ task.epoch \in Nat
  BY <1>1, <1>2, <1>3, TaskOf
     DEF FrontierInv, FrontierTypeOK, WellFormed, ClaimWellFormed, Task
<1>6. receipt' = [receipt EXCEPT ![p] = l.recipe]
  BY DEF Prepare, OperationId, Generation
<1>7. PICK n \in PrepareOperation(queue, p, t, task.owner, task.epoch, Main,
                                  l.candidate, l.target, Intent, l.revision) : Pushed(n)
  BY WritesPush DEF Prepare, OperationId, Generation
<1> DEFINE y == [status |-> "prepared", task |-> t, owner |-> task.owner,
                 epoch |-> task.epoch, ref |-> Main, object |-> l.candidate,
                 expected |-> l.target, intent |-> Intent,
                 revision |-> l.revision, recovery |-> NoRecovery]
<1>8. n = [queue EXCEPT !.operations[p] = y] /\ queue.operations[p].status = "absent"
  BY <1>7 DEF PrepareOperation
<1>9. n \in State
  BY <1>2, <1>3, <1>4, <1>5, <1>7, FrontierAssumption, PrepareOperationType
<1>10. /\ queue' \in State /\ queue'.tasks = queue.tasks
       /\ queue'.operations = [queue.operations EXCEPT ![p] = y]
  BY <1>2, <1>7, <1>8, <1>9, PushedKeeps DEF State
<1>11. queue'.operations[p] = y /\ receipt'[p] = l.recipe
  BY <1>2, <1>4, <1>6, <1>10 DEF State, FrontierInv, FrontierTypeOK
<1>12. \A o \in Operations \ {p} : /\ queue'.operations[o] = queue.operations[o]
                                   /\ receipt'[o] = receipt[o]
  BY <1>2, <1>6, <1>10 DEF State, FrontierInv, FrontierTypeOK
<1>13. /\ y.status = "prepared" /\ y.task = t /\ y.epoch = task.epoch
       /\ y.object = l.candidate /\ y.expected = l.target
  OBVIOUS
<1>14. WellFormed(queue') /\ Unused(queue')
         /\ \A u \in Tasks : Exists(queue', u) => Numbered(u)
  BY <1>10 DEF WellFormed, Unused, Exists, FrontierInv, FrontierTypeOK
<1>15. receipt' \in [Operations -> Recipes \cup {NoRecipe}]
  BY <1>3, <1>6 DEF FrontierInv, FrontierTypeOK
<1>16. head' = head  BY DEF Prepare
<1> HIDE DEF y, p
<1>17. ReceiptsTrue'
  <2>1. ASSUME NEW o \in Operations
        PROVE  queue'.operations[o].status # "absent" =>
                 /\ receipt'[o] \in queue'.operations[o].object.green
                 /\ queue'.operations[o].expected.has
                      \subseteq queue'.operations[o].object.has
    <3>1. CASE o = p  BY <1>3, <1>11, <1>13, <3>1
    <3>2. CASE o # p  BY <1>12, <3>2 DEF FrontierInv, ReceiptsTrue
    <3> QED  BY <3>1, <3>2
  <2>2. \A u \in Tasks :
          queue'.tasks[u].lane /\ queue'.tasks[u].status = "done"
            => queue'.tasks[u].result.object.has \subseteq head'.has
    BY <1>10, <1>16 DEF FrontierInv, ReceiptsTrue
  <2> QED  BY <2>1, <2>2 DEF ReceiptsTrue
<1>18. ReceiptsCurrent'
  <2>1. ASSUME NEW o \in Operations
        PROVE  LET operation == queue'.operations[o]
                   now == queue'.tasks[operation.task]
               IN /\ operation.status # "absent" => operation.epoch <= now.epoch
                  /\ (/\ operation.status = "prepared"
                      /\ now.status = "claimed" /\ operation.epoch = now.epoch)
                       => receipt'[o] = now.laneRecipe
    <3>1. CASE o = p
      BY <1>1, <1>5, <1>10, <1>11, <1>13, <3>1
    <3>2. CASE o # p
      BY <1>10, <1>12, <3>2 DEF FrontierInv, ReceiptsCurrent
    <3> QED  BY <3>1, <3>2
  <2> QED  BY <2>1 DEF ReceiptsCurrent
<1>19. \A o \in Operations : queue'.operations[o].status = "observed"
                               => queue.operations[o].status = "observed"
  BY <1>11, <1>12, <1>13
<1> QED  BY <1>10, <1>14, <1>15, <1>17, <1>18, <1>19

LEMMA EndedDone ==
  ASSUME NEW a \in Task
  PROVE  /\ Ended(a, "done") \in Task
         /\ Ended(a, "done").epoch = a.epoch
         /\ Ended(a, "done").status = "done"
<1>1. Ended(a, "done") \in Task  BY EndedType DEF Statuses
<1>2. Ended(a, "done").epoch = a.epoch /\ Ended(a, "done").status = "done"
  BY DEF Ended, Task
<1> QED  BY <1>1, <1>2

\* An operation is observed when the branch is, or comes to be, its object.
LEMMA LandKeeps ==
  ASSUME FrontierInv, NEW o \in Operations, NEW w, NEW e,
         Writes(ObserveOperation(queue, o, w, e, clock)),
         head.has \subseteq head'.has,
         queue.operations[o].object.has \subseteq head'.has,
         receipt' = receipt
  PROVE  /\ queue' \in State /\ WellFormed(queue') /\ Unused(queue')
         /\ \A t \in Tasks : Exists(queue', t) => Numbered(t)
         /\ ReceiptsTrue' /\ ReceiptsCurrent'
         /\ \A p \in Operations :
              LET operation == queue.operations[p]
                  task == queue.tasks[operation.task]
              IN (/\ operation.status = "prepared"
                  /\ queue'.operations[p].status = "observed"
                  /\ operation.epoch = task.epoch)
                   => receipt[p] = task.laneRecipe
<1> DEFINE x == queue.operations[o]
           t == x.task
           a == queue.tasks[t]
           ended == Ended(a, "done")
           b == [ended EXCEPT !.result = [operation |-> o, object |-> x.object]]
           y == [x EXCEPT !.status = "observed"]
<1>1. queue \in State /\ clock \in Nat  BY DEF FrontierInv, FrontierTypeOK
<1>2. PICK n \in ObserveOperation(queue, o, w, e, clock) : Pushed(n)
  BY WritesPush
<1>3. /\ n = Observed(queue, o) /\ x.status = "prepared"
      /\ a.status = "claimed"
  BY <1>2 DEF ObserveOperation, OperationAuthorized, HoldsClaim
<1>4. n \in State  BY <1>1, <1>2, ObserveOperationType
<1>5. x \in RecordedOperation /\ t \in Tasks /\ a \in Task
  BY <1>1, <1>3, PreparedIsRecorded, TaskOf DEF RecordedOperation
<1>6. ClaimSteps(queue, n, clock)
  BY <1>1, <1>2, ObserveOperationSteps DEF FrontierInv, FrontierTypeOK
<1>7. /\ n.tasks = [queue.tasks EXCEPT ![t] = b]
      /\ n.operations = [queue.operations EXCEPT ![o] = y]
  BY <1>1, <1>3 DEF Observed, WithTask, State
<1>8. /\ queue' \in State /\ queue'.tasks = [queue.tasks EXCEPT ![t] = b]
      /\ queue'.operations = [queue.operations EXCEPT ![o] = y]
  BY <1>1, <1>2, <1>4, <1>7, PushedKeeps
<1>9. WellFormed(queue') /\ Unused(queue')
  BY <1>6, <1>7, <1>8, ZenonT(40)
     DEF ClaimSteps, ClaimStep, WellFormed, Unused, Exists, FrontierInv, FrontierTypeOK
<1>10. ended \in Task /\ ended.epoch = a.epoch /\ ended.status = "done"
  BY <1>5, EndedDone
<1> HIDE DEF ended
<1>11. b.status = "done" /\ b.epoch = a.epoch /\ b.result.object = x.object
  BY <1>10 DEF Task
<1>12. y.status = "observed" /\ y.task = x.task /\ y.epoch = x.epoch
         /\ y.object = x.object /\ y.expected = x.expected
  BY <1>5 DEF RecordedOperation
<1> HIDE DEF b, y
<1>13. /\ queue'.tasks[t] = b
       /\ \A u \in Tasks \ {t} : queue'.tasks[u] = queue.tasks[u]
  BY <1>1, <1>5, <1>8 DEF State
<1>14. /\ queue'.operations[o] = y
       /\ \A p \in Operations \ {o} : queue'.operations[p] = queue.operations[p]
  BY <1>1, <1>8 DEF State
<1>15. \A u \in Tasks : Exists(queue', u) => Numbered(u)
  BY <1>3, <1>5, <1>13 DEF Exists, FrontierInv, FrontierTypeOK
<1>16. ReceiptsTrue'
  <2>1. ASSUME NEW p \in Operations
        PROVE  queue'.operations[p].status # "absent" =>
                 /\ receipt'[p] \in queue'.operations[p].object.green
                 /\ queue'.operations[p].expected.has
                      \subseteq queue'.operations[p].object.has
    <3>1. CASE p = o
      BY <1>3, <1>12, <1>14, <3>1 DEF FrontierInv, ReceiptsTrue
    <3>2. CASE p # o  BY <1>14, <3>2 DEF FrontierInv, ReceiptsTrue
    <3> QED  BY <3>1, <3>2
  <2>2. ASSUME NEW u \in Tasks,
               queue'.tasks[u].lane, queue'.tasks[u].status = "done"
        PROVE  queue'.tasks[u].result.object.has \subseteq head'.has
    <3>1. CASE u = t  BY <1>11, <1>13, <3>1
    <3>2. CASE u # t  BY <1>13, <2>2, <3>2 DEF FrontierInv, ReceiptsTrue
    <3> QED  BY <3>1, <3>2
  <2> QED  BY <2>1, <2>2 DEF ReceiptsTrue
<1>17. ReceiptsCurrent'
  <2>1. ASSUME NEW p \in Operations
        PROVE  LET operation == queue'.operations[p]
                   now == queue'.tasks[operation.task]
               IN /\ operation.status # "absent" => operation.epoch <= now.epoch
                  /\ (/\ operation.status = "prepared"
                      /\ now.status = "claimed" /\ operation.epoch = now.epoch)
                       => receipt'[p] = now.laneRecipe
    <3>1. CASE p = o
      <4>1. x.epoch <= a.epoch  BY <1>3 DEF FrontierInv, ReceiptsCurrent
      <4> QED  BY <1>11, <1>12, <1>13, <1>14, <3>1, <4>1
    <3>2. CASE p # o
      <4> DEFINE z == queue.operations[p]
      <4>1. queue'.operations[p] = z  BY <1>14, <3>2
      <4>2. CASE z.status = "absent"  BY <4>1, <4>2
      <4>3. CASE z.status # "absent"
        <5>1. z.task \in Tasks
          BY <1>1, <4>3, PreparedIsRecorded DEF RecordedOperation
        <5>2. z.epoch <= queue.tasks[z.task].epoch
          BY <4>3 DEF FrontierInv, ReceiptsCurrent
        <5>3. CASE z.task = t  BY <1>11, <1>13, <4>1, <5>2, <5>3
        <5>4. CASE z.task # t
          BY <1>13, <4>1, <5>1, <5>4 DEF FrontierInv, ReceiptsCurrent
        <5> QED  BY <5>3, <5>4
      <4> QED  BY <4>2, <4>3
    <3> QED  BY <3>1, <3>2
  <2> QED  BY <2>1 DEF ReceiptsCurrent
<1>18. ASSUME NEW p \in Operations,
              queue.operations[p].status = "prepared",
              queue'.operations[p].status = "observed",
              queue.operations[p].epoch = queue.tasks[queue.operations[p].task].epoch
       PROVE  receipt[p] = queue.tasks[queue.operations[p].task].laneRecipe
  <2>1. p = o  BY <1>14, <1>18
  <2> QED  BY <1>3, <1>18, <2>1 DEF FrontierInv, ReceiptsCurrent
<1> QED  BY <1>8, <1>9, <1>15, <1>16, <1>17, <1>18

-----------------------------------------------------------------------------
(* What a loop knows, step by step. *)

\* The state of one loop holds what it should.
LaneFits(l) == l \in LaneType /\ LaneKnows(l) /\ MergeProven(l)

LEMMA BetweenFits ==
  ASSUME NEW n \in Nat, NEW pc \in {"idle", "finished", "stopped"}
  PROVE  LaneFits(Between(n)) /\ LaneFits([Between(n) EXCEPT !.pc = pc])
<1> DEFINE x == Between(n)
           l == [x EXCEPT !.pc = pc]
<1>1. x = [pc |-> "idle", runs |-> n, task |-> 0, epoch |-> 0, revision |-> 0,
           base |-> NoObject, work |-> NoObject, recipe |-> NoRecipe,
           target |-> NoObject, candidate |-> NoObject]
  BY DEF Between
<1> HIDE DEF x
<1>2. x \in LaneType /\ x.pc = "idle" /\ x.work = NoObject
  BY <1>1 DEF LaneType, LoopPcs
<1>3. l \in LaneType /\ l.pc = pc /\ l.work = NoObject
  BY <1>2 DEF LaneType, LoopPcs
<1> HIDE DEF l
<1>4. LaneFits(x) /\ LaneFits(l)
  BY <1>2, <1>3 DEF LaneFits, LaneKnows, MergeProven
<1> QED  BY <1>4 DEF x, l

\* Only loop r moves.
LEMMA OneLaneMoves ==
  ASSUME FrontierTypeOK, LanesProven, NEW r \in Runners, NEW next,
         LaneFits(next), Goes(r, next)
  PROVE  lane' \in [Runners -> LaneType] /\ LanesProven'
<1>1. lane' = [lane EXCEPT ![r] = next]  BY DEF Goes
<1>2. \A q \in Runners : LaneFits(lane[q])
  BY DEF FrontierTypeOK, LanesProven, LaneFits
<1>3. \A q \in Runners : LaneFits(lane'[q])
  BY <1>1, <1>2 DEF FrontierTypeOK
<1>4. lane' \in [Runners -> LaneType]
  BY <1>1 DEF FrontierTypeOK, LaneFits
<1> QED  BY <1>3, <1>4 DEF LanesProven, LaneFits

LEMMA MergedFits ==
  ASSUME FrontierTypeOK, NEW x \in Commits, NEW y \in Commits,
         NEW by \in {"base", "work", "merge", "hand"} \X Work,
         NEW c \in Merged(x, y, by)
  PROVE  c \in Commits /\ c.has = x.has \cup y.has
<1>1. hands.recipes \subseteq Recipes  BY FrontierAssumption DEF FrontierTypeOK
<1>2. PICK g : /\ c = [has |-> x.has \cup y.has, green |-> g, by |-> by]
               /\ g \in IF x.has \subseteq y.has THEN {y.green}
                        ELSE IF y.has \subseteq x.has THEN {x.green}
                        ELSE SUBSET hands.recipes
  BY DEF Merged
<1>3. g \subseteq Recipes  BY <1>1, <1>2 DEF Commits
<1>4. x.has \cup y.has \subseteq Work  BY DEF Commits
<1> QED  BY <1>2, <1>3, <1>4 DEF Commits

LEMMA BaseFits ==
  ASSUME FrontierTypeOK, NEW recipe
  PROVE  BaseOf(recipe) \in Commits
BY DEF FrontierTypeOK, BaseOf, FirstCommit, Commits

LEMMA GenerationFits ==
  ASSUME NEW r \in Runners, LaneFits(lane[r]),
         lane[r].pc \in {"claimed", "cut", "worked", "merged", "prepared", "applied"}
  PROVE  Generation(r) \in Work /\ Generation(r) \in Operations
<1>1. lane[r].task \in Tasks /\ lane[r].epoch \in 1..MaxEpoch /\ Numbered(lane[r].task)
  BY DEF LaneFits, LaneKnows
<1> QED  BY <1>1 DEF Generation, Work, Numbered

LEMMA PickFits ==
  ASSUME FrontierTypeOK, LanesProven, NEW r \in Runners, Pick(r)
  PROVE  lane' \in [Runners -> LaneType] /\ LanesProven'
<1> DEFINE l == lane[r]
<1>1. LaneFits(l) /\ l.pc = "idle"
  BY DEF Pick, At, FrontierTypeOK, LanesProven, LaneFits
<1>2. l.runs \in Nat  BY <1>1 DEF LaneFits, LaneType
<1>3. CASE Goes(r, [Between(l.runs) EXCEPT !.pc = "finished"])
  BY <1>2, <1>3, BetweenFits, OneLaneMoves
<1>4. ASSUME NEW t \in ReadyTasks(queue),
             Goes(r, [l EXCEPT !.pc = "picked", !.runs = @ + 1, !.task = t])
      PROVE  lane' \in [Runners -> LaneType] /\ LanesProven'
  <2> DEFINE runs == l.runs + 1
             next == [l EXCEPT !.pc = "picked", !.runs = runs, !.task = t]
  <2>5. Goes(r, next)  BY <1>4
  <2>6. runs \in Nat  BY <1>2
  <2> HIDE DEF runs
  <2>1. t \in Tasks /\ Numbered(t)
    BY DEF ReadyTasks, Exists, FrontierTypeOK
  <2>2. next \in LaneType /\ next.pc = "picked" /\ next.task = t /\ next.work = l.work
    BY <1>1, <2>1, <2>6 DEF LaneFits, LaneType, LoopPcs
  <2>3. next.work = NoObject  BY <1>1, <2>2 DEF LaneFits, LaneKnows
  <2> HIDE DEF next
  <2>4. LaneFits(next)
    BY <2>1, <2>2, <2>3 DEF LaneFits, LaneKnows, MergeProven
  <2> QED  BY <2>4, <2>5, OneLaneMoves
<1> QED  BY <1>3, <1>4 DEF Pick

LEMMA ReadIntentFits ==
  ASSUME FrontierTypeOK, LanesProven, NEW r \in Runners, ReadIntent(r)
  PROVE  lane' \in [Runners -> LaneType] /\ LanesProven'
<1> DEFINE l == lane[r]
           next == [l EXCEPT !.pc = "intended", !.revision = queue.intents[Intent]]
<1>1. LaneFits(l) /\ l.pc = "picked"
  BY DEF ReadIntent, At, FrontierTypeOK, LanesProven, LaneFits
<1>2. queue.intents[Intent] \in Nat
  BY FrontierAssumption DEF FrontierTypeOK, State
<1>3. next \in LaneType /\ next.pc = "intended" /\ next.task = l.task
        /\ next.work = l.work
  BY <1>1, <1>2 DEF LaneFits, LaneType, LoopPcs
<1>4. Goes(r, next)  BY DEF ReadIntent
<1> HIDE DEF next
<1>5. LaneFits(next)  BY <1>1, <1>3 DEF LaneFits, LaneKnows, MergeProven
<1> QED  BY <1>4, <1>5, OneLaneMoves

LEMMA ClaimPickedFits ==
  ASSUME FrontierTypeOK, LanesProven, NEW r \in Runners, ClaimPicked(r)
  PROVE  /\ QueueKept
         /\ lane' \in [Runners -> LaneType] /\ LanesProven'
<1> DEFINE l == lane[r]
           epoch == queue'.tasks[l.task].epoch
           next == [l EXCEPT !.pc = "claimed", !.epoch = epoch]
<1>1. LaneFits(l) /\ l.pc = "intended"
  BY DEF ClaimPicked, At, FrontierTypeOK, LanesProven, LaneFits
<1>2. l.task \in Tasks /\ Numbered(l.task) /\ l.work = NoObject
  BY <1>1 DEF LaneFits, LaneKnows
<1>3. Worker[r] \in Workers  BY FrontierAssumption
<1>4. QueueKept /\ epoch = queue.tasks[l.task].epoch + 1
  BY <1>2, <1>3, ClaimKept DEF ClaimPicked
<1>5. queue.tasks[l.task].epoch \in Nat
  BY <1>2, TaskOf DEF FrontierTypeOK, Task
<1>6. epoch \in 1..MaxEpoch /\ epoch \in Nat
  BY <1>4, <1>5, FrontierAssumption DEF ClaimPicked
<1> HIDE DEF epoch
<1>7. next \in LaneType /\ next.pc = "claimed" /\ next.task = l.task
        /\ next.work = l.work /\ next.epoch = epoch
  BY <1>1, <1>6 DEF LaneFits, LaneType, LoopPcs
<1>8. Goes(r, next)  BY DEF ClaimPicked, epoch
<1> HIDE DEF next
<1>9. LaneFits(next)
  BY <1>2, <1>6, <1>7 DEF LaneFits, LaneKnows, MergeProven
<1> QED  BY <1>4, <1>8, <1>9, OneLaneMoves

LEMMA CutFits ==
  ASSUME FrontierTypeOK, LanesProven, NEW r \in Runners, Cut(r)
  PROVE  lane' \in [Runners -> LaneType] /\ LanesProven'
<1> DEFINE l == lane[r]
           base == BaseOf(RecipeOf(l.task))
           next == [l EXCEPT !.pc = "cut", !.base = base]
<1>1. LaneFits(l) /\ l.pc = "claimed"
  BY DEF Cut, At, FrontierTypeOK, LanesProven, LaneFits
<1>2. base \in Commits  BY BaseFits
<1>3. Goes(r, next)  BY DEF Cut
<1> HIDE DEF base
<1>4. next \in LaneType /\ next.pc = "cut" /\ next.task = l.task
        /\ next.work = l.work /\ next.epoch = l.epoch /\ next.base = base
  BY <1>1, <1>2 DEF LaneFits, LaneType, LoopPcs
<1> HIDE DEF next
<1>5. LaneFits(next)
  BY <1>1, <1>2, <1>4 DEF LaneFits, LaneKnows, MergeProven
<1> QED  BY <1>3, <1>5, OneLaneMoves

LEMMA WorkerSessionFits ==
  ASSUME FrontierTypeOK, LanesProven, NEW r \in Runners, WorkerSession(r)
  PROVE  lane' \in [Runners -> LaneType] /\ LanesProven'
<1> DEFINE l == lane[r]
<1>1. LaneFits(l) /\ l.pc = "cut"
  BY DEF WorkerSession, At, FrontierTypeOK, LanesProven, LaneFits
<1>2. l.base \in Commits /\ Generation(r) \in Work
  BY <1>1, GenerationFits DEF LaneFits, LaneKnows
<1>3. hands.recipes \subseteq Recipes  BY FrontierAssumption DEF FrontierTypeOK
<1>4. PICK g \in SUBSET hands.recipes :
        Goes(r, [l EXCEPT !.pc = "worked",
                          !.work = [has |-> l.base.has \cup {Generation(r)},
                                    green |-> g, by |-> <<"work", Generation(r)>>]])
  BY DEF WorkerSession
<1> DEFINE work == [has |-> l.base.has \cup {Generation(r)}, green |-> g,
                    by |-> <<"work", Generation(r)>>]
           next == [l EXCEPT !.pc = "worked", !.work = work]
<1>5. work \in Commits  BY <1>2, <1>3 DEF Commits
<1> HIDE DEF work
<1>6. next \in LaneType /\ next.pc = "worked" /\ next.task = l.task
        /\ next.work = work /\ next.epoch = l.epoch
  BY <1>1, <1>5 DEF LaneFits, LaneType, LoopPcs
<1> HIDE DEF next
<1>7. LaneFits(next)
  BY <1>1, <1>5, <1>6 DEF LaneFits, LaneKnows, MergeProven
<1> QED  BY <1>4, <1>7, OneLaneMoves DEF next, work

LEMMA MergeFits ==
  ASSUME FrontierTypeOK, LanesProven, NEW r \in Runners, Merge(r)
  PROVE  lane' \in [Runners -> LaneType] /\ LanesProven'
<1> DEFINE l == lane[r]
           recipe == RecipeOf(l.task)
<1>1. LaneFits(l) /\ l.pc = "worked"
  BY DEF Merge, At, FrontierTypeOK, LanesProven, LaneFits
<1>2. l.work \in Commits /\ Generation(r) \in Work /\ l.task \in Tasks
  BY <1>1, GenerationFits DEF LaneFits, LaneKnows
<1>3. PICK c \in Merged(head, l.work, <<"merge", Generation(r)>>) :
        /\ Proven(recipe, c)
        /\ Goes(r, [l EXCEPT !.pc = "merged", !.base = NoObject, !.recipe = recipe,
                             !.target = head, !.candidate = c])
  BY DEF Merge
<1> DEFINE next == [l EXCEPT !.pc = "merged", !.base = NoObject, !.recipe = recipe,
                             !.target = head, !.candidate = c]
<1>4. head \in Commits  BY DEF FrontierTypeOK
<1>5. c \in Commits /\ c.has = head.has \cup l.work.has
  <2>1. <<"merge", Generation(r)>> \in {"base", "work", "merge", "hand"} \X Work
    BY <1>2
  <2> QED  BY <1>2, <1>3, <1>4, <2>1, MergedFits
<1>6. recipe \in c.green  BY <1>3 DEF Proven, ClassifyCheck
<1>7. recipe \in Recipes \cup {NoRecipe}
  BY <1>2, TaskOf DEF RecipeOf, FrontierTypeOK, Task
<1> HIDE DEF recipe
<1>8. /\ next \in LaneType /\ next.pc = "merged" /\ next.task = l.task
      /\ next.epoch = l.epoch /\ next.recipe = recipe
      /\ next.target = head /\ next.candidate = c
  BY <1>1, <1>4, <1>5, <1>7 DEF LaneFits, LaneType, LoopPcs
<1> HIDE DEF next
<1>9. LaneFits(next)
  BY <1>1, <1>4, <1>5, <1>6, <1>8 DEF LaneFits, LaneKnows, MergeProven
<1> QED  BY <1>3, <1>9, OneLaneMoves DEF next, recipe

\* After the merge only the position is looked at.
LEMMA LateStepFits ==
  ASSUME FrontierTypeOK, LanesProven, NEW r \in Runners,
         \/ Prepare(r)
         \/ At(r, "prepared") /\ Goes(r, [lane[r] EXCEPT !.pc = "applied"])
  PROVE  lane' \in [Runners -> LaneType] /\ LanesProven'
<1> DEFINE l == lane[r]
<1>1. LaneFits(l)
  BY DEF FrontierTypeOK, LanesProven, LaneFits
<1>2. CASE Prepare(r)
  <2> DEFINE next == [l EXCEPT !.pc = "prepared", !.recipe = NoRecipe,
                               !.target = NoObject]
  <2>1. l.pc = "merged" /\ Goes(r, next)  BY <1>2 DEF Prepare, At
  <2>2. next \in LaneType /\ next.pc = "prepared" /\ next.task = l.task
          /\ next.epoch = l.epoch
    BY <1>1 DEF LaneFits, LaneType, LoopPcs
  <2> HIDE DEF next
  <2>3. LaneFits(next)
    BY <1>1, <2>1, <2>2 DEF LaneFits, LaneKnows, MergeProven
  <2> QED  BY <2>1, <2>3, OneLaneMoves
<1>3. CASE At(r, "prepared") /\ Goes(r, [l EXCEPT !.pc = "applied"])
  <2> DEFINE next == [l EXCEPT !.pc = "applied"]
  <2>1. l.pc = "prepared" /\ Goes(r, next)  BY <1>3 DEF At
  <2>2. next \in LaneType /\ next.pc = "applied" /\ next.task = l.task
          /\ next.epoch = l.epoch
    BY <1>1 DEF LaneFits, LaneType, LoopPcs
  <2> HIDE DEF next
  <2>3. LaneFits(next)
    BY <1>1, <2>1, <2>2 DEF LaneFits, LaneKnows, MergeProven
  <2> QED  BY <2>1, <2>3, OneLaneMoves
<1> QED  BY <1>2, <1>3

LEMMA EndFits ==
  ASSUME FrontierTypeOK, LanesProven, NEW r \in Runners, Stop(r) \/ Readback(r)
  PROVE  lane' \in [Runners -> LaneType] /\ LanesProven'
<1>1. lane[r].runs \in Nat  BY DEF FrontierTypeOK, LaneType
<1> QED  BY <1>1, BetweenFits, OneLaneMoves DEF Stop, Readback

-----------------------------------------------------------------------------
(* The steps put together. *)

\* What a step lands, as LandsAsClaimed asks for it.
LandsNow ==
  /\ head.has \subseteq head'.has
  /\ \A o \in Operations :
       LET operation == queue.operations[o]  task == queue.tasks[operation.task] IN
       (/\ operation.status = "prepared" /\ queue'.operations[o].status = "observed"
        /\ operation.epoch = task.epoch)
         => receipt[o] = RecipeOf(operation.task)

\* A step that keeps the queue, the receipts and the recipes, and loses no work.
LEMMA KeptStep ==
  ASSUME FrontierInv, QueueKept, head.has \subseteq head'.has, head' \in Commits,
         clock' \in Nat, receipt' = receipt, hands' = hands,
         lane' \in [Runners -> LaneType], LanesProven'
  PROVE  FrontierInv' /\ LandsNow
<1>1. /\ queue' \in State /\ WellFormed(queue') /\ Unused(queue')
      /\ \A t \in Tasks : Exists(queue', t) => Numbered(t)
      /\ ReceiptsTrue' /\ ReceiptsCurrent'
      /\ \A o \in Operations :
           queue'.operations[o].status = queue.operations[o].status
  BY KeptKeeps DEF FrontierInv
<1>2. FrontierTypeOK'  BY <1>1 DEF FrontierInv, FrontierTypeOK
<1>3. LandsNow  BY <1>1 DEF LandsNow
<1> QED  BY <1>1, <1>2, <1>3 DEF FrontierInv

\* A step that observes an operation.
LEMMA LandStep ==
  ASSUME FrontierInv, NEW o \in Operations, NEW w, NEW e,
         Writes(ObserveOperation(queue, o, w, e, clock)),
         queue.operations[o].status = "prepared",
         \/ StillExpected(o) /\ head' = queue.operations[o].object
         \/ head = queue.operations[o].object /\ head' = head,
         clock' = clock, receipt' = receipt, hands' = hands,
         lane' \in [Runners -> LaneType], LanesProven'
  PROVE  FrontierInv' /\ LandsNow
<1> DEFINE x == queue.operations[o]
<1>1. x.object \in Commits
  BY PreparedIsRecorded, FrontierAssumption
     DEF FrontierInv, FrontierTypeOK, RecordedOperation
<1>2. x.expected.has \subseteq x.object.has  BY DEF FrontierInv, ReceiptsTrue
<1>3. head.has \subseteq head'.has /\ x.object.has \subseteq head'.has /\ head' \in Commits
  BY <1>1, <1>2 DEF StillExpected
<1>4. /\ queue' \in State /\ WellFormed(queue') /\ Unused(queue')
      /\ \A t \in Tasks : Exists(queue', t) => Numbered(t)
      /\ ReceiptsTrue' /\ ReceiptsCurrent'
      /\ \A p \in Operations :
           LET operation == queue.operations[p]
               task == queue.tasks[operation.task]
           IN (/\ operation.status = "prepared"
               /\ queue'.operations[p].status = "observed"
               /\ operation.epoch = task.epoch)
                => receipt[p] = task.laneRecipe
  BY <1>3, LandKeeps
<1>5. FrontierTypeOK'  BY <1>3, <1>4 DEF FrontierInv, FrontierTypeOK
<1>6. LandsNow  BY <1>3, <1>4 DEF LandsNow, RecipeOf
<1> QED  BY <1>4, <1>5, <1>6 DEF FrontierInv

LEMMA LoopKeeps ==
  ASSUME FrontierInv, NEW r \in Runners, LoopStep(r) \/ Stop(r)
  PROVE  FrontierInv' /\ LandsNow
<1>1. FrontierTypeOK /\ LanesProven /\ head \in Commits /\ clock \in Nat
  BY DEF FrontierInv, FrontierTypeOK
<1>q. ASSUME queue' = queue, head' = head, clock' = clock, receipt' = receipt,
             hands' = hands, lane' \in [Runners -> LaneType], LanesProven'
      PROVE  FrontierInv' /\ LandsNow
  BY <1>1, <1>q, KeptStep DEF QueueKept
<1>2. CASE Pick(r)  BY <1>1, <1>2, <1>q, PickFits DEF Pick
<1>3. CASE ReadIntent(r)  BY <1>1, <1>3, <1>q, ReadIntentFits DEF ReadIntent
<1>4. CASE ClaimPicked(r)
  <2>1. /\ head' = head /\ clock' = clock /\ receipt' = receipt /\ hands' = hands
    BY <1>4 DEF ClaimPicked
  <2>2. QueueKept /\ lane' \in [Runners -> LaneType] /\ LanesProven'
    BY <1>1, <1>4, ClaimPickedFits
  <2> QED  BY <1>1, <2>1, <2>2, KeptStep
<1>5. CASE Cut(r)  BY <1>1, <1>5, <1>q, CutFits DEF Cut
<1>6. CASE WorkerSession(r)
  BY <1>1, <1>6, <1>q, WorkerSessionFits DEF WorkerSession
<1>7. CASE Merge(r)  BY <1>1, <1>7, <1>q, MergeFits DEF Merge
<1>8. CASE Prepare(r)
  <2>1. /\ queue' \in State /\ WellFormed(queue') /\ Unused(queue')
        /\ \A t \in Tasks : Exists(queue', t) => Numbered(t)
        /\ receipt' \in [Operations -> Recipes \cup {NoRecipe}]
        /\ ReceiptsTrue' /\ ReceiptsCurrent'
        /\ \A o \in Operations : queue'.operations[o].status = "observed"
                                   => queue.operations[o].status = "observed"
    BY <1>8, PrepareKeeps
  <2>2. lane' \in [Runners -> LaneType] /\ LanesProven'
    BY <1>1, <1>8, LateStepFits
  <2>3. head' = head /\ clock' = clock /\ hands' = hands  BY <1>8 DEF Prepare
  <2>4. FrontierTypeOK'
    BY <1>1, <2>1, <2>2, <2>3 DEF FrontierTypeOK
  <2>5. LandsNow  BY <2>1, <2>3 DEF LandsNow
  <2> QED  BY <2>1, <2>2, <2>4, <2>5 DEF FrontierInv
<1>9. CASE Apply(r)
  <2> DEFINE o == OperationId(r)
  <2>1. /\ At(r, "prepared") /\ Goes(r, [lane[r] EXCEPT !.pc = "applied"])
        /\ clock' = clock /\ receipt' = receipt /\ hands' = hands
    BY <1>9 DEF Apply
  <2>2. lane' \in [Runners -> LaneType] /\ LanesProven'
    BY <1>1, <2>1, LateStepFits
  <2>3. o \in Operations
    BY <1>1, <2>1, GenerationFits
       DEF OperationId, At, FrontierTypeOK, LanesProven, LaneFits
  <2>4. CASE queue' = queue /\ head' = head  BY <2>1, <2>2, <2>4, <1>q
  <2>5. CASE Lands(o, Worker[r], lane[r].epoch)
    <3>1. /\ queue.operations[o].status = "prepared"
          /\ StillExpected(o) /\ head' = queue.operations[o].object
          /\ Writes(ObserveOperation(queue, o, Worker[r], lane[r].epoch, clock))
      BY <2>5 DEF Lands
    <3> QED  BY <2>1, <2>2, <2>3, <3>1, LandStep
  <2> QED  BY <1>9, <2>4, <2>5 DEF Apply
<1>10. CASE Readback(r)  BY <1>1, <1>10, <1>q, EndFits DEF Readback
<1>11. CASE Stop(r)  BY <1>1, <1>11, <1>q, EndFits DEF Stop
<1> QED
  BY <1>2, <1>3, <1>4, <1>5, <1>6, <1>7, <1>8, <1>9, <1>10, <1>11 DEF LoopStep

LEMMA HandsKeep ==
  ASSUME FrontierInv, Push \/ Integrate \/ TaskByHand \/ OperationByHand \/ Tick
  PROVE  FrontierInv' /\ LandsNow
<1>1. /\ FrontierTypeOK /\ LanesProven /\ head \in Commits /\ clock \in Nat
      /\ lane \in [Runners -> LaneType]
  BY DEF FrontierInv, FrontierTypeOK
<1>2. hands.recipes \subseteq Recipes  BY <1>1, FrontierAssumption DEF FrontierTypeOK
<1>3. CASE Push
  <2>1. PICK n \in 1..MaxPushes, g \in SUBSET hands.recipes :
          head' = [has |-> head.has \cup {<<0, n>>}, green |-> g,
                   by |-> <<"hand", <<0, n>>>>]
    BY <1>3 DEF Push
  <2>2. <<0, n>> \in Work  BY DEF Work
  <2>3. head.has \subseteq Work  BY <1>1 DEF Commits
  <2>4. head' \in Commits /\ head.has \subseteq head'.has
    BY <1>2, <2>1, <2>2, <2>3 DEF Commits
  <2>5. LanesProven'  BY <1>1, <1>3 DEF Push, LanesProven
  <2> QED  BY <1>1, <1>3, <2>4, <2>5, KeptStep DEF Push, QueueKept
<1>4. CASE Integrate
  <2>1. PICK r \in Runners : /\ lane[r].work # NoObject
                             /\ head' \in Merged(head, lane[r].work, <<"hand", Generation(r)>>)
    BY <1>4 DEF Integrate
  <2>2. lane[r].work \in Commits  BY <1>1, <2>1 DEF LaneType
  <2>3. lane[r].pc \in {"worked", "merged", "prepared", "applied"}
    BY <1>1, <2>1 DEF LanesProven, LaneKnows, LaneType, LoopPcs
  <2>4. Generation(r) \in Work
    BY <1>1, <2>3, GenerationFits DEF LanesProven, LaneFits
  <2>5. <<"hand", Generation(r)>> \in {"base", "work", "merge", "hand"} \X Work
    BY <2>4
  <2>6. head' \in Commits /\ head'.has = head.has \cup lane[r].work.has
    BY <1>1, <2>1, <2>2, <2>5, MergedFits
  <2>7. LanesProven'  BY <1>1, <1>4 DEF Integrate, LanesProven
  <2>8. head.has \subseteq head'.has  BY <2>6
  <2> QED  BY <1>1, <1>4, <2>6, <2>7, <2>8, KeptStep DEF Integrate, QueueKept
<1>5. CASE TaskByHand
  <2>1. QueueKept  BY <1>1, <1>5, HandKept DEF TaskByHand
  <2>2. LanesProven'  BY <1>1, <1>5 DEF TaskByHand, LanesProven
  <2> QED  BY <1>1, <1>5, <2>1, <2>2, KeptStep DEF TaskByHand
<1>6. CASE OperationByHand
  <2>1. /\ clock' = clock /\ lane' = lane /\ receipt' = receipt /\ hands' = hands
    BY <1>6 DEF OperationByHand
  <2>2. LanesProven'  BY <1>1, <2>1 DEF LanesProven
  <2>3. PICK o \in Operations :
          LET operation == queue.operations[o]
              task == queue.tasks[operation.task]
          IN /\ operation.status = "prepared"
             /\ \/ Lands(o, task.owner, task.epoch)
                \/ /\ head = operation.object
                   /\ Writes(ObserveOperation(queue, o, task.owner, task.epoch, clock))
                   /\ UNCHANGED head
    BY <1>6 DEF OperationByHand
  <2> DEFINE w == queue.tasks[queue.operations[o].task].owner
             e == queue.tasks[queue.operations[o].task].epoch
  <2>4. /\ queue.operations[o].status = "prepared"
        /\ Writes(ObserveOperation(queue, o, w, e, clock))
        /\ \/ StillExpected(o) /\ head' = queue.operations[o].object
           \/ head = queue.operations[o].object /\ head' = head
    BY <2>3 DEF Lands
  <2> HIDE DEF w, e
  <2> QED  BY <1>1, <2>1, <2>2, <2>4, LandStep
<1>7. CASE Tick
  <2>1. LanesProven'  BY <1>1, <1>7 DEF Tick, LanesProven
  <2> QED  BY <1>1, <1>7, <2>1, KeptStep DEF Tick, QueueKept
<1> QED  BY <1>3, <1>4, <1>5, <1>6, <1>7

LEMMA FrontierStep ==
  ASSUME FrontierInv, [FrontierNext]_frontierVars
  PROVE  FrontierInv' /\ [LandsNow]_frontierVars
<1>1. CASE FrontierNext
  BY <1>1, LoopKeeps, HandsKeep DEF FrontierNext
<1>2. CASE UNCHANGED frontierVars
  BY <1>2 DEF frontierVars, FrontierInv, FrontierTypeOK, LanesProven, ReceiptsTrue,
              ReceiptsCurrent
<1> QED  BY <1>1, <1>2

LEMMA FrontierStarts == FrontierInit => FrontierInv
<1> SUFFICES ASSUME FrontierInit
             PROVE  FrontierInv
  OBVIOUS
<1>1. /\ hands \in Scenarios /\ queue = hands.queue /\ head = FirstCommit
      /\ clock = 0 /\ receipt = [o \in Operations |-> NoRecipe]
      /\ lane = [r \in Runners |->
                   [Between(0) EXCEPT !.pc = IF r \in hands.runners THEN "idle"
                                                                 ELSE "finished"]]
  BY DEF FrontierInit
<1>2. /\ queue \in State /\ queue.operations = EmptyState.operations
      /\ \A t \in Tasks :
           /\ ClaimWellFormed(queue.tasks[t])
           /\ queue.tasks[t].status = "absent" => queue.tasks[t] = NoTask
           /\ queue.tasks[t].lane => queue.tasks[t].status # "done"
           /\ queue.tasks[t].status # "absent" => Numbered(t)
  BY <1>1, FrontierAssumption DEF Numbered
<1>3. \A o \in Operations : queue.operations[o].status = "absent"
  BY <1>2 DEF EmptyState, AbsentOperation
<1>4. \A r \in Runners : LaneFits(lane[r])
  <2>1. ASSUME NEW r \in Runners
        PROVE  LaneFits(lane[r])
    <3>1. PICK pc \in {"idle", "finished", "stopped"} :
            lane[r] = [Between(0) EXCEPT !.pc = pc]
      BY <1>1
    <3> QED  BY <3>1, BetweenFits
  <2> QED  BY <2>1
<1>5. lane \in [Runners -> LaneType] /\ LanesProven
  BY <1>1, <1>4 DEF LaneFits, LanesProven
<1>6. head \in Commits  BY <1>1 DEF FirstCommit, Commits
<1>7. FrontierTypeOK
  BY <1>1, <1>2, <1>5, <1>6 DEF FrontierTypeOK, WellFormed, Unused, Exists
<1>8. ReceiptsTrue /\ ReceiptsCurrent
  BY <1>2, <1>3 DEF ReceiptsTrue, ReceiptsCurrent
<1> QED  BY <1>5, <1>7, <1>8 DEF FrontierInv

\* Whoever prepared an operation and whatever was edited since, the commit it may
\* land passes the check its receipt names and contains the branch it replaces,
\* and a lane task is done only when the work of its operation is on the branch.
THEOREM ReceiptsAreTrue == FrontierSpec => []ReceiptsTrue
<1>1. FrontierInv /\ [FrontierNext]_frontierVars => FrontierInv'  BY FrontierStep
<1>2. FrontierInv => ReceiptsTrue  BY DEF FrontierInv
<1> QED  BY FrontierStarts, <1>1, <1>2, PTL DEF FrontierSpec

\* No step loses work from the branch, and what the generation that holds a task
\* lands proves the recipe the task has at that moment.
THEOREM LoopsLandAsClaimed == FrontierSpec => LandsAsClaimed
<1>1. FrontierInv /\ [FrontierNext]_frontierVars => FrontierInv'  BY FrontierStep
<1>2. FrontierInv /\ [FrontierNext]_frontierVars => [LandsNow]_frontierVars
  BY FrontierStep
<1> QED  BY FrontierStarts, <1>1, <1>2, PTL DEF FrontierSpec, LandsAsClaimed, LandsNow

-----------------------------------------------------------------------------
(* The plans of a profile. *)

Single(S) == \A x, y \in S : x = y

IdsOf(blocks) == {b.id : b \in blocks}

LEMMA SingleIs ==
  ASSUME NEW S, IsFiniteSet(S)
  PROVE  Single(S) <=> ~(Cardinality(S) > 1)
<1>1. CASE S = {}  BY <1>1, FS_EmptySet DEF Single
<1>2. CASE S # {}
  <2>1. PICK x \in S : TRUE  BY <1>2
  <2>2. Single(S) => Cardinality(S) = 1
    <3>1. SUFFICES ASSUME Single(S)  PROVE S = {x}
      BY FS_Singleton
    <3> QED  BY <2>1, <3>1 DEF Single
  <2>3. Cardinality(S) = 1 => Single(S)  BY FS_Singleton DEF Single
  <2>4. Cardinality(S) \in Nat /\ Cardinality(S) # 0
    BY <1>2, FS_EmptySet, FS_CardinalityType
  <2> QED  BY <2>2, <2>3, <2>4
<1> QED  BY <1>1, <1>2

\* Setting blocks: the names, what they are set to, and that none is doubled.
LEMMA SetIs ==
  ASSUME NEW names, NEW blocks \in SUBSET Blocks(names), NEW states \in Sides(names),
         ~ Clash(states), NEW add \in SUBSET Both(states)
  PROVE  /\ Set(blocks, states, add) \in SUBSET Blocks(names)
         /\ IdsOf(Set(blocks, states, add)) = IdsOf(blocks) \cup add
         /\ \A b \in Set(blocks, states, add) :
              /\ b.id \in states.on => b.is = "on"
              /\ b.id \in states.off => b.is = "off"
              /\ b.id \notin Both(states) => b \in blocks
         /\ \A id : Single(OfId(blocks, id)) => Single(OfId(Set(blocks, states, add), id))
<1> DEFINE set(b) == IF b.id \in states.on THEN [b EXCEPT !.is = "on"]
                     ELSE IF b.id \in states.off THEN [b EXCEPT !.is = "off"]
                     ELSE b
           new(id) == [id |-> id, is |-> IF id \in states.on THEN "on" ELSE "off"]
           after == Set(blocks, states, add)
<1>1. /\ \A b \in after : \/ \E c \in blocks : b = set(c)
                          \/ \E id \in add \ IdsOf(blocks) : b = new(id)
      /\ \A c \in blocks : set(c) \in after
      /\ \A id \in add \ IdsOf(blocks) : new(id) \in after
  BY DEF Set, IdsOf
<1>2. \A c \in blocks :
        /\ set(c) \in Blocks(names) /\ set(c).id = c.id
        /\ c.id \in states.on => set(c).is = "on"
        /\ c.id \in states.off => set(c).is = "off"
        /\ c.id \notin Both(states) => set(c) = c
  BY DEF Blocks, Settings, Sides, Clash, Both
<1>3. \A id \in add :
        /\ new(id) \in Blocks(names) /\ new(id).id = id
        /\ id \in states.on => new(id).is = "on"
        /\ id \in states.off => new(id).is = "off"
  BY DEF Blocks, Settings, Sides, Clash, Both
<1> HIDE DEF set, new, after
<1>4. after \in SUBSET Blocks(names)  BY <1>1, <1>2, <1>3
<1>5. IdsOf(after) = IdsOf(blocks) \cup add
  <2>1. \A b \in after : b.id \in IdsOf(blocks) \cup add  BY <1>1, <1>2, <1>3 DEF IdsOf
  <2>2. \A c \in blocks : c.id \in IdsOf(after)  BY <1>1, <1>2 DEF IdsOf
  <2>3. \A id \in add : id \in IdsOf(after)  BY <1>1, <1>2, <1>3 DEF IdsOf
  <2> QED  BY <2>1, <2>2, <2>3 DEF IdsOf
<1>6. \A b \in after :
        /\ b.id \in states.on => b.is = "on"
        /\ b.id \in states.off => b.is = "off"
        /\ b.id \notin Both(states) => b \in blocks
  BY <1>1, <1>2, <1>3
<1>7. ASSUME NEW id, Single(OfId(blocks, id))  PROVE Single(OfId(after, id))
  <2> SUFFICES ASSUME NEW x \in after, NEW y \in after, x.id = id, y.id = id
               PROVE  x = y
    BY DEF Single, OfId
  <2>1. \A c, d \in blocks : (c.id = id /\ d.id = id) => c = d
    BY <1>7 DEF Single, OfId
  <2>2. CASE id \in IdsOf(blocks)
    <3>1. (\E c \in blocks : x = set(c)) /\ (\E c \in blocks : y = set(c))
      BY <1>1, <1>3, <2>2
    <3> QED  BY <2>1, <3>1, <1>2
  <2>3. CASE id \notin IdsOf(blocks)
    <3>1. x = new(id) /\ y = new(id)  BY <1>1, <1>2, <1>3, <2>3 DEF IdsOf
    <3> QED  BY <3>1
  <2> QED  BY <2>2, <2>3
<1> QED  BY <1>4, <1>5, <1>6, <1>7 DEF after

\* Blocks that are set already are left alone.
LEMMA SetSettles ==
  ASSUME NEW names, NEW blocks \in SUBSET Blocks(names), NEW states \in Sides(names),
         ~ Clash(states), NEW add \in SUBSET IdsOf(blocks),
         \A b \in blocks : /\ b.id \in states.on => b.is = "on"
                           /\ b.id \in states.off => b.is = "off"
  PROVE  Set(blocks, states, add) = blocks
<1> DEFINE set(b) == IF b.id \in states.on THEN [b EXCEPT !.is = "on"]
                     ELSE IF b.id \in states.off THEN [b EXCEPT !.is = "off"]
                     ELSE b
<1>1. \A b \in blocks : set(b) = b  BY DEF Blocks
<1>2. Set(blocks, states, add) = {set(b) : b \in blocks}
  BY DEF Set, IdsOf
<1> HIDE DEF set
<1> QED  BY <1>1, <1>2

\* A skill's block that is turned off, and one that is added.
Off(b) == [b EXCEPT !.is = "off"]

Added(path) == [path |-> path, detour |-> FALSE, is |-> "off", owned |-> FALSE]

\* The blocks that stay, and the paths that get one.
Stays(config, want, b) == SkillOff(config, want, b) \/ b.path \notin want.skills.on

Lacking(config, want) == {p \in want.skills.off : OfPath(config.skills, p) = {}}

LEMMA SkillsAre ==
  ASSUME NEW config, config.skills \in SUBSET SkillBlocks,
         NEW want, want.skills \in Sides(Paths)
  PROVE  LET after == PlannedSkills(config, want) IN
         /\ after \in SUBSET SkillBlocks
         /\ \A b \in after :
              \/ \E c \in config.skills : SkillOff(config, want, c) /\ b = Off(c)
              \/ /\ b \in config.skills /\ ~ SkillOff(config, want, b)
                 /\ b.path \notin want.skills.on
              \/ b.path \in Lacking(config, want) /\ b = Added(b.path)
         /\ \A c \in config.skills :
              /\ SkillOff(config, want, c) => Off(c) \in after
              /\ ~ SkillOff(config, want, c) /\ c.path \notin want.skills.on => c \in after
         /\ \A path \in Lacking(config, want) : Added(path) \in after
<1> DEFINE set(b) == IF SkillOff(config, want, b) THEN Off(b) ELSE b
           after == PlannedSkills(config, want)
<1>1. after = {set(b) : b \in {c \in config.skills : Stays(config, want, c)}}
                \cup {Added(path) : path \in Lacking(config, want)}
  BY DEF PlannedSkills, Off, Added, Stays, Lacking
<1>2. \A c \in config.skills : Off(c) \in SkillBlocks
  BY DEF Off, SkillBlocks, Settings
<1>3. \A path \in Lacking(config, want) : Added(path) \in SkillBlocks /\ Added(path).path = path
  BY DEF Added, SkillBlocks, Settings, Lacking, Sides
<1>4. \A b \in after :
              \/ \E c \in config.skills : SkillOff(config, want, c) /\ b = Off(c)
              \/ /\ b \in config.skills /\ ~ SkillOff(config, want, b)
                 /\ b.path \notin want.skills.on
              \/ b.path \in Lacking(config, want) /\ b = Added(b.path)
  <2> SUFFICES ASSUME NEW b \in after
               PROVE \/ \E c \in config.skills : SkillOff(config, want, c) /\ b = Off(c)
                     \/ /\ b \in config.skills /\ ~ SkillOff(config, want, b)
                        /\ b.path \notin want.skills.on
                     \/ b.path \in Lacking(config, want) /\ b = Added(b.path)
    OBVIOUS
  <2> HIDE DEF after
  <2>1. CASE \E c \in config.skills : Stays(config, want, c) /\ b = set(c)
    BY <2>1 DEF Stays
  <2>2. CASE \E path \in Lacking(config, want) : b = Added(path)
    BY <2>2, <1>3
  <2> QED  BY <1>1, <2>1, <2>2
<1>5. \A c \in config.skills :
              /\ SkillOff(config, want, c) => Off(c) \in after
              /\ ~ SkillOff(config, want, c) /\ c.path \notin want.skills.on => c \in after
  <2> HIDE DEF after
  <2> SUFFICES ASSUME NEW c \in config.skills, Stays(config, want, c)
               PROVE  set(c) \in after
    BY DEF Stays
  <2> HIDE DEF set
  <2> QED  BY <1>1
<1>6. \A path \in Lacking(config, want) : Added(path) \in after
  BY <1>1
<1> HIDE DEF after
<1>7. after \in SUBSET SkillBlocks  BY <1>2, <1>3, <1>4
<1> QED  BY <1>4, <1>5, <1>6, <1>7 DEF after

\* No path gets a second block, and those of a path are finitely many.
LEMMA SkillsStaySingle ==
  ASSUME NEW config, config.skills \in SUBSET SkillBlocks, NEW want, want.skills \in Sides(Paths),
         NEW path
  PROVE  LET after == PlannedSkills(config, want) IN
         /\ Single(OfPath(config.skills, path)) => Single(OfPath(after, path))
         /\ IsFiniteSet(config.skills) => IsFiniteSet(OfPath(after, path))
<1> DEFINE after == PlannedSkills(config, want)
           set(b) == IF SkillOff(config, want, b) THEN Off(b) ELSE b
           here == OfPath(config.skills, path)
<1>1. \A b \in OfPath(after, path) :
        \/ \E c \in here : b = set(c)
        \/ here = {} /\ b = Added(path)
  <2> SUFFICES ASSUME NEW b \in after, b.path = path
               PROVE  (\E c \in here : b = set(c)) \/ (here = {} /\ b = Added(path))
    BY DEF OfPath
  <2>1. CASE \E c \in config.skills : SkillOff(config, want, c) /\ b = Off(c)
    <3>1. PICK c \in config.skills : SkillOff(config, want, c) /\ b = Off(c)  BY <2>1
    <3>2. c.path = path  BY <3>1 DEF Off, SkillBlocks
    <3> QED  BY <3>1, <3>2 DEF OfPath
  <2>2. CASE b \in config.skills /\ ~ SkillOff(config, want, b)
    BY <2>2 DEF OfPath
  <2>3. CASE b.path \in Lacking(config, want) /\ b = Added(b.path)
    BY <2>3 DEF Lacking
  <2> QED  BY <2>1, <2>2, <2>3, SkillsAre
<1> HIDE DEF after
<1>2. Single(here) => Single(OfPath(after, path))
  <2> HIDE DEF set, here
  <2> QED  BY <1>1 DEF Single
<1>3. ASSUME IsFiniteSet(config.skills)  PROVE IsFiniteSet(OfPath(after, path))
  <2>1. CASE here = {}
    <3>1. OfPath(after, path) \in SUBSET {Added(path)}  BY <1>1, <2>1
    <3> QED  BY <3>1, FS_Subset, FS_Singleton
  <2>2. CASE here # {}
    <3> DEFINE from == {c \in here : set(c) \in OfPath(after, path)}
               f == [c \in from |-> set(c)]
    <3>1. IsFiniteSet(from)  BY <1>3, FS_Subset DEF OfPath
    <3> HIDE DEF set, here
    <3>2. \A b \in OfPath(after, path) : \E c \in from : f[c] = b  BY <1>1, <2>2
    <3>3. f \in [from -> OfPath(after, path)]  OBVIOUS
    <3> HIDE DEF f, from
    <3>4. f \in Surjection(from, OfPath(after, path))  BY <3>2, <3>3 DEF Surjection
    <3> QED  BY <3>1, <3>4, FS_Surjection
  <2> QED  BY <2>1, <2>2
<1> QED  BY <1>2, <1>3 DEF after

\* A plan changes nothing where what it turns off is off, what is wanted on has no
\* other block, and what is wanted off has one.
LEMMA SkillsSettle ==
  ASSUME NEW config, config.skills \in SUBSET SkillBlocks, NEW want, want.skills \in Sides(Paths),
         \A b \in config.skills : /\ SkillOff(config, want, b) => b.is = "off"
                                  /\ Stays(config, want, b),
         Lacking(config, want) = {}
  PROVE  PlannedSkills(config, want) = config.skills
<1> DEFINE after == PlannedSkills(config, want)
<1>1. \A b \in config.skills : b.is = "off" => Off(b) = b  BY DEF Off, SkillBlocks
<1>2. after \subseteq config.skills  BY <1>1, SkillsAre
<1>3. config.skills \subseteq after  BY <1>1, SkillsAre DEF Stays
<1> QED  BY <1>2, <1>3

-----------------------------------------------------------------------------
(* What a profile wants. *)

Wellformed(want) ==
  /\ want.plugins \in Sides(Plugins) /\ ~ Clash(want.plugins)
  /\ want.mcps \in Sides(Servers) /\ ~ Clash(want.mcps)
  /\ want.skills \in Sides(Paths) /\ ~ Clash(want.skills)

LEMMA PluginsResolve ==
  ASSUME NEW profile \in Profiles, NEW inventory \in Inventories,
         ~ ProfileRefused(profile, inventory)
  PROVE  LET plugins == ResolvedPlugins(profile, inventory) IN
         /\ plugins \in Sides(Plugins) /\ ~ Clash(plugins) /\ ~ OwnersClash(plugins.on)
         /\ \A owner \in plugins.on, p \in inventory.plugins :
              p # owner /\ Family[p] = Family[owner] => p \in plugins.off
<1> DEFINE chosen == Selected(profile, inventory)
           plugins == ResolvedPlugins(profile, inventory)
<1>1. inventory.plugins \subseteq Plugins  BY DEF Inventories
<1>2. \A selectors : Named(inventory, selectors) \subseteq Plugins  BY <1>1 DEF Named
<1>3. chosen.on \subseteq Plugins /\ chosen.off \subseteq Plugins
  BY <1>1, <1>2 DEF Selected
<1>4. chosen.on \cap chosen.off = {} /\ ~ OwnersClash(plugins.on)
  BY DEF ProfileRefused, Clash
<1> HIDE DEF chosen
<1>5. /\ plugins = [on |-> plugins.on, off |-> plugins.off]
      /\ plugins.on = chosen.on \ inventory.quarantine
      /\ plugins.off = chosen.off
           \cup {p \in inventory.plugins \ plugins.on : \E q \in plugins.on : Family[p] = Family[q]}
           \cup (inventory.quarantine \cap Plugins)
  BY DEF ResolvedPlugins, chosen
<1> HIDE DEF plugins
<1>6. plugins \in Sides(Plugins)
  <2>1. plugins.on \subseteq Plugins /\ plugins.off \subseteq Plugins  BY <1>1, <1>3, <1>5
  <2> QED  BY <1>5, <2>1 DEF Sides
<1>7. ~ Clash(plugins)  BY <1>4, <1>5 DEF Clash
<1>8. \A owner \in plugins.on, p \in inventory.plugins :
        p # owner /\ Family[p] = Family[owner] => p \in plugins.off
  <2> SUFFICES ASSUME NEW owner \in plugins.on, NEW p \in inventory.plugins,
                      p # owner, Family[p] = Family[owner]
               PROVE  p \in plugins.off
    OBVIOUS
  <2>1. p \notin plugins.on  BY <1>1, <1>4 DEF OwnersClash
  <2> QED  BY <2>1, <1>5
<1> QED  BY <1>4, <1>6, <1>7, <1>8 DEF plugins

LEMMA SkillsSelected ==
  ASSUME NEW profile \in Profiles, NEW inventory \in Inventories,
         ~ ProfileRefused(profile, inventory)
  PROVE  LET skills == SelectedSkills(profile, inventory) IN
         /\ skills.on \cap skills.off = {}
         /\ skills.on \subseteq inventory.skills
         /\ skills.off \subseteq inventory.skills \cup (inventory.quarantine \cap Paths)
<1> DEFINE exact == inventory.skills \cap (profile.skillsOn \cup profile.skillsOff)
           rest == inventory.skills \ (exact \cup inventory.owning)
           on == {s \in exact \cap profile.skillsOn :
                    s \in inventory.admitted => s \in inventory.owning}
                 \cup (inventory.owning \ exact) \cup (rest \cap profile.familyOn)
           off == (exact \ on) \cup (rest \cap profile.familyOff)
                  \cup (IF profile.skillsDefaultOff THEN rest \ on ELSE {})
           skills == SelectedSkills(profile, inventory)
<1>1. inventory.owning \subseteq inventory.skills  BY DEF Inventories
<1>2. rest \cap profile.familyOn \cap profile.familyOff = {}
  BY DEF ProfileRefused
<1>3. on \subseteq inventory.skills /\ off \subseteq inventory.skills  BY <1>1
<1>4. on \cap off = {}  BY <1>2
<1>5. /\ skills.on = on \ inventory.quarantine
      /\ skills.off = off \cup (inventory.quarantine \cap Paths)
  BY DEF SelectedSkills
<1> QED  BY <1>3, <1>4, <1>5

LEMMA ResolvedIs ==
  ASSUME NEW profile \in Profiles, NEW inventory \in Inventories,
         ~ ProfileRefused(profile, inventory)
  PROVE  LET want == Resolved(profile, inventory) IN
         /\ Wellformed(want) /\ ~ OwnersClash(want.plugins.on)
         /\ \A path \in Both(want.skills) :
              path \in inventory.skills \cup inventory.quarantine \/ Cached[path] # NoPlugin
         /\ \A owner \in want.plugins.on, p \in inventory.plugins :
              p # owner /\ p \notin Aliases[owner] /\ Family[p] = Family[owner] =>
                \A path \in Paths : Cached[path] = p => path \in want.skills.off
<1> DEFINE want == Resolved(profile, inventory)
           plugins == ResolvedPlugins(profile, inventory)
           chosen == SelectedSkills(profile, inventory)
           cached == PluginSkills(profile, inventory)
<1>1. /\ want.plugins = plugins /\ want.mcps = profile.mcps
      /\ want.skills = [on |-> chosen.on \cup (cached.on \ chosen.off),
                        off |-> chosen.off \cup cached.off]
  BY DEF Resolved
<1>2. /\ plugins \in Sides(Plugins) /\ ~ Clash(plugins) /\ ~ OwnersClash(plugins.on)
      /\ \A owner \in plugins.on, p \in inventory.plugins :
           p # owner /\ Family[p] = Family[owner] => p \in plugins.off
  BY PluginsResolve
<1>3. profile.mcps \in Sides(Servers) /\ ~ Clash(profile.mcps)
  BY DEF Profiles, ProfileRefused
<1>4. chosen.on \cap cached.off = {}  BY DEF ProfileRefused
<1>5. /\ chosen.on \cap chosen.off = {}
      /\ chosen.on \subseteq inventory.skills
      /\ chosen.off \subseteq inventory.skills \cup (inventory.quarantine \cap Paths)
  BY SkillsSelected
<1>6. inventory.skills \subseteq Paths /\ inventory.plugins \subseteq Plugins
  BY DEF Inventories
<1>7. /\ cached.on \cap cached.off = {}
      /\ cached.on \subseteq Paths /\ cached.off \subseteq Paths
      /\ \A path \in cached.on \cup cached.off : Cached[path] \in Plugins
  BY <1>6 DEF PluginSkills
<1>8. ASSUME NEW owner \in plugins.on, NEW p \in inventory.plugins, p \notin Aliases[owner],
             p # owner, Family[p] = Family[owner],
             NEW path \in Paths, Cached[path] = p
      PROVE  path \in cached.off
  <2> DEFINE admits == [plugins |-> plugins]
  <2>1. p \notin plugins.on  BY <1>2, <1>6, <1>8 DEF OwnersClash
  <2>2. OwnerOf(admits, Family[p]) \subseteq {owner}
    BY <1>2, <1>8 DEF OwnerOf, OwnersClash
  <2>3. ~ Trusted(admits, p)
    <3>1. admits.plugins.on = plugins.on  OBVIOUS
    <3> HIDE DEF admits, plugins
    <3>2. p \notin admits.plugins.on  BY <2>1, <3>1
    <3>3. \A o \in OwnerOf(admits, Family[p]) : p \notin Aliases[o]  BY <1>8, <2>2
    <3> QED  BY <3>2, <3>3 DEF Trusted
  <2>4. p \in plugins.off  BY <1>2, <1>8
  <2> HIDE DEF plugins
  <2>5. cached.off = {s \in {t \in Paths : Cached[t] \in inventory.plugins} :
                        /\ ~ Trusted(admits, Cached[s])
                        /\ \/ Cached[s] \in plugins.off
                           \/ Family[Cached[s]] \in profile.families}
    BY DEF PluginSkills, plugins
  <2> QED  BY <1>8, <2>3, <2>4, <2>5
<1> HIDE DEF want, plugins, chosen, cached
<1>9. want.skills \in Sides(Paths) /\ ~ Clash(want.skills)
  <2>1. /\ want.skills.on = chosen.on \cup (cached.on \ chosen.off)
        /\ want.skills.off = chosen.off \cup cached.off
    BY <1>1
  <2>2. want.skills.on \subseteq Paths /\ want.skills.off \subseteq Paths
    BY <1>5, <1>6, <1>7, <2>1
  <2>3. ~ Clash(want.skills)  BY <1>4, <1>5, <1>7, <2>1 DEF Clash
  <2> QED  BY <1>1, <2>2, <2>3 DEF Sides
<1>10. Wellformed(want)  BY <1>1, <1>2, <1>3, <1>9 DEF Wellformed
<1>11. \A path \in Both(want.skills) :
         path \in inventory.skills \cup inventory.quarantine \/ Cached[path] # NoPlugin
  BY <1>1, <1>5, <1>7, CatalogAssumption DEF Both
<1>12. \A owner \in want.plugins.on, p \in inventory.plugins :
         p # owner /\ p \notin Aliases[owner] /\ Family[p] = Family[owner] =>
           \A path \in Paths : Cached[path] = p => path \in want.skills.off
  BY <1>1, <1>8
<1> QED  BY <1>1, <1>2, <1>10, <1>11, <1>12 DEF want

-----------------------------------------------------------------------------
(* One plan. *)

\* Servers with a block that are turned off though nothing is said of them.
ServersOff(config, want) ==
  IdsOf(config.mcps) \cap (Quarantined \cup (IF want.mcpsOff THEN Servers \ Both(want.mcps)
                                             ELSE {}))

Planable(config, want) ==
  /\ config.plugins \in SUBSET Blocks(Plugins)
  /\ config.mcps \in SUBSET Blocks(Servers)
  /\ config.skills \in SUBSET SkillBlocks
  /\ Wellformed(want) /\ ~ DesiredRefused(want)

LEMMA ManagedIs ==
  ASSUME NEW config, NEW want, Planable(config, want)
  PROVE  LET plugins == Managed(config, want)
             servers == ManagedServers(config, want)
         IN /\ plugins.on = want.plugins.on
            /\ plugins.off = want.plugins.off \cup SetOff(config, want)
            /\ plugins \in Sides(Plugins) /\ ~ Clash(plugins)
            /\ servers.on = want.mcps.on
            /\ servers.off = want.mcps.off \cup ServersOff(config, want)
            /\ servers \in Sides(Servers) /\ ~ Clash(servers)
<1>1. SetOff(config, want) \subseteq Plugins /\ SetOff(config, want) \cap want.plugins.on = {}
  BY DEF SetOff, Planable, DesiredRefused, Both
<1>2. /\ want.plugins.on \subseteq Plugins /\ want.plugins.off \subseteq Plugins
      /\ want.plugins.on \cap want.plugins.off = {}
      /\ want.mcps.on \subseteq Servers /\ want.mcps.off \subseteq Servers
      /\ want.mcps.on \cap want.mcps.off = {}
  BY DEF Planable, Wellformed, Sides, Clash
<1>3. ServersOff(config, want) \subseteq Servers
  BY DEF ServersOff, Planable, IdsOf, Blocks
<1>4. ServersOff(config, want) \cap want.mcps.on = {}
  BY DEF ServersOff, Planable, DesiredRefused, Both
<1>5. Managed(config, want) = [on |-> want.plugins.on,
                               off |-> want.plugins.off \cup SetOff(config, want)]
  BY <1>1 DEF Managed
<1>6. ManagedServers(config, want) = [on |-> want.mcps.on,
                                      off |-> want.mcps.off \cup ServersOff(config, want)]
  BY <1>4 DEF ManagedServers, ServersOff, IdsOf
<1> DEFINE off == want.plugins.off \cup SetOff(config, want)
           down == want.mcps.off \cup ServersOff(config, want)
<1>7. /\ off \subseteq Plugins /\ want.plugins.on \cap off = {}
      /\ down \subseteq Servers /\ want.mcps.on \cap down = {}
  BY <1>1, <1>2, <1>3, <1>4
<1> HIDE DEF off, down
<1>8. /\ Managed(config, want) = [on |-> want.plugins.on, off |-> off]
      /\ ManagedServers(config, want) = [on |-> want.mcps.on, off |-> down]
  BY <1>5, <1>6 DEF off, down
<1>9. /\ Managed(config, want) \in Sides(Plugins) /\ ~ Clash(Managed(config, want))
      /\ ManagedServers(config, want) \in Sides(Servers)
      /\ ~ Clash(ManagedServers(config, want))
  BY <1>2, <1>7, <1>8 DEF Sides, Clash
<1> QED  BY <1>8, <1>9 DEF off, down

\* What the plan leaves of plugins and servers.
LEMMA PlanIs ==
  ASSUME NEW config, NEW want, Planable(config, want)
  PROVE  LET after == Planned(config, want)
             plugins == Managed(config, want)
             servers == ManagedServers(config, want)
         IN /\ after.plugins \in SUBSET Blocks(Plugins)
            /\ IdsOf(after.plugins) = IdsOf(config.plugins) \cup Both(want.plugins)
            /\ \A b \in after.plugins : /\ b.id \in plugins.on => b.is = "on"
                                        /\ b.id \in plugins.off => b.is = "off"
                                        /\ b.id \notin Both(plugins) => b \in config.plugins
            /\ \A id : Single(OfId(config.plugins, id)) => Single(OfId(after.plugins, id))
            /\ after.mcps \in SUBSET Blocks(Servers)
            /\ IdsOf(after.mcps) = IdsOf(config.mcps)
            /\ \A b \in after.mcps : /\ b.id \in servers.on => b.is = "on"
                                     /\ b.id \in servers.off => b.is = "off"
                                     /\ b.id \notin Both(servers) => b \in config.mcps
            /\ \A id : Single(OfId(config.mcps, id)) => Single(OfId(after.mcps, id))
            /\ after.skills \in SUBSET SkillBlocks
            /\ after = [plugins |-> after.plugins, mcps |-> after.mcps,
                        skills |-> PlannedSkills(config, want)]
<1> DEFINE plugins == Managed(config, want)
           servers == ManagedServers(config, want)
<1>1. /\ plugins \in Sides(Plugins) /\ ~ Clash(plugins)
      /\ servers \in Sides(Servers) /\ ~ Clash(servers)
      /\ Both(want.plugins) \subseteq Both(plugins)
  BY ManagedIs DEF Both
<1>2. /\ config.plugins \in SUBSET Blocks(Plugins) /\ config.mcps \in SUBSET Blocks(Servers)
      /\ config.skills \in SUBSET SkillBlocks /\ want.skills \in Sides(Paths)
  BY DEF Planable, Wellformed
<1>3. PlannedSkills(config, want) \in SUBSET SkillBlocks  BY <1>2, SkillsAre
<1> HIDE DEF plugins, servers
<1> DEFINE set == Set(config.plugins, plugins, Both(want.plugins))
           kept == Set(config.mcps, servers, {})
<1>4. /\ set \in SUBSET Blocks(Plugins)
      /\ IdsOf(set) = IdsOf(config.plugins) \cup Both(want.plugins)
      /\ \A b \in set : /\ b.id \in plugins.on => b.is = "on"
                        /\ b.id \in plugins.off => b.is = "off"
                        /\ b.id \notin Both(plugins) => b \in config.plugins
      /\ \A id : Single(OfId(config.plugins, id)) => Single(OfId(set, id))
  BY <1>1, <1>2, SetIs
<1>5. /\ kept \in SUBSET Blocks(Servers)
      /\ IdsOf(kept) = IdsOf(config.mcps)
      /\ \A b \in kept : /\ b.id \in servers.on => b.is = "on"
                         /\ b.id \in servers.off => b.is = "off"
                         /\ b.id \notin Both(servers) => b \in config.mcps
      /\ \A id : Single(OfId(config.mcps, id)) => Single(OfId(kept, id))
  <2> DEFINE nobody == {}
  <2>1. nobody \in SUBSET Both(servers) /\ IdsOf(config.mcps) \cup nobody = IdsOf(config.mcps)
    OBVIOUS
  <2>2. kept = Set(config.mcps, servers, nobody)  OBVIOUS
  <2> HIDE DEF kept, nobody
  <2>3. /\ kept \in SUBSET Blocks(Servers)
        /\ IdsOf(kept) = IdsOf(config.mcps) \cup nobody
        /\ \A b \in kept : /\ b.id \in servers.on => b.is = "on"
                           /\ b.id \in servers.off => b.is = "off"
                           /\ b.id \notin Both(servers) => b \in config.mcps
        /\ \A id : Single(OfId(config.mcps, id)) => Single(OfId(kept, id))
    BY <1>1, <1>2, <2>1, <2>2, SetIs
  <2> QED  BY <2>1, <2>3
<1>6. Planned(config, want) = [plugins |-> set, mcps |-> kept,
                               skills |-> PlannedSkills(config, want)]
  BY DEF Planned, plugins, servers
<1> HIDE DEF set, kept
<1> QED  BY <1>3, <1>4, <1>5, <1>6 DEF plugins, servers

\* Where the same names have blocks, or those that a plan adds, the same is turned off.
LEMMA SameIsManaged ==
  ASSUME NEW config, NEW again, NEW want, Planable(config, want), Planable(again, want),
         IdsOf(config.plugins) \subseteq IdsOf(again.plugins),
         IdsOf(again.plugins) \subseteq IdsOf(config.plugins) \cup Both(want.plugins),
         IdsOf(again.mcps) = IdsOf(config.mcps)
  PROVE  /\ Managed(again, want).on = Managed(config, want).on
         /\ Managed(again, want).off = Managed(config, want).off
         /\ ManagedServers(again, want).on = ManagedServers(config, want).on
         /\ ManagedServers(again, want).off = ManagedServers(config, want).off
         /\ \A b : SkillOff(again, want, b) <=> SkillOff(config, want, b)
<1>1. SetOff(config, want) \subseteq SetOff(again, want)
  BY DEF SetOff, IdsOf
<1>2. SetOff(again, want) \subseteq SetOff(config, want) \cup want.plugins.off
  <2> SUFFICES ASSUME NEW p \in SetOff(again, want), p \notin SetOff(config, want)
               PROVE  p \in want.plugins.off
    OBVIOUS
  <2>1. p \in IdsOf(again.plugins)  BY DEF SetOff, IdsOf
  <2>2. p \in Both(want.plugins)  BY <2>1 DEF SetOff, IdsOf
  <2>3. p \in Quarantined  BY <2>2 DEF SetOff
  <2> QED  BY <2>2, <2>3 DEF Planable, DesiredRefused, Both
<1>3. /\ Managed(again, want).on = Managed(config, want).on
      /\ Managed(again, want).off = Managed(config, want).off
      /\ ManagedServers(again, want).on = ManagedServers(config, want).on
      /\ ManagedServers(again, want).off = ManagedServers(config, want).off
  <2>1. /\ Managed(again, want).on = want.plugins.on
        /\ Managed(config, want).on = want.plugins.on
        /\ Managed(again, want).off = want.plugins.off \cup SetOff(again, want)
        /\ Managed(config, want).off = want.plugins.off \cup SetOff(config, want)
    BY ManagedIs
  <2>2. /\ ManagedServers(again, want).on = want.mcps.on
        /\ ManagedServers(config, want).on = want.mcps.on
        /\ ManagedServers(again, want).off = want.mcps.off \cup ServersOff(again, want)
        /\ ManagedServers(config, want).off = want.mcps.off \cup ServersOff(config, want)
    BY ManagedIs
  <2>3. ServersOff(again, want) = ServersOff(config, want)  BY DEF ServersOff
  <2> QED  BY <1>1, <1>2, <2>1, <2>2, <2>3
<1>4. \A path : ParentOff(again, want, path) <=> ParentOff(config, want, path)
  BY <1>3 DEF ParentOff
<1> QED  BY <1>3, <1>4 DEF SkillOff

\* A plan whose every block is as wanted changes nothing.
LEMMA PlanLeaves ==
  ASSUME NEW config, NEW want, Planable(config, want),
         Both(want.plugins) \subseteq IdsOf(config.plugins),
         \A b \in config.plugins : /\ b.id \in Managed(config, want).on => b.is = "on"
                                   /\ b.id \in Managed(config, want).off => b.is = "off",
         \A b \in config.mcps : /\ b.id \in ManagedServers(config, want).on => b.is = "on"
                                /\ b.id \in ManagedServers(config, want).off => b.is = "off",
         \A b \in config.skills : /\ SkillOff(config, want, b) => b.is = "off"
                                  /\ Stays(config, want, b),
         Lacking(config, want) = {}
  PROVE  Planned(config, want) = [plugins |-> config.plugins, mcps |-> config.mcps,
                                  skills |-> config.skills]
<1>1. /\ Managed(config, want) \in Sides(Plugins) /\ ~ Clash(Managed(config, want))
      /\ ManagedServers(config, want) \in Sides(Servers) /\ ~ Clash(ManagedServers(config, want))
  BY ManagedIs
<1>2. /\ config.plugins \in SUBSET Blocks(Plugins) /\ config.mcps \in SUBSET Blocks(Servers)
      /\ config.skills \in SUBSET SkillBlocks /\ want.skills \in Sides(Paths)
  BY DEF Planable, Wellformed
<1>3. Set(config.plugins, Managed(config, want), Both(want.plugins)) = config.plugins
  BY <1>1, <1>2, SetSettles
<1>4. Set(config.mcps, ManagedServers(config, want), {}) = config.mcps
  BY <1>1, <1>2, SetSettles
<1>5. PlannedSkills(config, want) = config.skills  BY <1>2, SkillsSettle
<1> QED  BY <1>3, <1>4, <1>5 DEF Planned

LEMMA SingleIsFinite ==
  ASSUME NEW S, Single(S)  PROVE IsFiniteSet(S) /\ ~(Cardinality(S) > 1)
<1>1. IsFiniteSet(S)
  <2>1. CASE S = {}  BY <2>1, FS_EmptySet
  <2>2. CASE S # {}
    <3>1. PICK x \in S : TRUE  BY <2>2
    <3>2. S = {x}  BY <3>1 DEF Single
    <3> QED  BY <3>2, FS_Singleton
  <2> QED  BY <2>1, <2>2
<1> QED  BY <1>1, SingleIs

-----------------------------------------------------------------------------
(* Both plans of a case that is accepted. *)

Accepted == catalog \in Cases /\ ~ Refused

First == Planned(catalog.config, Wanted)

Second == ProjectWanted(First, Wanted, catalog.project)

\* A project's directory is none that the profile speaks of.
LEMMA FirstIsPlanable ==
  ASSUME Accepted
  PROVE  /\ Planable(catalog.config, Wanted) /\ ~ OwnersClash(Wanted.plugins.on)
         /\ IsFiniteSet(catalog.config.skills)
         /\ Both(Wanted.skills) \cap catalog.project.paths = {}
         /\ catalog.project.marked \subseteq catalog.project.paths
         /\ catalog.project.paths \subseteq Paths
         /\ \A path \in catalog.project.paths : Cached[path] = NoPlugin
         /\ \A owner \in Wanted.plugins.on, p \in catalog.inventory.plugins :
              p # owner /\ p \notin Aliases[owner] /\ Family[p] = Family[owner] =>
                \A path \in Paths : Cached[path] = p => path \in Wanted.skills.off
<1>1. /\ catalog.config \in Configurations /\ catalog.profile \in Profiles
      /\ catalog.inventory \in Inventories /\ catalog.project \in Projects
      /\ catalog.project.paths
           \cap (catalog.inventory.skills \cup catalog.inventory.quarantine) = {}
  BY DEF Accepted, Cases
<1>2. ~ ProfileRefused(catalog.profile, catalog.inventory) /\ ~ DesiredRefused(Wanted)
  BY DEF Accepted, Refused
<1>3. /\ Wellformed(Wanted) /\ ~ OwnersClash(Wanted.plugins.on)
      /\ \A path \in Both(Wanted.skills) :
           path \in catalog.inventory.skills \cup catalog.inventory.quarantine
             \/ Cached[path] # NoPlugin
      /\ \A owner \in Wanted.plugins.on, p \in catalog.inventory.plugins :
           p # owner /\ p \notin Aliases[owner] /\ Family[p] = Family[owner] =>
             \A path \in Paths : Cached[path] = p => path \in Wanted.skills.off
  BY <1>1, <1>2, ResolvedIs DEF Wanted
<1>4. /\ catalog.project.marked \subseteq catalog.project.paths
      /\ catalog.project.paths \subseteq Paths
      /\ \A path \in catalog.project.paths : Cached[path] = NoPlugin
  BY <1>1 DEF Projects
<1>5. /\ catalog.config.plugins \in SUBSET Blocks(Plugins)
      /\ catalog.config.mcps \in SUBSET Blocks(Servers)
      /\ catalog.config.skills \in SUBSET SkillBlocks /\ IsFiniteSet(catalog.config.skills)
      /\ IsFiniteSet(catalog.config.plugins) /\ IsFiniteSet(catalog.config.mcps)
  BY <1>1 DEF Configurations
<1>6. Both(Wanted.skills) \cap catalog.project.paths = {}  BY <1>1, <1>3, <1>4
<1> QED  BY <1>2, <1>3, <1>4, <1>5, <1>6 DEF Planable

\* What the first plan manages had one block at most, with a setting it can read.
LEMMA FirstAccepts ==
  ASSUME Accepted
  PROVE  LET config == catalog.config IN
         /\ \A p \in Both(Managed(config, Wanted)) : Single(OfId(config.plugins, p))
         /\ \A s \in Both(ManagedServers(config, Wanted)) : Single(OfId(config.mcps, s))
         /\ ManagedServers(config, Wanted).on \subseteq IdsOf(config.mcps)
         /\ \A path \in Both(Wanted.skills) : Single(OfPath(config.skills, path))
<1> DEFINE config == catalog.config
<1>1. ~ PlanRefused(config, Wanted)  BY DEF Accepted, Refused
<1>2. IsFiniteSet(config.plugins) /\ IsFiniteSet(config.mcps) /\ IsFiniteSet(config.skills)
  BY DEF Accepted, Cases, Configurations
<1>3. /\ \A id : IsFiniteSet(OfId(config.plugins, id)) /\ IsFiniteSet(OfId(config.mcps, id))
      /\ \A path : IsFiniteSet(OfPath(config.skills, path))
  BY <1>2, FS_Subset DEF OfId, OfPath
<1> HIDE DEF config
<1>4. /\ \A p \in Both(Managed(config, Wanted)) : ~ (Cardinality(OfId(config.plugins, p)) > 1)
      /\ \A s \in Both(ManagedServers(config, Wanted)) : ~ (Cardinality(OfId(config.mcps, s)) > 1)
      /\ \A s \in ManagedServers(config, Wanted).on : OfId(config.mcps, s) # {}
      /\ \A path \in Both(Wanted.skills) : ~ (Cardinality(OfPath(config.skills, path)) > 1)
  BY <1>1 DEF PlanRefused
<1>5. ManagedServers(config, Wanted).on \subseteq IdsOf(config.mcps)
  BY <1>4 DEF OfId, IdsOf
<1> QED  BY <1>3, <1>4, <1>5, SingleIs DEF config

LEMMA SecondIs ==
  ASSUME Accepted
  PROVE  /\ Planable(First, Second)
         /\ Second.plugins = [on |-> {}, off |-> {}] /\ Second.mcps = [on |-> {}, off |-> {}]
         /\ ~ Second.mcpsOff /\ ~ Second.pluginsOff /\ Second.families = {}
         /\ Second.skills.off = Equivalent(First, Wanted, catalog.project)
         /\ Second.skills.on = (OwnedPaths(First) \cap catalog.project.paths)
                                 \ Equivalent(First, Wanted, catalog.project)
         /\ Second.skills.off \subseteq catalog.project.marked
         /\ Both(Second.skills) \subseteq catalog.project.paths
         /\ Second.skills.on \cap Quarantined = {}
         /\ \A path \in Both(Second.skills) : Single(OfPath(First.skills, path))
<1> DEFINE off == Equivalent(First, Wanted, catalog.project)
           on == (OwnedPaths(First) \cap catalog.project.paths) \ off
<1>1. /\ off \subseteq catalog.project.marked /\ on \cap off = {}
      /\ on \cup off \subseteq catalog.project.paths
  BY FirstIsPlanable DEF Equivalent
<1>2. on \subseteq Paths /\ off \subseteq Paths  BY <1>1, FirstIsPlanable
<1>3. Second = [NothingWanted EXCEPT !.skills = [on |-> on, off |-> off]]
  BY DEF Second, ProjectWanted
<1> HIDE DEF on, off
<1>4. /\ Second.plugins = [on |-> {}, off |-> {}] /\ Second.mcps = [on |-> {}, off |-> {}]
      /\ ~ Second.mcpsOff /\ ~ Second.pluginsOff /\ Second.families = {}
      /\ Second.skills = [on |-> on, off |-> off]
  BY <1>3 DEF NothingWanted
<1>5. Wellformed(Second)  BY <1>1, <1>2, <1>4 DEF Wellformed, Sides, Clash
<1>6. ~ DesiredRefused(Second) /\ ~ PlanRefused(First, Second)
  BY DEF Accepted, Refused, First, Second
<1>7. Planable(First, Second)
  BY <1>5, <1>6, FirstIsPlanable, PlanIs DEF Planable, First
<1>8. Second.skills.on \cap Quarantined = {}  BY <1>6 DEF DesiredRefused
<1>9. ASSUME NEW path \in Both(Second.skills)  PROVE Single(OfPath(First.skills, path))
  <2>1. ~ (Cardinality(OfPath(First.skills, path)) > 1)  BY <1>6 DEF PlanRefused
  <2>2. First.skills = PlannedSkills(catalog.config, Wanted)  BY DEF First, Planned
  <2>3. /\ catalog.config.skills \in SUBSET SkillBlocks /\ Wanted.skills \in Sides(Paths)
        /\ IsFiniteSet(catalog.config.skills)
    BY FirstIsPlanable DEF Planable, Wellformed
  <2>4. IsFiniteSet(OfPath(First.skills, path))  BY <2>2, <2>3, SkillsStaySingle
  <2> QED  BY <2>1, <2>4, SingleIs
<1> QED  BY <1>1, <1>4, <1>7, <1>8, <1>9 DEF Both, on, off

\* Plugins and servers: the second plan only turns off what is quarantined.
LEMMA AppliedPlugins ==
  ASSUME Accepted
  PROVE  LET config == catalog.config IN
         /\ AppliedConfig.plugins \in SUBSET Blocks(Plugins)
         /\ IdsOf(AppliedConfig.plugins) = IdsOf(First.plugins)
         /\ IdsOf(First.plugins) = IdsOf(config.plugins) \cup Both(Wanted.plugins)
         /\ \A b \in AppliedConfig.plugins :
              /\ b.id \in Managed(config, Wanted).on => b.is = "on"
              /\ b.id \in Managed(config, Wanted).off \cup Quarantined => b.is = "off"
         /\ \A p \in Both(Managed(config, Wanted)) : Single(OfId(AppliedConfig.plugins, p))
<1> DEFINE config == catalog.config
           second == Planned(First, Second)
           states == Managed(config, Wanted)
           states2 == Managed(First, Second)
<1>1. AppliedConfig.plugins = second.plugins
  BY DEF AppliedConfig, Composed, Annotated, First, Second, Planned
<1>2. /\ First.plugins \in SUBSET Blocks(Plugins)
      /\ IdsOf(First.plugins) = IdsOf(config.plugins) \cup Both(Wanted.plugins)
      /\ \A b \in First.plugins : /\ b.id \in states.on => b.is = "on"
                                  /\ b.id \in states.off => b.is = "off"
      /\ \A id : Single(OfId(config.plugins, id)) => Single(OfId(First.plugins, id))
  BY FirstIsPlanable, PlanIs DEF First
<1>3. /\ second.plugins \in SUBSET Blocks(Plugins)
      /\ IdsOf(second.plugins) = IdsOf(First.plugins) \cup Both(Second.plugins)
      /\ \A b \in second.plugins : /\ b.id \in states2.off => b.is = "off"
                                   /\ b.id \notin Both(states2) => b \in First.plugins
      /\ \A id : Single(OfId(First.plugins, id)) => Single(OfId(second.plugins, id))
  BY SecondIs, PlanIs
<1>4. Both(Second.plugins) = {} /\ Second.plugins.on = {} /\ Second.plugins.off = {}
  BY SecondIs DEF Both
<1>5. SetOff(First, Second) = IdsOf(First.plugins) \cap Plugins \cap Quarantined
  BY <1>4, SecondIs DEF SetOff, IdsOf, OwnerOf
<1>6. states2.on = {} /\ states2.off = IdsOf(First.plugins) \cap Quarantined
  <2>1. IdsOf(First.plugins) \subseteq Plugins  BY <1>2 DEF IdsOf, Blocks
  <2>2. states2.on = Second.plugins.on /\ states2.off = Second.plugins.off \cup SetOff(First, Second)
    BY SecondIs, ManagedIs
  <2> QED  BY <1>4, <1>5, <2>1, <2>2
<1>7. states.on \cap Quarantined = {} /\ states.on \cap states.off = {}
  BY FirstIsPlanable, ManagedIs DEF Planable, DesiredRefused, Clash
<1> HIDE DEF second, states, states2
<1>8. ASSUME NEW b \in second.plugins
      PROVE  /\ b.id \in states.on => b.is = "on"
             /\ b.id \in states.off \cup Quarantined => b.is = "off"
  <2>1. b.id \in IdsOf(First.plugins)  BY <1>3, <1>4 DEF IdsOf
  <2>2. CASE b.id \in Quarantined  BY <1>3, <1>6, <1>7, <2>1, <2>2
  <2>3. CASE b.id \notin Quarantined
    <3>1. b \in First.plugins  BY <1>3, <1>6, <2>3 DEF Both
    <3> QED  BY <1>2, <2>3, <3>1
  <2> QED  BY <2>2, <2>3
<1>9. \A p \in Both(states) : Single(OfId(second.plugins, p))
  BY <1>2, <1>3, FirstAccepts DEF states
<1> QED  BY <1>1, <1>2, <1>3, <1>4, <1>8, <1>9 DEF states

LEMMA AppliedServers ==
  ASSUME Accepted
  PROVE  LET config == catalog.config IN
         /\ AppliedConfig.mcps \in SUBSET Blocks(Servers)
         /\ IdsOf(AppliedConfig.mcps) = IdsOf(config.mcps)
         /\ IdsOf(First.mcps) = IdsOf(config.mcps)
         /\ \A b \in AppliedConfig.mcps :
              /\ b.id \in ManagedServers(config, Wanted).on => b.is = "on"
              /\ b.id \in ManagedServers(config, Wanted).off \cup Quarantined => b.is = "off"
         /\ \A s \in Both(ManagedServers(config, Wanted)) : Single(OfId(AppliedConfig.mcps, s))
<1> DEFINE config == catalog.config
           second == Planned(First, Second)
           states == ManagedServers(config, Wanted)
           states2 == ManagedServers(First, Second)
<1>1. AppliedConfig.mcps = second.mcps
  BY DEF AppliedConfig, Composed, Annotated, First, Second, Planned
<1>2. /\ IdsOf(First.mcps) = IdsOf(config.mcps)
      /\ \A b \in First.mcps : /\ b.id \in states.on => b.is = "on"
                               /\ b.id \in states.off => b.is = "off"
      /\ \A id : Single(OfId(config.mcps, id)) => Single(OfId(First.mcps, id))
  BY FirstIsPlanable, PlanIs DEF First
<1>3. /\ second.mcps \in SUBSET Blocks(Servers)
      /\ IdsOf(second.mcps) = IdsOf(First.mcps)
      /\ \A b \in second.mcps : /\ b.id \in states2.off => b.is = "off"
                                /\ b.id \notin Both(states2) => b \in First.mcps
      /\ \A id : Single(OfId(First.mcps, id)) => Single(OfId(second.mcps, id))
  BY SecondIs, PlanIs
<1>4. Second.mcps.on = {} /\ Second.mcps.off = {} /\ ~ Second.mcpsOff  BY SecondIs
<1>5. ServersOff(First, Second) = IdsOf(First.mcps) \cap Quarantined
  BY <1>4 DEF ServersOff
<1>6. states2.on = {} /\ states2.off = IdsOf(First.mcps) \cap Quarantined
  BY <1>4, <1>5, SecondIs, ManagedIs
<1>7. states.on \cap Quarantined = {} /\ states.on \cap states.off = {}
  BY FirstIsPlanable, ManagedIs DEF Planable, DesiredRefused, Clash
<1> HIDE DEF second, states, states2
<1>8. ASSUME NEW b \in second.mcps
      PROVE  /\ b.id \in states.on => b.is = "on"
             /\ b.id \in states.off \cup Quarantined => b.is = "off"
  <2>1. b.id \in IdsOf(First.mcps)  BY <1>3 DEF IdsOf
  <2>2. CASE b.id \in Quarantined  BY <1>3, <1>6, <1>7, <2>1, <2>2
  <2>3. CASE b.id \notin Quarantined
    <3>1. b \in First.mcps  BY <1>3, <1>6, <2>3 DEF Both
    <3> QED  BY <1>2, <2>3, <3>1
  <2> QED  BY <2>2, <2>3
<1>9. \A s \in Both(states) : Single(OfId(second.mcps, s))
  BY <1>2, <1>3, FirstAccepts DEF states
<1> QED  BY <1>1, <1>2, <1>3, <1>8, <1>9 DEF states

-----------------------------------------------------------------------------
(* Skills. *)

\* A block that the composition adds.
Mine(path) == [Added(path) EXCEPT !.owned = TRUE]

LEMMA MineIs ==
  ASSUME NEW path \in Paths
  PROVE  /\ Mine(path) \in SkillBlocks /\ Mine(path).path = path
         /\ Mine(path).is = "off" /\ Mine(path).owned /\ ~ Mine(path).detour
<1>1. Added(path) \in SkillBlocks  BY DEF Added, SkillBlocks, Settings
<1>2. Added(path).path = path /\ Added(path).is = "off" /\ ~ Added(path).detour
  BY DEF Added
<1> QED  BY <1>1, <1>2 DEF Mine, SkillBlocks

\* The blocks of skills after the first plan, and after both.
LEMMA FirstSkills ==
  ASSUME Accepted
  PROVE  /\ First.skills \in SUBSET SkillBlocks
         /\ \A b \in First.skills :
              \/ SkillOff(catalog.config, Wanted, b) /\ b.is = "off"
              \/ /\ ~ SkillOff(catalog.config, Wanted, b) /\ b \in catalog.config.skills
                 /\ b.path \notin Wanted.skills.on
         /\ \A path \in Wanted.skills.off : \E b \in First.skills : b.path = path
         /\ \A path : Single(OfPath(catalog.config.skills, path)) => Single(OfPath(First.skills, path))
<1> DEFINE config == catalog.config
<1>1. config.skills \in SUBSET SkillBlocks /\ Wanted.skills \in Sides(Paths)
  BY FirstIsPlanable DEF Planable, Wellformed
<1>2. First.skills = PlannedSkills(config, Wanted)  BY DEF First, Planned
<1>3. \A b \in SkillBlocks : /\ Off(b) \in SkillBlocks /\ Off(b).path = b.path
                             /\ Off(b).is = "off" /\ Off(b).detour = b.detour
  BY DEF Off, SkillBlocks, Settings
<1>4. \A b \in SkillBlocks : SkillOff(config, Wanted, Off(b)) <=> SkillOff(config, Wanted, b)
  BY <1>3 DEF SkillOff, BlockQuarantined
<1> HIDE DEF config
<1>5. ASSUME NEW b \in First.skills
      PROVE  \/ SkillOff(config, Wanted, b) /\ b.is = "off"
             \/ /\ ~ SkillOff(config, Wanted, b) /\ b \in config.skills
                /\ b.path \notin Wanted.skills.on
  <2>1. CASE \E c \in config.skills : SkillOff(config, Wanted, c) /\ b = Off(c)
    BY <1>1, <1>3, <1>4, <2>1
  <2>2. CASE b.path \in Lacking(config, Wanted) /\ b = Added(b.path)
    BY <2>2 DEF Lacking, Added, SkillOff
  <2> QED  BY <1>1, <1>2, <2>1, <2>2, SkillsAre
<1>6. ASSUME NEW path \in Wanted.skills.off  PROVE \E b \in First.skills : b.path = path
  <2>1. CASE path \in Lacking(config, Wanted)
    <3>1. Added(path) \in First.skills  BY <1>1, <1>2, <2>1, SkillsAre
    <3> QED  BY <3>1 DEF Added
  <2>2. CASE path \notin Lacking(config, Wanted)
    <3>1. PICK c \in config.skills : c.path = path  BY <2>2 DEF Lacking, OfPath
    <3>2. SkillOff(config, Wanted, c)  BY <3>1 DEF SkillOff
    <3>3. Off(c) \in First.skills  BY <1>1, <1>2, <3>2, SkillsAre
    <3> QED  BY <1>1, <1>3, <3>1, <3>3
  <2> QED  BY <2>1, <2>2
<1>7. \A path : Single(OfPath(config.skills, path)) => Single(OfPath(First.skills, path))
  BY <1>1, <1>2, SkillsStaySingle
<1>8. First.skills \in SUBSET SkillBlocks  BY <1>1, <1>2, SkillsAre
<1> QED  BY <1>5, <1>6, <1>7, <1>8 DEF config

LEMMA AppliedSkills ==
  ASSUME Accepted
  PROVE  /\ AppliedConfig.skills \in SUBSET SkillBlocks
         /\ \A b \in AppliedConfig.skills :
              \/ \E c \in First.skills : SkillOff(First, Second, c) /\ b = Off(c)
              \/ /\ ~ SkillOff(First, Second, b) /\ b \in First.skills
                 /\ b.path \notin Second.skills.on
              \/ b.path \in Lacking(First, Second) /\ b = Mine(b.path)
         /\ \A c \in First.skills : SkillOff(First, Second, c) => Off(c) \in AppliedConfig.skills
         /\ \A c \in First.skills :
              ~ SkillOff(First, Second, c) /\ c.path \notin Second.skills.on =>
                c \in AppliedConfig.skills
         /\ \A path \in Lacking(First, Second) : Mine(path) \in AppliedConfig.skills
<1> DEFINE planned == PlannedSkills(First, Second)
           mark(b) == IF b.path \in Second.skills.off /\ OfPath(First.skills, b.path) = {}
                      THEN [b EXCEPT !.owned = TRUE] ELSE b
<1>1. AppliedConfig.skills = {mark(b) : b \in planned}
  BY DEF AppliedConfig, Composed, Annotated, First, Second, Planned
<1>2. First.skills \in SUBSET SkillBlocks /\ Second.skills \in Sides(Paths)
  BY FirstSkills, SecondIs DEF Planable, Wellformed
<1>3. \A path \in Lacking(First, Second) :
        /\ Added(path) \in planned /\ Added(path).path = path
        /\ mark(Added(path)) = Mine(path)
        /\ Mine(path) \in SkillBlocks /\ Mine(path).path = path
  <2>1. \A path \in Lacking(First, Second) : Added(path) \in planned  BY <1>2, SkillsAre
  <2>2. \A path \in Lacking(First, Second) :
          /\ path \in Paths /\ Added(path).path = path /\ path \in Second.skills.off
          /\ OfPath(First.skills, path) = {}
    BY <1>2 DEF Lacking, Sides, Added
  <2>3. \A path \in Paths : Mine(path) \in SkillBlocks /\ Mine(path).path = path
    BY MineIs
  <2>4. \A path : [Added(path) EXCEPT !.owned = TRUE] = Mine(path)  BY DEF Mine
  <2>5. ASSUME NEW path \in Lacking(First, Second)
        PROVE  mark(Added(path)) = [Added(path) EXCEPT !.owned = TRUE]
    <3>1. Added(path).path = path /\ path \in Second.skills.off /\ OfPath(First.skills, path) = {}
      BY <2>2
    <3> QED  BY <3>1
  <2> HIDE DEF mark, planned
  <2> QED  BY <2>1, <2>2, <2>3, <2>4, <2>5
<1>4. \A c \in First.skills : Off(c).path = c.path /\ Off(c) \in SkillBlocks
  BY <1>2 DEF Off, SkillBlocks, Settings
<1>5. \A c \in First.skills : mark(c) = c /\ mark(Off(c)) = Off(c)
  BY <1>4 DEF OfPath
<1> HIDE DEF planned, mark
<1>6. \A b \in planned :
        \/ \E c \in First.skills : SkillOff(First, Second, c) /\ b = Off(c)
        \/ /\ ~ SkillOff(First, Second, b) /\ b \in First.skills
           /\ b.path \notin Second.skills.on
        \/ b.path \in Lacking(First, Second) /\ b = Added(b.path)
  BY <1>2, SkillsAre DEF planned
<1>7. \A c \in First.skills :
        /\ SkillOff(First, Second, c) => Off(c) \in planned
        /\ ~ SkillOff(First, Second, c) /\ c.path \notin Second.skills.on => c \in planned
  BY <1>2, SkillsAre DEF planned
<1>8. ASSUME NEW b \in AppliedConfig.skills
      PROVE  \/ \E c \in First.skills : SkillOff(First, Second, c) /\ b = Off(c)
             \/ /\ ~ SkillOff(First, Second, b) /\ b \in First.skills
                /\ b.path \notin Second.skills.on
             \/ b.path \in Lacking(First, Second) /\ b = Mine(b.path)
  <2>1. PICK d \in planned : b = mark(d)  BY <1>1
  <2>2. CASE \E c \in First.skills : SkillOff(First, Second, c) /\ d = Off(c)
    BY <1>5, <2>1, <2>2
  <2>3. CASE /\ ~ SkillOff(First, Second, d) /\ d \in First.skills
             /\ d.path \notin Second.skills.on
    BY <1>5, <2>1, <2>3
  <2>4. CASE d.path \in Lacking(First, Second) /\ d = Added(d.path)
    BY <1>3, <2>1, <2>4
  <2> QED  BY <1>6, <2>2, <2>3, <2>4
<1>9. AppliedConfig.skills \in SUBSET SkillBlocks  BY <1>2, <1>3, <1>4, <1>8
<1>10. \A c \in First.skills : SkillOff(First, Second, c) => Off(c) \in AppliedConfig.skills
  BY <1>1, <1>5, <1>7
<1>11. \A c \in First.skills : ~ SkillOff(First, Second, c) /\ c.path \notin Second.skills.on =>
                                c \in AppliedConfig.skills
  BY <1>1, <1>5, <1>7
<1>12. \A path \in Lacking(First, Second) : Mine(path) \in AppliedConfig.skills
  BY <1>1, <1>3
<1> QED  BY <1>8, <1>9, <1>10, <1>11, <1>12

LEMMA AppliedIsConfig ==
  ASSUME Accepted
  PROVE  AppliedConfig = [plugins |-> AppliedConfig.plugins, mcps |-> AppliedConfig.mcps,
                          skills |-> AppliedConfig.skills]
<1> DEFINE planned == Planned(First, Second)
           marked == {IF b.path \in Second.skills.off /\ OfPath(First.skills, b.path) = {}
                      THEN [b EXCEPT !.owned = TRUE] ELSE b : b \in planned.skills}
<1>1. AppliedConfig = [planned EXCEPT !.skills = marked]
  BY DEF AppliedConfig, Composed, Annotated, First, Second
<1>2. planned = [plugins |-> planned.plugins, mcps |-> planned.mcps, skills |-> planned.skills]
  BY DEF Planned
<1> HIDE DEF planned, marked
<1> QED  BY <1>1, <1>2

LEMMA AppliedStaySingle ==
  ASSUME Accepted, NEW path, Single(OfPath(First.skills, path))
  PROVE  Single(OfPath(AppliedConfig.skills, path))
<1> SUFFICES ASSUME NEW x \in AppliedConfig.skills, NEW y \in AppliedConfig.skills,
                    x.path = path, y.path = path
             PROVE  x = y
  BY DEF Single, OfPath
<1>1. \A c, d \in First.skills : (c.path = path /\ d.path = path) => c = d
  BY DEF Single, OfPath
<1>2. \A c \in First.skills : Off(c).path = c.path
  BY FirstSkills DEF Off, SkillBlocks
<1>3. CASE path \in Lacking(First, Second)
  <2>1. \A c \in First.skills : c.path # path  BY <1>3 DEF Lacking, OfPath
  <2>2. x = Mine(path) /\ y = Mine(path)  BY <1>2, <2>1, AppliedSkills
  <2> QED  BY <2>2
<1>4. CASE path \notin Lacking(First, Second)
  <2> DEFINE from(b, c) == c.path = path /\ b = IF SkillOff(First, Second, c) THEN Off(c) ELSE c
  <2>1. ASSUME NEW b \in AppliedConfig.skills, b.path = path
        PROVE  \E c \in First.skills : from(b, c)
    <3>1. CASE \E c \in First.skills : SkillOff(First, Second, c) /\ b = Off(c)
      BY <1>2, <2>1, <3>1
    <3>2. CASE ~ SkillOff(First, Second, b) /\ b \in First.skills  BY <2>1, <3>2
    <3> QED  BY <1>4, <2>1, <3>1, <3>2, AppliedSkills
  <2>2. (\E c \in First.skills : from(x, c)) /\ (\E c \in First.skills : from(y, c))
    BY <2>1
  <2> QED  BY <1>1, <2>2
<1> QED  BY <1>3, <1>4

\* What the profile wants off is off, what it wants on has no other block; what the
\* composition wants off has a block.
LEMMA AppliedAsWanted ==
  ASSUME Accepted
  PROVE  /\ \A b \in AppliedConfig.skills :
              /\ BlockQuarantined(b) => b.is = "off"
              /\ SkillOff(catalog.config, Wanted, b) => b.is = "off"
              /\ SkillOff(catalog.config, Wanted, b) \/ b.path \notin Wanted.skills.on
         /\ \A path \in Wanted.skills.off \cup Second.skills.off :
              \E b \in AppliedConfig.skills : b.path = path
<1>1. \A c \in First.skills : /\ Off(c).path = c.path /\ Off(c).is = "off"
                              /\ Off(c).detour = c.detour
  BY FirstSkills DEF Off, SkillBlocks
<1>2. \A b : BlockQuarantined(b) => SkillOff(First, Second, b)
  BY DEF SkillOff
<1>3. \A c \in First.skills : SkillOff(catalog.config, Wanted, Off(c))
                                <=> SkillOff(catalog.config, Wanted, c)
  BY <1>1 DEF SkillOff, BlockQuarantined
<1>4. \A path \in Lacking(First, Second) :
        /\ path \notin Wanted.skills.on
        /\ Mine(path).path = path /\ Mine(path).is = "off"
  <2>1. \A path \in Lacking(First, Second) : path \in catalog.project.paths
    BY SecondIs DEF Lacking, Both
  <2> QED  BY <2>1, FirstIsPlanable, MineIs DEF Both
<1>5. ASSUME NEW b \in AppliedConfig.skills
      PROVE  /\ BlockQuarantined(b) => b.is = "off"
             /\ SkillOff(catalog.config, Wanted, b) => b.is = "off"
             /\ SkillOff(catalog.config, Wanted, b) \/ b.path \notin Wanted.skills.on
  <2>1. CASE \E c \in First.skills : SkillOff(First, Second, c) /\ b = Off(c)
    BY <1>1, <1>3, <2>1, FirstSkills
  <2>2. CASE ~ SkillOff(First, Second, b) /\ b \in First.skills
    BY <1>2, <2>2, FirstSkills
  <2>3. CASE b.path \in Lacking(First, Second) /\ b = Mine(b.path)  BY <1>4, <2>3
  <2> QED  BY <2>1, <2>2, <2>3, AppliedSkills
<1>6. \A path \in Wanted.skills.off : path \notin Second.skills.on
  BY FirstIsPlanable, SecondIs DEF Both
<1>7. \A path \in Second.skills.off : path \notin Second.skills.on
  BY SecondIs
<1>8. \A path \in Second.skills.off : (\E c \in First.skills : c.path = path)
                                        \/ path \in Lacking(First, Second)
  BY DEF Lacking, OfPath
<1>9. ASSUME NEW path \in Wanted.skills.off \cup Second.skills.off
      PROVE  \E b \in AppliedConfig.skills : b.path = path
  <2>1. CASE \E c \in First.skills : c.path = path
    BY <1>1, <1>6, <1>7, <2>1, AppliedSkills
  <2>2. CASE path \in Lacking(First, Second)
    BY <1>4, <2>2, AppliedSkills
  <2> QED  BY <1>8, <2>1, <2>2, FirstSkills
<1> QED  BY <1>5, <1>9

\* The profile's plan, once more.
LEMMA FirstPlanSettles ==
  ASSUME Accepted
  PROVE  ~ PlanRefused(AppliedConfig, Wanted) /\ Planned(AppliedConfig, Wanted) = AppliedConfig
<1> DEFINE config == catalog.config
           plugins == Managed(AppliedConfig, Wanted)
           servers == ManagedServers(AppliedConfig, Wanted)
<1>1. Planable(config, Wanted) /\ Planable(AppliedConfig, Wanted)
  BY FirstIsPlanable, AppliedPlugins, AppliedServers, AppliedSkills DEF Planable
<1>2. /\ plugins.on = Managed(config, Wanted).on /\ plugins.off = Managed(config, Wanted).off
      /\ servers.on = ManagedServers(config, Wanted).on
      /\ servers.off = ManagedServers(config, Wanted).off
      /\ \A b : SkillOff(AppliedConfig, Wanted, b) <=> SkillOff(config, Wanted, b)
  BY <1>1, SameIsManaged, AppliedPlugins, AppliedServers
<1> HIDE DEF plugins, servers
<1>3. \A b \in AppliedConfig.plugins : /\ b.id \in plugins.on => b.is = "on"
                                       /\ b.id \in plugins.off => b.is = "off"
  BY <1>2, AppliedPlugins
<1>4. \A b \in AppliedConfig.mcps : /\ b.id \in servers.on => b.is = "on"
                                    /\ b.id \in servers.off => b.is = "off"
  BY <1>2, AppliedServers
<1>5. \A b \in AppliedConfig.skills : /\ SkillOff(AppliedConfig, Wanted, b) => b.is = "off"
                                      /\ Stays(AppliedConfig, Wanted, b)
  BY <1>2, AppliedAsWanted DEF Stays
<1>6. Lacking(AppliedConfig, Wanted) = {}
  BY AppliedAsWanted DEF Lacking, OfPath
<1>7. Both(Wanted.plugins) \subseteq IdsOf(AppliedConfig.plugins)  BY AppliedPlugins
<1>8. Planned(AppliedConfig, Wanted) = AppliedConfig
  BY <1>1, <1>3, <1>4, <1>5, <1>6, <1>7, PlanLeaves, AppliedIsConfig DEF plugins, servers
<1>9. \A p \in Both(plugins) : ~ (Cardinality(OfId(AppliedConfig.plugins, p)) > 1)
  BY <1>2, AppliedPlugins, SingleIsFinite DEF Both
<1>10. \A s \in Both(servers) : ~ (Cardinality(OfId(AppliedConfig.mcps, s)) > 1)
  BY <1>2, AppliedServers, SingleIsFinite DEF Both
<1>11. \A s \in servers.on : OfId(AppliedConfig.mcps, s) # {}
  BY <1>2, AppliedServers, FirstAccepts DEF IdsOf, OfId
<1>12. \A path \in Both(Wanted.skills) : ~ (Cardinality(OfPath(AppliedConfig.skills, path)) > 1)
  <2>1. \A path \in Both(Wanted.skills) : Single(OfPath(AppliedConfig.skills, path))
    BY FirstAccepts, FirstSkills, AppliedStaySingle
  <2> QED  BY <2>1, SingleIsFinite
<1>13. ~ PlanRefused(AppliedConfig, Wanted)
  BY <1>3, <1>4, <1>5, <1>9, <1>10, <1>11, <1>12 DEF PlanRefused, plugins, servers, Both
<1> QED  BY <1>8, <1>13

-----------------------------------------------------------------------------
(* The composition's plan, once more. *)

Third == ProjectWanted(AppliedConfig, Wanted, catalog.project)

\* Who owns a block is not changed by the plan, nor is what equals a global skill.
LEMMA AppliedOwns ==
  ASSUME Accepted
  PROVE  /\ OwnedPaths(AppliedConfig) \subseteq OwnedPaths(First) \cup Second.skills.off
         /\ Equivalent(AppliedConfig, Wanted, catalog.project) = Second.skills.off
<1> DEFINE again == Equivalent(AppliedConfig, Wanted, catalog.project)
           wanted(path) == \E s \in Wanted.skills.on : <<path, s>> \in catalog.project.equal
<1>1. \A c \in First.skills : Off(c).path = c.path /\ Off(c).owned = c.owned
  BY FirstSkills DEF Off, SkillBlocks
<1>2. \A path \in Lacking(First, Second) :
        /\ path \in Second.skills.off /\ OfPath(First.skills, path) = {}
        /\ Mine(path).path = path /\ Mine(path).owned
  <2>1. \A path \in Lacking(First, Second) : path \in Paths
    BY SecondIs DEF Lacking, Planable, Wellformed, Sides
  <2> QED  BY <2>1, MineIs DEF Lacking
<1>3. \A b \in AppliedConfig.skills :
        b.owned => \/ \E c \in First.skills : c.owned /\ c.path = b.path
                   \/ b.path \in Lacking(First, Second)
  BY <1>1, AppliedSkills
<1>4. OwnedPaths(AppliedConfig) \subseteq OwnedPaths(First) \cup Lacking(First, Second)
  BY <1>3 DEF OwnedPaths
<1>5. \A path : path \in Second.skills.off
                  <=> /\ path \in catalog.project.marked /\ wanted(path)
                      /\ OfPath(First.skills, path) # {} => path \in OwnedPaths(First)
  BY SecondIs DEF Equivalent
<1>6. \A path : path \in again
                  <=> /\ path \in catalog.project.marked /\ wanted(path)
                      /\ OfPath(AppliedConfig.skills, path) # {} =>
                           path \in OwnedPaths(AppliedConfig)
  BY DEF Equivalent
<1> HIDE DEF again, wanted
<1>7. ASSUME NEW path \in Second.skills.off  PROVE path \in OwnedPaths(AppliedConfig)
  <2>1. CASE path \in Lacking(First, Second)
    <3>1. Mine(path) \in AppliedConfig.skills  BY <2>1, AppliedSkills
    <3> QED  BY <1>2, <2>1, <3>1 DEF OwnedPaths
  <2>2. CASE path \notin Lacking(First, Second)
    <3>1. path \in OwnedPaths(First)  BY <1>5, <2>2 DEF Lacking
    <3>2. PICK c \in First.skills : c.owned /\ c.path = path  BY <3>1 DEF OwnedPaths
    <3>3. SkillOff(First, Second, c)  BY <3>2 DEF SkillOff
    <3>4. Off(c) \in AppliedConfig.skills  BY <3>3, AppliedSkills
    <3> QED  BY <1>1, <3>2, <3>4 DEF OwnedPaths
  <2> QED  BY <2>1, <2>2
<1>8. Second.skills.off \subseteq again  BY <1>5, <1>6, <1>7
<1>9. ASSUME NEW path \in again, OfPath(First.skills, path) # {}, path \notin OwnedPaths(First)
      PROVE  FALSE
  <2>1. PICK c \in First.skills : c.path = path  BY <1>9 DEF OfPath
  <2>2. path \notin Second.skills.on  BY <1>9, SecondIs
  <2>3. \E b \in AppliedConfig.skills : b.path = path
    BY <1>1, <2>1, <2>2, AppliedSkills
  <2>4. path \in OwnedPaths(AppliedConfig)  BY <1>6, <1>9, <2>3 DEF OfPath
  <2> QED  BY <1>2, <1>4, <1>9, <2>4
<1>10. again \subseteq Second.skills.off  BY <1>5, <1>6, <1>9
<1> QED  BY <1>2, <1>4, <1>8, <1>10 DEF again

LEMMA ThirdIs ==
  ASSUME Accepted
  PROVE  /\ Planable(AppliedConfig, Third)
         /\ Third.plugins = [on |-> {}, off |-> {}] /\ Third.mcps = [on |-> {}, off |-> {}]
         /\ ~ Third.mcpsOff /\ ~ Third.pluginsOff /\ Third.families = {}
         /\ Third.skills.off = Second.skills.off
         /\ Third.skills.on \subseteq Second.skills.on
<1> DEFINE off == Equivalent(AppliedConfig, Wanted, catalog.project)
           on == (OwnedPaths(AppliedConfig) \cap catalog.project.paths) \ off
<1>1. off = Second.skills.off /\ on \cap off = {} /\ on \subseteq Second.skills.on
  BY AppliedOwns, SecondIs
<1>2. on \subseteq Paths /\ off \subseteq Paths
  BY <1>1, SecondIs DEF Planable, Wellformed, Sides
<1>3. Third = [NothingWanted EXCEPT !.skills = [on |-> on, off |-> off]]
  BY DEF Third, ProjectWanted
<1> HIDE DEF on, off
<1>4. /\ Third.plugins = [on |-> {}, off |-> {}] /\ Third.mcps = [on |-> {}, off |-> {}]
      /\ ~ Third.mcpsOff /\ ~ Third.pluginsOff /\ Third.families = {}
      /\ Third.skills = [on |-> on, off |-> off]
  BY <1>3 DEF NothingWanted
<1>5. Wellformed(Third)  BY <1>1, <1>2, <1>4 DEF Wellformed, Sides, Clash
<1>6. \A path \in on : path \notin Quarantined /\ Cached[path] = NoPlugin
  BY <1>1, SecondIs, FirstIsPlanable DEF Both
<1>7. ~ DesiredRefused(Third)  BY <1>4, <1>6 DEF DesiredRefused, OwnersClash
<1>8. Planable(AppliedConfig, Third)
  BY <1>5, <1>7, AppliedPlugins, AppliedServers, AppliedSkills DEF Planable
<1> QED  BY <1>1, <1>4, <1>8

\* A plan that wants nothing of plugins and servers turns off the quarantined.
LEMMA NothingManaged ==
  ASSUME NEW config, NEW want, Planable(config, want),
         want.plugins = [on |-> {}, off |-> {}], want.mcps = [on |-> {}, off |-> {}],
         ~ want.mcpsOff, ~ want.pluginsOff, want.families = {}
  PROVE  /\ Managed(config, want).on = {}
         /\ Managed(config, want).off = IdsOf(config.plugins) \cap Quarantined
         /\ ManagedServers(config, want).on = {}
         /\ ManagedServers(config, want).off = IdsOf(config.mcps) \cap Quarantined
         /\ \A path : ParentOff(config, want, path)
                        <=> /\ Cached[path] # NoPlugin
                            /\ Cached[path] \in IdsOf(config.plugins) \cap Quarantined
<1>1. Both(want.plugins) = {} /\ want.plugins.on = {} /\ want.plugins.off = {}
  BY DEF Both
<1>2. SetOff(config, want) = IdsOf(config.plugins) \cap Plugins \cap Quarantined
  BY <1>1 DEF SetOff, IdsOf, OwnerOf
<1>3. IdsOf(config.plugins) \subseteq Plugins  BY DEF Planable, IdsOf, Blocks
<1>4. ServersOff(config, want) = IdsOf(config.mcps) \cap Quarantined  BY DEF ServersOff
<1>5. /\ Managed(config, want).on = {}
      /\ Managed(config, want).off = IdsOf(config.plugins) \cap Quarantined
      /\ ManagedServers(config, want).on = {}
      /\ ManagedServers(config, want).off = IdsOf(config.mcps) \cap Quarantined
  BY <1>1, <1>2, <1>3, <1>4, ManagedIs
<1>6. \A family : OwnerOf(want, family) = {}  BY <1>1 DEF OwnerOf
<1>7. \A path : ParentOff(config, want, path)
                  <=> /\ Cached[path] # NoPlugin
                      /\ Cached[path] \in IdsOf(config.plugins) \cap Quarantined
  BY <1>5, <1>6 DEF ParentOff
<1> QED  BY <1>5, <1>7

LEMMA SecondPlanSettles ==
  ASSUME Accepted
  PROVE  /\ ~ PlanRefused(AppliedConfig, Third) /\ ~ DesiredRefused(Third)
         /\ Planned(AppliedConfig, Third) = AppliedConfig
<1> DEFINE plugins == Managed(AppliedConfig, Third)
           servers == ManagedServers(AppliedConfig, Third)
<1>1. /\ plugins.on = {} /\ plugins.off = IdsOf(AppliedConfig.plugins) \cap Quarantined
      /\ servers.on = {} /\ servers.off = IdsOf(AppliedConfig.mcps) \cap Quarantined
  BY ThirdIs, NothingManaged
<1>2. \A path : ParentOff(AppliedConfig, Third, path) <=> ParentOff(First, Second, path)
  BY ThirdIs, SecondIs, AppliedPlugins, NothingManaged
<1> HIDE DEF plugins, servers
<1>3. \A b \in AppliedConfig.plugins : /\ b.id \in plugins.on => b.is = "on"
                                       /\ b.id \in plugins.off => b.is = "off"
  BY <1>1, AppliedPlugins
<1>4. \A b \in AppliedConfig.mcps : /\ b.id \in servers.on => b.is = "on"
                                    /\ b.id \in servers.off => b.is = "off"
  BY <1>1, AppliedServers
<1>5. \A c \in First.skills : /\ Off(c).path = c.path /\ Off(c).is = "off"
                              /\ Off(c).detour = c.detour
  BY FirstSkills DEF Off, SkillBlocks
<1>6. \A path \in Lacking(First, Second) : /\ path \in Second.skills.off
                                           /\ Mine(path).path = path /\ Mine(path).is = "off"
  <2>1. \A path \in Lacking(First, Second) : path \in Paths
    BY SecondIs DEF Lacking, Planable, Wellformed, Sides
  <2> QED  BY <2>1, MineIs DEF Lacking
<1>7. \A path : ParentOff(First, Second, path) => path \notin Both(Second.skills)
  BY SecondIs, FirstIsPlanable DEF ParentOff
<1>8. Second.skills.on \cap Second.skills.off = {}  BY SecondIs
<1>9. ASSUME NEW b \in AppliedConfig.skills, SkillOff(AppliedConfig, Third, b)
      PROVE  b.is = "off"
  <2>1. SkillOff(First, Second, b)
    BY <1>2, <1>7, <1>9, ThirdIs DEF SkillOff
  <2> QED  BY <1>5, <1>6, <2>1, AppliedSkills
<1>10. ASSUME NEW b \in AppliedConfig.skills, b.path \in Third.skills.on
       PROVE  SkillOff(AppliedConfig, Third, b)
  <2>1. b.path \in Second.skills.on /\ b.path \notin Second.skills.off
    BY <1>8, <1>10, ThirdIs
  <2>2. PICK c \in First.skills : SkillOff(First, Second, c) /\ b = Off(c)
    BY <1>6, <2>1, AppliedSkills
  <2>3. BlockQuarantined(c)  BY <1>5, <2>1, <2>2 DEF SkillOff, Both
  <2>4. BlockQuarantined(b)  BY <1>5, <2>2, <2>3 DEF BlockQuarantined
  <2> QED  BY <2>4 DEF SkillOff
<1>11. Lacking(AppliedConfig, Third) = {}
  BY ThirdIs, AppliedAsWanted DEF Lacking, OfPath
<1>12. Both(Third.plugins) \subseteq IdsOf(AppliedConfig.plugins)
  BY ThirdIs DEF Both
<1>13. Planned(AppliedConfig, Third) = AppliedConfig
  BY <1>3, <1>4, <1>9, <1>10, <1>11, <1>12, ThirdIs, PlanLeaves, AppliedIsConfig
     DEF plugins, servers, Stays
<1>14. \A p \in Both(plugins) : ~ (Cardinality(OfId(AppliedConfig.plugins, p)) > 1)
  <2>1. \A p \in Both(plugins) : p \in Both(Managed(catalog.config, Wanted))
    <3> SUFFICES ASSUME NEW p \in IdsOf(AppliedConfig.plugins) \cap Quarantined
                 PROVE  p \in Both(Managed(catalog.config, Wanted))
      BY <1>1 DEF Both
    <3>1. p \in Plugins  BY AppliedPlugins DEF IdsOf, Blocks
    <3>2. p \in IdsOf(catalog.config.plugins) \cup Both(Wanted.plugins)
      BY AppliedPlugins
    <3>3. p \in IdsOf(catalog.config.plugins) => p \in SetOff(catalog.config, Wanted)
      BY <3>1 DEF SetOff, IdsOf
    <3> QED  BY <3>2, <3>3, FirstIsPlanable, ManagedIs DEF Both
  <2> QED  BY <2>1, AppliedPlugins, SingleIsFinite
<1>15. \A s \in Both(servers) : ~ (Cardinality(OfId(AppliedConfig.mcps, s)) > 1)
  <2>1. \A s \in Both(servers) : s \in Both(ManagedServers(catalog.config, Wanted))
    BY <1>1, AppliedServers, FirstIsPlanable, ManagedIs DEF Both, ServersOff
  <2> QED  BY <2>1, AppliedServers, SingleIsFinite
<1>16. \A path \in Both(Third.skills) : ~ (Cardinality(OfPath(AppliedConfig.skills, path)) > 1)
  <2>1. \A path \in Both(Third.skills) : path \in Both(Second.skills)
    BY ThirdIs DEF Both
  <2> QED  BY <2>1, SecondIs, AppliedStaySingle, SingleIsFinite
<1>17. ~ PlanRefused(AppliedConfig, Third)
  BY <1>1, <1>3, <1>4, <1>9, <1>14, <1>15, <1>16 DEF PlanRefused, plugins, servers, Both
<1>18. ~ DesiredRefused(Third)  BY ThirdIs DEF Planable
<1> QED  BY <1>13, <1>17, <1>18

-----------------------------------------------------------------------------
(* What is applied. *)

LEMMA AppliedSettles ==
  ASSUME Accepted
  PROVE  Composed(AppliedConfig, Wanted, catalog.project) = AppliedConfig
<1> DEFINE marked == {IF b.path \in Third.skills.off /\ OfPath(AppliedConfig.skills, b.path) = {}
                      THEN [b EXCEPT !.owned = TRUE] ELSE b : b \in AppliedConfig.skills}
<1>1. Composed(AppliedConfig, Wanted, catalog.project) =
        Annotated(AppliedConfig, AppliedConfig, Third.skills.off)
  BY SecondPlanSettles DEF Composed, Third
<1>2. Annotated(AppliedConfig, AppliedConfig, Third.skills.off) =
        [AppliedConfig EXCEPT !.skills = marked]
  BY DEF Annotated
<1>3. marked = AppliedConfig.skills
  <2>1. \A b \in AppliedConfig.skills : OfPath(AppliedConfig.skills, b.path) # {}
    BY DEF OfPath
  <2> QED  BY <2>1
<1> HIDE DEF marked
<1>4. [AppliedConfig EXCEPT !.skills = AppliedConfig.skills] = AppliedConfig
  BY AppliedIsConfig
<1> QED  BY <1>1, <1>2, <1>3, <1>4

LEMMA AppliedLeavesOneCopy ==
  ASSUME Accepted
  PROVE  /\ \A owner \in Wanted.plugins.on, p \in Plugins :
              (p # owner /\ Family[p] = Family[owner]) =>
                /\ \A b \in OfId(AppliedConfig.plugins, p) : ~Runs(b)
                /\ (p \in catalog.inventory.plugins \ Aliases[owner]) =>
                     \A path \in Paths :
                       Cached[path] = p =>
                         \E b \in OfPath(AppliedConfig.skills, path) : ~Runs(b)
         /\ \A b \in AppliedConfig.skills :
              (b.owned /\ ~Runs(b) /\ ~b.detour /\ b.path \in catalog.project.paths) =>
                \E s \in Paths :
                  /\ <<b.path, s>> \in catalog.project.equal
                  /\ \A c \in OfPath(AppliedConfig.skills, s) :
                       Runs(c) \/ BlockQuarantined(c)
<1> DEFINE config == catalog.config
<1>1. ASSUME NEW owner \in Wanted.plugins.on, NEW p \in Plugins,
             p # owner, Family[p] = Family[owner],
             NEW b \in AppliedConfig.plugins, b.id = p
      PROVE  b.is = "off"
  <2>1. owner \in OwnerOf(Wanted, Family[p]) \ {p}  BY <1>1 DEF OwnerOf
  <2>2. p \notin Wanted.plugins.on
    BY <1>1, FirstIsPlanable DEF OwnersClash, Planable, Wellformed, Sides
  <2>3. p \in IdsOf(config.plugins) \cup Both(Wanted.plugins)
    BY <1>1, AppliedPlugins DEF IdsOf
  <2>4. p \in Wanted.plugins.off \cup SetOff(config, Wanted)
    BY <1>1, <2>1, <2>2, <2>3 DEF SetOff, IdsOf, Both
  <2>5. p \in Managed(config, Wanted).off
    BY <2>4, FirstIsPlanable, ManagedIs
  <2> QED  BY <1>1, <2>5, AppliedPlugins
<1>2. ASSUME NEW path \in Wanted.skills.off
      PROVE  \E b \in AppliedConfig.skills : b.path = path /\ b.is = "off"
  <2>1. PICK b \in AppliedConfig.skills : b.path = path  BY <1>2, AppliedAsWanted
  <2>2. SkillOff(config, Wanted, b)  BY <2>1 DEF SkillOff
  <2> QED  BY <2>1, <2>2, AppliedAsWanted
<1>3. ASSUME NEW b \in AppliedConfig.skills, b.owned, b.is = "off", ~ b.detour,
             b.path \in catalog.project.paths
      PROVE  \E s \in Wanted.skills.on : <<b.path, s>> \in catalog.project.equal
  <2>1. b.path \notin Quarantined \/ b.path \in Second.skills.off
    <3>1. b.path \in OwnedPaths(First) \cup Second.skills.off
      BY <1>3, AppliedOwns DEF OwnedPaths
    <3> QED  BY <1>3, <3>1, SecondIs
  <2>2. b.path \in Second.skills.off
    <3> SUFFICES ASSUME b.path \notin Second.skills.off  PROVE FALSE
      OBVIOUS
    <3>1. b.path \in Second.skills.on
      BY <1>3, AppliedOwns, SecondIs DEF OwnedPaths
    <3>2. \A c \in First.skills : Off(c).path = c.path /\ Off(c).detour = c.detour
      BY FirstSkills DEF Off, SkillBlocks
    <3>3. \A path \in Lacking(First, Second) : path \in Paths /\ path \in Second.skills.off
      BY SecondIs DEF Lacking, Planable, Wellformed, Sides
    <3>4. PICK c \in First.skills : SkillOff(First, Second, c) /\ b = Off(c)
      BY <3>1, <3>3, AppliedSkills
    <3>5. BlockQuarantined(c)  BY <3>1, <3>2, <3>4 DEF SkillOff, Both
    <3> QED  BY <1>3, <2>1, <3>2, <3>4, <3>5 DEF BlockQuarantined
  <2> QED  BY <2>2, SecondIs DEF Equivalent
<1>4. ASSUME NEW s \in Wanted.skills.on, NEW c \in AppliedConfig.skills, c.path = s
      PROVE  BlockQuarantined(c)
  <2>1. SkillOff(config, Wanted, c)  BY <1>4, AppliedAsWanted
  <2>2. s \notin Wanted.skills.off /\ s \in Both(Wanted.skills)
    BY FirstIsPlanable DEF Planable, Wellformed, Clash, Both
  <2> QED  BY <1>4, <2>1, <2>2 DEF SkillOff
<1>5. Wanted.skills.on \subseteq Paths
  BY FirstIsPlanable DEF Planable, Wellformed, Sides
<1>6. ASSUME NEW owner \in Wanted.plugins.on, NEW p \in Plugins,
             p # owner, Family[p] = Family[owner]
      PROVE  /\ \A b \in OfId(AppliedConfig.plugins, p) : ~Runs(b)
             /\ (p \in catalog.inventory.plugins \ Aliases[owner]) =>
                  \A path \in Paths :
                    Cached[path] = p =>
                      \E b \in OfPath(AppliedConfig.skills, path) : ~Runs(b)
  <2>1. \A b \in OfId(AppliedConfig.plugins, p) : ~Runs(b)
    BY <1>1, <1>6 DEF OfId, Runs
  <2>2. ASSUME p \in catalog.inventory.plugins \ Aliases[owner],
               NEW path \in Paths, Cached[path] = p
        PROVE  \E b \in OfPath(AppliedConfig.skills, path) : ~Runs(b)
    <3>1. path \in Wanted.skills.off  BY <1>6, <2>2, FirstIsPlanable
    <3> QED  BY <1>2, <3>1 DEF OfPath, Runs
  <2> QED  BY <2>1, <2>2
<1>7. ASSUME NEW b \in AppliedConfig.skills,
             b.owned /\ ~Runs(b) /\ ~b.detour /\ b.path \in catalog.project.paths
      PROVE  \E s \in Paths :
               /\ <<b.path, s>> \in catalog.project.equal
               /\ \A c \in OfPath(AppliedConfig.skills, s) : Runs(c) \/ BlockQuarantined(c)
  <2>1. PICK s \in Wanted.skills.on : <<b.path, s>> \in catalog.project.equal
    BY <1>3, <1>7 DEF Runs
  <2> QED  BY <1>4, <1>5, <2>1 DEF OfPath
<1> QED  BY <1>6, <1>7

LEMMA AppliedIsQuarantined ==
  ASSUME Accepted
  PROVE  /\ \A b \in AppliedConfig.plugins \cup AppliedConfig.mcps :
              b.id \in Quarantined => ~Runs(b)
         /\ \A b \in AppliedConfig.skills :
              b.detour \/ b.path \in Quarantined => ~Runs(b)
  BY AppliedPlugins, AppliedServers, AppliedAsWanted DEF BlockQuarantined, Runs

\* Nothing is applied yet, and what may be applied is well formed; or it has been.
CatalogInv == (~ catalog.applied => catalog \in Cases) /\ RunsAsWanted

LEMMA CatalogStarts == CatalogInit => CatalogInv
<1> SUFFICES ASSUME NEW case \in Cases, catalog = [case EXCEPT !.applied = FALSE]
             PROVE  CatalogInv
  BY CasesOfCatalog DEF CatalogInit
<1>1. case = [config |-> case.config, profile |-> case.profile, inventory |-> case.inventory,
              project |-> case.project, applied |-> case.applied]
  BY DEF Cases
<1>2. catalog = [config |-> case.config, profile |-> case.profile, inventory |-> case.inventory,
                 project |-> case.project, applied |-> FALSE]
  BY <1>1
<1>3. catalog \in Cases  BY <1>2 DEF Cases
<1>4. ~ catalog.applied  BY <1>2
<1> QED  BY <1>3, <1>4 DEF CatalogInv, RunsAsWanted, QuarantineOff, OneCopyRuns, PlanSettles

LEMMA ApplyKeeps == CatalogInv /\ ApplyProfile => CatalogInv'
<1> SUFFICES ASSUME CatalogInv, ApplyProfile  PROVE CatalogInv'
  OBVIOUS
<1>1. Accepted  BY DEF CatalogInv, ApplyProfile, Accepted
<1>2. catalog = [config |-> catalog.config, profile |-> catalog.profile,
                 inventory |-> catalog.inventory, project |-> catalog.project,
                 applied |-> catalog.applied]
  BY <1>1 DEF Accepted, Cases
<1>3. catalog' = [catalog EXCEPT !.config = AppliedConfig, !.applied = TRUE]
  BY DEF ApplyProfile
<1>4. /\ catalog'.config = AppliedConfig /\ catalog'.applied
      /\ catalog'.profile = catalog.profile /\ catalog'.inventory = catalog.inventory
      /\ catalog'.project = catalog.project
  <2> DEFINE before == catalog.config
             after == AppliedConfig
  <2> HIDE DEF before, after
  <2>1. catalog' = [catalog EXCEPT !.config = after, !.applied = TRUE]  BY <1>3 DEF after
  <2>2. /\ catalog'.config = after /\ catalog'.applied
        /\ catalog'.profile = catalog.profile /\ catalog'.inventory = catalog.inventory
        /\ catalog'.project = catalog.project
    BY <1>2, <2>1
  <2> QED  BY <2>2 DEF after
<1>5. Wanted' = Wanted  BY <1>4 DEF Wanted
<1>6. QuarantineOff'  BY <1>1, <1>4, AppliedIsQuarantined DEF QuarantineOff, Runs
<1>7. OneCopyRuns'
  BY <1>1, <1>4, <1>5, AppliedLeavesOneCopy DEF OneCopyRuns, Runs, BlockQuarantined
<1>8. Planned(AppliedConfig, Wanted) = AppliedConfig  BY <1>1, FirstPlanSettles
<1>9. AppliedConfig' = AppliedConfig
  <2>1. AppliedConfig' = Composed(Planned(AppliedConfig, Wanted), Wanted, catalog.project)
    BY <1>4, <1>5 DEF AppliedConfig
  <2> QED  BY <1>1, <1>8, <2>1, AppliedSettles
<1>10. ~ Refused'
  <2>1. Refused' =
          \/ ProfileRefused(catalog.profile, catalog.inventory)
          \/ DesiredRefused(Wanted)
          \/ PlanRefused(AppliedConfig, Wanted)
          \/ catalog.project.marked \cap Quarantined # {}
          \/ DesiredRefused(Third)
          \/ PlanRefused(AppliedConfig, Third)
    BY <1>4, <1>5, <1>8 DEF Refused, Third
  <2>2. /\ ~ ProfileRefused(catalog.profile, catalog.inventory)
        /\ ~ DesiredRefused(Wanted)
        /\ catalog.project.marked \cap Quarantined = {}
    BY <1>1 DEF Accepted, Refused
  <2> QED  BY <1>1, <2>1, <2>2, FirstPlanSettles, SecondPlanSettles
<1>11. PlanSettles'  BY <1>4, <1>9, <1>10 DEF PlanSettles
<1> QED  BY <1>4, <1>6, <1>7, <1>11 DEF CatalogInv, RunsAsWanted

\* What `krn catalog apply' leaves runs as the profile wants it: nothing that is
\* quarantined, one copy of a skill, and applying the profile again changes nothing.
THEOREM ProfilesRunAsWanted == CatalogSpec => []RunsAsWanted
<1>1. CatalogInv /\ [ApplyProfile]_catalog => CatalogInv'
  <2> SUFFICES ASSUME CatalogInv, UNCHANGED catalog  PROVE CatalogInv'
    BY ApplyKeeps
  <2>1. Wanted' = Wanted  BY DEF Wanted
  <2>2. AppliedConfig' = AppliedConfig  BY <2>1 DEF AppliedConfig
  <2>3. Refused' <=> Refused  BY <2>1 DEF Refused
  <2>4. QuarantineOff' <=> QuarantineOff  BY DEF QuarantineOff, Runs
  <2>5. OneCopyRuns' <=> OneCopyRuns  BY <2>1 DEF OneCopyRuns, Runs, BlockQuarantined
  <2>6. PlanSettles' <=> PlanSettles  BY <2>2, <2>3 DEF PlanSettles
  <2> QED  BY <2>4, <2>5, <2>6 DEF CatalogInv, RunsAsWanted
<1>2. CatalogInv => RunsAsWanted  BY DEF CatalogInv
<1> QED  BY CatalogStarts, <1>1, <1>2, PTL DEF CatalogSpec

-----------------------------------------------------------------------------
(* The lessons. A history is a line that may fork: a commit's parent is older  *)
(* than the commit. LineOf is a recursive function of it; that it exists, and  *)
(* what it is, follows from the sets of commits that are closed under parents. *)

Pasts ==
  {cs \in Seq([parent : Nat, changes : SUBSET (Tests \cup GateFiles),
               files : SUBSET GateFiles, green : SUBSET Lessons]) :
     \A c \in 1 .. Len(cs) : cs[c].parent \in 0 .. c - 1}

\* LineOf, of any history.
Line(cs) ==
  CHOOSE line : line = [c \in 0 .. Len(cs) |->
                          IF c = 0 THEN {} ELSE {c} \cup line[cs[c].parent]]

LEMMA LineOfIs == LineOf = Line(commits)
BY DEF LineOf, Line

LEMMA LineExists ==
  ASSUME NEW cs \in Pasts
  PROVE  Line(cs) = [c \in 0 .. Len(cs) |->
                       IF c = 0 THEN {} ELSE {c} \cup Line(cs)[cs[c].parent]]
<1> DEFINE all == 1 .. Len(cs)
           closed(S) == \A d \in S : cs[d].parent # 0 => cs[d].parent \in S
           older(c) == {d \in all : \A S \in SUBSET all : (c \in S /\ closed(S)) => d \in S}
           line == [c \in 0 .. Len(cs) |-> IF c = 0 THEN {} ELSE older(c)]
<1>1. \A c \in all : cs[c].parent \in 0 .. c - 1 /\ c \in Nat /\ c # 0 /\ Len(cs) \in Nat
  BY DEF Pasts
<1>2. ASSUME NEW c \in all
      PROVE  older(c) = {c} \cup (IF cs[c].parent = 0 THEN {} ELSE older(cs[c].parent))
  <2> DEFINE p == cs[c].parent
             rest == IF p = 0 THEN {} ELSE older(p)
  <2>1. p \in 0 .. c - 1 /\ (p # 0 => p \in all)  BY <1>1
  <2>2. c \in older(c)  OBVIOUS
  <2>3. ASSUME NEW d \in rest  PROVE d \in older(c)
    <3>1. p # 0 /\ d \in older(p)  BY <2>3
    <3>2. ASSUME NEW S \in SUBSET all, c \in S, closed(S)  PROVE d \in S
      <4>1. p \in S  BY <3>1, <3>2
      <4> QED  BY <3>1, <3>2, <4>1
    <3> QED  BY <3>1, <3>2
  <2>4. ASSUME NEW d \in older(c)  PROVE d \in {c} \cup rest
    <3> DEFINE S == {c} \cup rest
    <3>1. S \in SUBSET all  OBVIOUS
    <3>2. ASSUME NEW e \in S, cs[e].parent # 0  PROVE cs[e].parent \in S
      <4>1. CASE e = c
        <5>1. p \in older(p)  BY <2>1, <3>2, <4>1
        <5> QED  BY <3>2, <4>1, <5>1
      <4>2. CASE e # c
        <5>1. p # 0 /\ e \in older(p)  BY <4>2
        <5>2. cs[e].parent \in all  BY <1>1, <3>1, <3>2
        <5>3. ASSUME NEW T \in SUBSET all, p \in T, closed(T)  PROVE cs[e].parent \in T
          BY <3>2, <5>1, <5>3
        <5> QED  BY <5>1, <5>2, <5>3
      <4> QED  BY <4>1, <4>2
    <3>3. c \in S /\ closed(S)  BY <3>2
    <3> QED  BY <3>1, <3>3
  <2> QED  BY <2>2, <2>3, <2>4
<1> HIDE DEF older
<1>3. line = [c \in 0 .. Len(cs) |-> IF c = 0 THEN {} ELSE {c} \cup line[cs[c].parent]]
  <2>1. ASSUME NEW c \in 0 .. Len(cs), c # 0
        PROVE  older(c) = {c} \cup line[cs[c].parent]
    <3>1. c \in all /\ cs[c].parent \in 0 .. Len(cs)  BY <1>1, <2>1
    <3>2. line[cs[c].parent] = IF cs[c].parent = 0 THEN {} ELSE older(cs[c].parent)
      BY <3>1
    <3> QED  BY <1>2, <3>1, <3>2
  <2> QED  BY <2>1
<1> HIDE DEF line
<1> QED  BY <1>3 DEF Line

\* A set of naturals has a least member.
LEMMA LeastOne ==
  ASSUME NEW T \in SUBSET Nat, T # {}
  PROVE  \E x \in T : \A y \in T : x <= y
<1> DEFINE Less == OpToRel(<, Nat)
<1>1. \A x, y \in Nat : y < x => <<y, x>> \in Less  BY DEF OpToRel
<1>2. IsWellFoundedOn(Less, Nat)  BY NatLessThanWellFounded
<1> HIDE DEF Less
<1>3. PICK x \in T : \A y \in T : ~(<<y, x>> \in Less)
  BY <1>2, WFMin
<1>4. ASSUME NEW y \in T  PROVE x <= y
  <2>1. x \in Nat /\ y \in Nat  OBVIOUS
  <2>2. ~(y < x)  BY <1>1, <1>3, <2>1
  <2> QED  BY <2>1, <2>2
<1> QED  BY <1>4

\* A bounded one has a greatest.
LEMMA GreatestIs ==
  ASSUME NEW n \in Nat, NEW S \in SUBSET (0 .. n), S # {}
  PROVE  Max(S) \in S /\ \A y \in S : y <= Max(S)
<1> DEFINE T == {m \in 0 .. n : n - m \in S}
<1>1. \A m : m \in T <=> m \in Nat /\ m <= n /\ n - m \in S  OBVIOUS
<1>2. \A y \in S : y \in Nat /\ y <= n  OBVIOUS
<1> HIDE DEF T
<1>3. \A y \in S : n - y \in T  BY <1>1, <1>2
<1>4. T \in SUBSET Nat /\ T # {}  BY <1>1, <1>3
<1>5. PICK t \in T : \A m \in T : t <= m  BY <1>4, LeastOne
<1>6. n - t \in S /\ t \in Nat  BY <1>1, <1>5
<1>7. ASSUME NEW y \in S  PROVE y <= n - t
  <2>1. t <= n - y /\ y \in Nat  BY <1>2, <1>3, <1>5
  <2> QED  BY <1>6, <2>1
<1>8. Max(S) = n - t
  <2>1. \A y \in S : n - t >= y  BY <1>2, <1>6, <1>7
  <2>2. \A x \in S : (\A y \in S : x >= y) => x = n - t
    BY <1>2, <1>6, <1>7
  <2> QED  BY <1>6, <2>1, <2>2 DEF Max
<1> QED  BY <1>6, <1>7, <1>8

\* What LineOf is: older commits only, with each commit its line, and of two of
\* a line the older one in the line of the other.
LEMMA LineUnfolds ==
  ASSUME NEW cs \in Pasts
  PROVE  /\ Line(cs)[0] = {}
         /\ \A c \in 1 .. Len(cs) : Line(cs)[c] = {c} \cup Line(cs)[cs[c].parent]
         /\ Len(cs) \in Nat
         /\ \A c \in 1 .. Len(cs) : cs[c].parent \in 0 .. c - 1 /\ c \in Nat
<1>1. Len(cs) \in Nat /\ \A c \in 1 .. Len(cs) : cs[c].parent \in 0 .. c - 1 /\ c \in Nat
  BY DEF Pasts
<1> QED  BY <1>1, LineExists

LEMMA LineIsOlder ==
  ASSUME NEW cs \in Pasts, NEW c \in 0 .. Len(cs)
  PROVE  Line(cs)[c] \in SUBSET (1 .. c)
<1> DEFINE bad == {n \in 0 .. Len(cs) : ~(Line(cs)[n] \in SUBSET (1 .. n))}
<1>1. Len(cs) \in Nat  BY LineUnfolds
<1>2. SUFFICES ASSUME bad # {}  PROVE FALSE  OBVIOUS
<1>3. PICK n \in bad : \A m \in bad : n <= m
  <2>1. bad \in SUBSET Nat  BY <1>1
  <2> HIDE DEF bad
  <2> QED  BY <1>2, <2>1, LeastOne
<1>4. n # 0  BY LineUnfolds
<1>5. n \in 1 .. Len(cs)  BY <1>1, <1>4
<1>6. cs[n].parent \in 0 .. n - 1 /\ Line(cs)[n] = {n} \cup Line(cs)[cs[n].parent]
  BY <1>5, LineUnfolds
<1>7. cs[n].parent \notin bad /\ cs[n].parent \in 0 .. Len(cs)  BY <1>1, <1>3, <1>5, <1>6
<1>8. Line(cs)[cs[n].parent] \in SUBSET (1 .. cs[n].parent)  BY <1>7
<1>9. Line(cs)[n] \in SUBSET (1 .. n)  BY <1>5, <1>6, <1>8
<1> QED  BY <1>9

LEMMA LineHasLines ==
  ASSUME NEW cs \in Pasts, NEW c \in 0 .. Len(cs), NEW a \in Line(cs)[c]
  PROVE  /\ a \in 1 .. Len(cs) /\ a \in 1 .. c /\ a \in Line(cs)[a]
         /\ Line(cs)[a] \subseteq Line(cs)[c]
<1> DEFINE bad == {n \in 0 .. Len(cs) :
                     \E d \in Line(cs)[n] : ~(Line(cs)[d] \subseteq Line(cs)[n])}
<1>1. Len(cs) \in Nat  BY LineUnfolds
<1>2. a \in 1 .. Len(cs) /\ a \in 1 .. c /\ a \in Line(cs)[a]
  BY <1>1, LineIsOlder, LineUnfolds
<1>3. SUFFICES ASSUME bad # {}  PROVE FALSE  BY <1>2
<1>4. PICK n \in bad : \A m \in bad : n <= m
  <2>1. bad \in SUBSET Nat  BY <1>1
  <2> HIDE DEF bad
  <2> QED  BY <1>3, <2>1, LeastOne
<1>5. n \in 1 .. Len(cs)  BY <1>1, LineUnfolds
<1>6. cs[n].parent \in 0 .. n - 1 /\ Line(cs)[n] = {n} \cup Line(cs)[cs[n].parent]
  BY <1>5, LineUnfolds
<1>7. cs[n].parent \notin bad /\ cs[n].parent \in 0 .. Len(cs)  BY <1>1, <1>4, <1>5, <1>6
<1> QED  BY <1>6, <1>7

LEMMA LineIsLine ==
  ASSUME NEW cs \in Pasts, NEW c \in 0 .. Len(cs),
         NEW a \in Line(cs)[c], NEW b \in Line(cs)[c]
  PROVE  /\ a \in Nat /\ b \in Nat
         /\ a <= b => a \in Line(cs)[b]
         /\ a \in Line(cs)[b] \/ b \in Line(cs)[a]
<1> DEFINE fits(n) == \A d, e \in Line(cs)[n] : d <= e => d \in Line(cs)[e]
           bad == {n \in 0 .. Len(cs) : ~ fits(n)}
<1>1. Len(cs) \in Nat /\ a \in Nat /\ b \in Nat  BY LineUnfolds, LineHasLines
<1>2. SUFFICES ASSUME bad # {}  PROVE FALSE
  <2>1. a <= b \/ b <= a  BY <1>1
  <2>2. fits(c) => /\ a <= b => a \in Line(cs)[b]
                   /\ b <= a => b \in Line(cs)[a]
    OBVIOUS
  <2>3. bad = {} => fits(c)  OBVIOUS
  <2> QED  BY <1>1, <2>1, <2>2, <2>3
<1>3. PICK n \in bad : \A m \in bad : n <= m
  <2>1. bad \in SUBSET Nat  BY <1>1
  <2> HIDE DEF bad
  <2> QED  BY <1>2, <2>1, LeastOne
<1>4. n \in 1 .. Len(cs)  BY <1>1, LineUnfolds
<1> DEFINE p == cs[n].parent
<1>5. p \in 0 .. n - 1 /\ Line(cs)[n] = {n} \cup Line(cs)[p]
  BY <1>4, LineUnfolds
<1>6. p \notin bad /\ p \in 0 .. Len(cs)  BY <1>1, <1>3, <1>4, <1>5
<1>7. Line(cs)[p] \in SUBSET (1 .. p)  BY <1>6, LineIsOlder
<1>8. ASSUME NEW d \in Line(cs)[n], NEW e \in Line(cs)[n], d <= e
      PROVE  d \in Line(cs)[e]
  <2>1. CASE e = n  BY <2>1
  <2>2. CASE e # n
    <3>1. e \in Line(cs)[p] /\ e \in 1 .. p  BY <1>5, <1>7, <2>2
    <3>2. d # n  BY <1>4, <1>5, <1>8, <3>1
    <3> QED  BY <1>5, <1>6, <1>8, <3>1, <3>2
  <2> QED  BY <2>1, <2>2
<1> QED  BY <1>8

\* A commit more changes no line.
LEMMA LinesStay ==
  ASSUME NEW cs \in Pasts, NEW r, Append(cs, r) \in Pasts, NEW c \in 0 .. Len(cs)
  PROVE  Line(Append(cs, r))[c] = Line(cs)[c]
<1> DEFINE more == Append(cs, r)
           bad == {n \in 0 .. Len(cs) : Line(more)[n] # Line(cs)[n]}
<1>1. Len(cs) \in Nat  BY LineUnfolds
<1>2. /\ Len(more) = Len(cs) + 1
      /\ \A n \in 1 .. Len(cs) : more[n] = cs[n]
  BY DEF Pasts
<1> HIDE DEF more
<1>3. more \in Pasts  BY DEF more
<1>4. SUFFICES ASSUME bad # {}  PROVE FALSE  BY DEF more
<1>5. PICK n \in bad : \A m \in bad : n <= m
  <2>1. bad \in SUBSET Nat  BY <1>1
  <2> HIDE DEF bad
  <2> QED  BY <1>4, <2>1, LeastOne
<1>6. n \in 1 .. Len(cs) /\ n \in 1 .. Len(more)
  <2>1. n # 0  BY <1>3, LineUnfolds
  <2> QED  BY <1>1, <1>2, <2>1
<1> DEFINE p == cs[n].parent
<1>7. /\ p \in 0 .. n - 1
      /\ Line(cs)[n] = {n} \cup Line(cs)[p]
      /\ Line(more)[n] = {n} \cup Line(more)[p]
  BY <1>2, <1>3, <1>6, LineUnfolds
<1>8. p \notin bad /\ p \in 0 .. Len(cs)  BY <1>1, <1>5, <1>6, <1>7
<1> QED  BY <1>7, <1>8

-----------------------------------------------------------------------------
(* The re-anchoring. What it is about to write into a row was, when it looked,  *)
(* the newest change of the row's test or gates on the line of HEAD, and the    *)
(* row's case passes there.  HEAD may move on, but no commit is made twice: the *)
(* HEAD it started from comes back for nobody.                                  *)

Rows == [anchor : 1 .. Len(commits), seen : SUBSET (1 .. Len(commits))]

AnewTypes ==
  /\ DOMAIN anew = {"at", "todo", "row", "to", "done", "head", "was", "gates", "text"}
  /\ anew.at \in {"idle", "read", "next", "candidate"}
  /\ anew.todo \subseteq Lessons /\ anew.done \subseteq Lessons
  /\ anew.row \subseteq Lessons
  /\ anew.to \in 0 .. Len(commits) /\ anew.head \in 0 .. Len(commits)
  /\ anew.at # "idle" => /\ anew.was \in [Lessons -> Rows]
                         /\ anew.gates \in [Lessons -> SUBSET GateFiles]
                         /\ \A l \in Lessons : anew.gates[l] \subseteq GatesOf[l]
  /\ anew.at \in {"next", "candidate"} => anew.text \in [Lessons -> Rows]
  /\ anew.at \in {"idle", "read"} => anew.done = {}
  /\ anew.at # "candidate" => anew.row = {}
  /\ anew.at = "candidate" => \E l \in Lessons \ (anew.todo \cup anew.done) : anew.row = {l}
  /\ anew.todo \cap anew.done = {}

LessonTypeOK ==
  /\ commits \in Pasts
  /\ tip \in 1 .. Len(commits)
  /\ recent \in [Lessons -> Rows]
  /\ clean \in BOOLEAN
  /\ AnewTypes

\* What resolves at HEAD is what the run took for the gates, while HEAD stays.
GatesOfHead ==
  (anew.at # "idle" /\ tip = anew.head) =>
    \A l \in Lessons : anew.gates[l] = ResolvedGates(l, tip)

\* A commit fit to be the proof of a row of the text.
Settled(l, to) ==
  /\ to \in 1 .. Len(commits)
  /\ commits[to].changes \cap ({TestOf[l]} \cup GatesOf[l]) # {}
  /\ (tip = anew.head /\ to \in LineOf[tip]) =>
       Changes(to, {TestOf[l]} \cup ResolvedGates(l, tip)) = {}
  /\ \A o \in anew.text[l].seen :
       o \in LineOf[tip] => (o \in LineOf[to] \/ to \in LineOf[o])

RowsSettled ==
  /\ \A l \in anew.done : Settled(l, anew.text[l].anchor) /\ Green(l, anew.text[l].anchor)
  /\ \A l \in anew.row : Settled(l, anew.to)

LessonInv == LessonTypeOK /\ GatesOfHead /\ RowsSettled

LEMMA LessonStarts == LessonInit => LessonInv
<1> SUFFICES ASSUME LessonInit  PROVE LessonInv
  OBVIOUS
<1>1. PICK files \in SUBSET GateFiles, green \in SUBSET Lessons :
        commits = <<[parent |-> 0, changes |-> {}, files |-> files, green |-> green]>>
  BY DEF LessonInit
<1>2. commits \in Pasts /\ Len(commits) = 1
  <2> DEFINE none == {}
             r == [parent |-> 0, changes |-> none, files |-> files, green |-> green]
  <2>1. none \in SUBSET (Tests \cup GateFiles)  OBVIOUS
  <2>2. commits = <<r>>  BY <1>1
  <2> HIDE DEF none
  <2>3. r \in [parent : Nat, changes : SUBSET (Tests \cup GateFiles),
               files : SUBSET GateFiles, green : SUBSET Lessons] /\ r.parent = 0
    BY <2>1
  <2> HIDE DEF r
  <2> QED  BY <2>2, <2>3 DEF Pasts
<1>3. recent \in [Lessons -> Rows] /\ tip = 1 /\ clean = TRUE
  BY <1>2 DEF LessonInit, Rows
<1>4. AnewTypes
  BY <1>2 DEF LessonInit, Idle, AnewTypes
<1> QED  BY <1>2, <1>3, <1>4 DEF LessonInit, Idle, LessonInv, LessonTypeOK, GatesOfHead, RowsSettled

\* HEAD moves to a commit that was not there, whose line is, but for the commit
\* itself, of the line HEAD had.
LEMMA NewHeadKeeps ==
  ASSUME LessonInv, NEW parent \in 1 .. Len(commits), parent \in LineOf[tip],
         NEW changes \in SUBSET (Tests \cup GateFiles), NEW files \in SUBSET GateFiles,
         NEW green \in SUBSET Lessons, Commit(parent, changes, files, green)
  PROVE  LessonInv'
<1> DEFINE r == [parent |-> parent, changes |-> changes, files |-> files, green |-> green]
           n == Len(commits)
<1>1. /\ commits \in Pasts /\ n \in Nat /\ tip \in 1 .. n
      /\ recent \in [Lessons -> Rows] /\ AnewTypes
  BY LineUnfolds DEF LessonInv, LessonTypeOK
<1>2. /\ commits' = Append(commits, r) /\ tip' = Len(commits') /\ clean' = TRUE
      /\ recent' = recent /\ anew' = anew
  BY DEF Commit
<1>3. /\ Len(commits') = n + 1 /\ tip' = n + 1
      /\ \A c \in 1 .. n : commits'[c] = commits[c]
      /\ commits'[n + 1] = r
  BY <1>1, <1>2 DEF Pasts
<1>4. commits' \in Pasts
  <2>1. r \in [parent : Nat, changes : SUBSET (Tests \cup GateFiles),
               files : SUBSET GateFiles, green : SUBSET Lessons] /\ r.parent = parent
    BY <1>1
  <2> HIDE DEF r
  <2>2. commits' \in Seq([parent : Nat, changes : SUBSET (Tests \cup GateFiles),
                          files : SUBSET GateFiles, green : SUBSET Lessons])
    BY <1>1, <1>2, <2>1 DEF Pasts
  <2>3. ASSUME NEW c \in 1 .. n + 1  PROVE commits'[c].parent \in 0 .. c - 1
    <3>1. CASE c \in 1 .. n  BY <1>1, <1>3, <3>1 DEF Pasts
    <3>2. CASE c = n + 1  BY <1>1, <1>3, <2>1, <3>2
    <3> QED  BY <1>1, <3>1, <3>2
  <2> QED  BY <1>3, <2>2, <2>3 DEF Pasts
<1> HIDE DEF r
<1>5. \A c \in 0 .. n : LineOf'[c] = LineOf[c]
  <2>1. LineOf' = Line(commits') /\ LineOf = Line(commits)  BY DEF LineOf, Line
  <2> QED  BY <1>1, <1>2, <1>4, <2>1, LinesStay
<1>6. \A o \in 1 .. n : o \in LineOf'[tip'] => o \in LineOf[tip]
  <2>1. LineOf' = Line(commits') /\ LineOf = Line(commits)  BY DEF LineOf, Line
  <2>2. commits'[n + 1].parent = parent  BY <1>3 DEF r
  <2>3. LineOf'[tip'] = {n + 1} \cup LineOf'[parent]
    <3>1. \A c \in 1 .. Len(commits') :
            Line(commits')[c] = {c} \cup Line(commits')[commits'[c].parent]
      BY <1>4, LineUnfolds
    <3>2. n + 1 \in 1 .. Len(commits')  BY <1>1, <1>3
    <3> QED  BY <1>3, <2>1, <2>2, <3>1, <3>2
  <2>4. LineOf'[parent] \subseteq LineOf[tip]
    BY <1>1, <1>5, <2>1, LineHasLines
  <2> QED  BY <1>1, <2>3, <2>4
<1>7. Rows \subseteq Rows'
  BY <1>1, <1>3 DEF Rows
<1>8. LessonTypeOK'
  <2>1. AnewTypes'
    <3> USE <1>2 DEF AnewTypes
    <3>1. anew.to \in 0 .. Len(commits') /\ anew.head \in 0 .. Len(commits')
      BY <1>1, <1>3
    <3>2. \A f : f \in [Lessons -> Rows] => f \in [Lessons -> Rows']  BY <1>7
    <3> QED  BY <1>1, <3>1, <3>2
  <2>2. recent' \in [Lessons -> Rows']  BY <1>1, <1>2, <1>7
  <2> QED  BY <1>1, <1>2, <1>3, <1>4, <2>1, <2>2 DEF LessonTypeOK
<1>9. tip' # anew'.head
  BY <1>1, <1>2, <1>3 DEF AnewTypes
<1>10. ASSUME NEW l \in Lessons, NEW to \in 1 .. n, Settled(l, to), anew.text \in [Lessons -> Rows]
       PROVE  Settled(l, to)'
  <2>1. commits'[to] = commits[to] /\ to \in 1 .. Len(commits')  BY <1>1, <1>3
  <2>2. ASSUME NEW o \in anew.text[l].seen, o \in LineOf'[tip']
        PROVE  o \in LineOf'[to] \/ to \in LineOf'[o]
    <3>1. o \in 1 .. n  BY <1>10 DEF Rows
    <3>2. o \in LineOf[tip]  BY <1>6, <2>2, <3>1
    <3>3. o \in LineOf[to] \/ to \in LineOf[o]  BY <1>10, <3>2 DEF Settled
    <3> QED  BY <1>1, <1>5, <3>1, <3>3
  <2> QED  BY <1>2, <1>9, <1>10, <2>1, <2>2 DEF Settled
<1>11. RowsSettled'
  <2>1. ASSUME NEW l \in anew.done
        PROVE  Settled(l, anew.text[l].anchor)' /\ Green(l, anew.text[l].anchor)'
    <3>1. l \in Lessons /\ anew.text \in [Lessons -> Rows]  BY <1>1, <2>1 DEF AnewTypes
    <3>2. anew.text[l].anchor \in 1 .. n  BY <3>1 DEF Rows
    <3>3. Settled(l, anew.text[l].anchor) /\ Green(l, anew.text[l].anchor)
      BY DEF LessonInv, RowsSettled
    <3>4. Settled(l, anew.text[l].anchor)'
      <4> DEFINE to == anew.text[l].anchor
      <4>1. to' = to  BY <1>2
      <4> HIDE DEF to
      <4>2. to \in 1 .. n /\ Settled(l, to)  BY <3>2, <3>3 DEF to
      <4>3. Settled(l, to)'  BY <1>10, <3>1, <4>1, <4>2 DEF Settled
      <4> QED  BY <4>3 DEF to
    <3>5. Green(l, anew.text[l].anchor)'  BY <1>2, <1>3, <3>2, <3>3 DEF Green
    <3> QED  BY <3>4, <3>5
  <2>2. ASSUME NEW l \in anew.row
        PROVE  Settled(l, anew.to)'
    <3>1. l \in Lessons /\ anew.text \in [Lessons -> Rows]  BY <1>1, <2>2 DEF AnewTypes
    <3>2. Settled(l, anew.to)  BY DEF LessonInv, RowsSettled
    <3>3. anew.to \in 1 .. n  BY <3>2 DEF Settled
    <3> QED  BY <1>2, <1>10, <3>1, <3>2, <3>3 DEF Settled
  <2> QED  BY <1>2, <2>1, <2>2 DEF RowsSettled
<1> QED  BY <1>8, <1>9, <1>11 DEF LessonInv, GatesOfHead

LEMMA HistoryKeeps ==
  ASSUME LessonInv, CommitOnTop \/ Amend
  PROVE  LessonInv'
<1>1. /\ commits \in Pasts /\ tip \in 1 .. Len(commits) /\ tip \in 0 .. Len(commits)
      /\ LineOf = Line(commits)
  BY LineUnfolds DEF LessonInv, LessonTypeOK, LineOf, Line
<1>2. LineOf[tip] = {tip} \cup LineOf[commits[tip].parent]
  BY <1>1, LineUnfolds
<1>3. CASE CommitOnTop
  BY <1>1, <1>2, <1>3, NewHeadKeeps DEF CommitOnTop
<1>4. CASE Amend
  <2> DEFINE p == commits[tip].parent
  <2>1. p \in 1 .. Len(commits)  BY <1>1, <1>4, LineUnfolds DEF Amend
  <2>2. p \in LineOf[p]  BY <1>1, <2>1, LineUnfolds
  <2> QED  BY <1>2, <1>4, <2>1, <2>2, NewHeadKeeps DEF Amend
<1> QED  BY <1>3, <1>4

LEMMA LinesHere ==
  ASSUME LessonInv
  PROVE  /\ LineOf = Line(commits) /\ commits \in Pasts /\ Len(commits) \in Nat
         /\ tip \in 1 .. Len(commits) /\ tip \in 0 .. Len(commits)
         /\ recent \in [Lessons -> Rows] /\ AnewTypes
BY LineUnfolds DEF LessonInv, LessonTypeOK, LineOf, Line

LEMMA SettledStays ==
  ASSUME NEW l \in Lessons, NEW to, Settled(l, to), UNCHANGED <<commits, tip>>,
         anew'.head = anew.head, anew'.text[l].seen = anew.text[l].seen
  PROVE  Settled(l, to)'
<1>1. LineOf' = LineOf  BY DEF LineOf
<1>2. ResolvedGates(l, tip)' = ResolvedGates(l, tip)  BY DEF ResolvedGates
<1>3. \A since, paths : Changes(since, paths)' = Changes(since, paths)
  BY <1>1 DEF Changes
<1> QED  BY <1>1, <1>2, <1>3 DEF Settled

\* The newest change is on the line of HEAD, and everything older of that line
\* on its own.
LEMMA NewestSettles ==
  ASSUME LessonInv, NEW l \in Lessons, anew.at = "next", Newest(l) # 0
  PROVE  Settled(l, Newest(l))
<1> DEFINE was == anew.was[l].anchor
           paths == {TestOf[l]} \cup anew.gates[l]
           found == Changes(was, paths)
           to == Newest(l)
<1>1. /\ LineOf = Line(commits) /\ commits \in Pasts /\ Len(commits) \in Nat
      /\ tip \in 1 .. Len(commits) /\ tip \in 0 .. Len(commits)
  BY LinesHere
<1>2. /\ was \in 1 .. Len(commits) /\ was \in 0 .. Len(commits)
      /\ anew.gates[l] \subseteq GatesOf[l]
      /\ anew.text[l].seen \in SUBSET (1 .. Len(commits))
  BY <1>1, LinesHere DEF AnewTypes, Rows
<1>3. \A c : c \in found <=> /\ c \in LineOf[tip] /\ c \notin LineOf[was]
                             /\ commits[c].changes \cap paths # {}
  BY DEF Changes
<1>4. \A c \in LineOf[tip] : c \in 1 .. Len(commits) /\ c \in LineOf[c]
  BY <1>1, LineHasLines
<1>5. /\ to \in found
      /\ \A c \in found : c <= to
  <2> HIDE DEF found
  <2> DEFINE all == {0} \cup found
  <2>1. all \in SUBSET (0 .. Len(commits)) /\ all # {}
    BY <1>1, <1>3, <1>4
  <2>2. to = Max(all)  BY DEF Newest, found
  <2> HIDE DEF all
  <2>3. to \in all /\ \A c \in all : c <= to  BY <1>1, <2>1, <2>2, GreatestIs
  <2> QED  BY <2>3 DEF all
<1> HIDE DEF to, found
<1>6. to \in 1 .. Len(commits) /\ to \in LineOf[tip] /\ to \notin LineOf[was]
  BY <1>3, <1>4, <1>5
<1>7. commits[to].changes \cap ({TestOf[l]} \cup GatesOf[l]) # {}
  BY <1>2, <1>3, <1>5
<1>8. \A o \in LineOf[tip] : /\ o \in LineOf[to] \/ to \in LineOf[o]
                             /\ o <= to => o \in LineOf[to]
                             /\ to <= o => to \in LineOf[o]
  BY <1>1, <1>6, LineIsLine
<1>9. ASSUME tip = anew.head, NEW c \in LineOf[tip], c \notin LineOf[to],
             commits[c].changes \cap ({TestOf[l]} \cup ResolvedGates(l, tip)) # {}
      PROVE  FALSE
  <2>1. anew.gates[l] = ResolvedGates(l, tip)
    BY <1>9 DEF LessonInv, GatesOfHead
  <2>2. to \in LineOf[c] /\ c # to  BY <1>4, <1>6, <1>8, <1>9
  <2>3. c \in LineOf[was]
    <3>1. SUFFICES ASSUME c \notin LineOf[was]  PROVE FALSE  OBVIOUS
    <3>2. c \in found  BY <1>3, <1>9, <2>1, <3>1
    <3>3. c <= to  BY <1>5, <3>2
    <3> QED  BY <1>8, <1>9, <3>3
  <2>4. LineOf[c] \subseteq LineOf[was]  BY <1>1, <1>2, <2>3, LineHasLines
  <2> QED  BY <1>6, <2>2, <2>4
<1>10. (tip = anew.head /\ to \in LineOf[tip]) =>
         Changes(to, {TestOf[l]} \cup ResolvedGates(l, tip)) = {}
  BY <1>9 DEF Changes
<1> QED  BY <1>6, <1>7, <1>8, <1>10 DEF Settled, to

\* What leaves the history alone.
LEMMA RunKeeps ==
  ASSUME LessonInv, UNCHANGED <<commits, tip>>, recent' \in [Lessons -> Rows],
         clean' \in BOOLEAN, AnewTypes', GatesOfHead', RowsSettled'
  PROVE  LessonInv'
<1>1. Rows' = Rows  BY DEF Rows
<1>2. recent' \in [Lessons -> Rows']  BY <1>1
<1> QED  BY <1>2 DEF LessonInv, LessonTypeOK

LEMMA OccursKeeps ==
  ASSUME LessonInv, NEW l \in Lessons, Occurs(l)
  PROVE  LessonInv'
<1>1. UNCHANGED <<commits, tip, anew>> /\ clean' = FALSE  BY DEF Occurs
<1>2. recent \in [Lessons -> Rows] /\ AnewTypes /\ tip \in 1 .. Len(commits)
  BY LinesHere
<1>3. recent' \in [Lessons -> Rows]
  <2> DEFINE seen == recent[l].seen \cup {tip}
  <2>1. recent' = [recent EXCEPT ![l].seen = seen]  BY DEF Occurs
  <2>2. seen \in SUBSET (1 .. Len(commits))  BY <1>2 DEF Rows
  <2> HIDE DEF seen
  <2> QED  BY <1>2, <2>1, <2>2 DEF Rows
<1>4. AnewTypes'
  <2>1. Rows' = Rows  BY <1>1 DEF Rows
  <2> QED  BY <1>1, <1>2, <2>1 DEF AnewTypes
<1>5. LineOf' = LineOf  BY <1>1 DEF LineOf
<1>6. GatesOfHead'  BY <1>1 DEF LessonInv, GatesOfHead, ResolvedGates
<1>7. RowsSettled'
  BY <1>1, <1>5 DEF LessonInv, RowsSettled, Settled, Green, ResolvedGates, Changes
<1> QED  BY <1>1, <1>3, <1>4, <1>6, <1>7, RunKeeps

LEMMA StartReanchorKeeps ==
  ASSUME LessonInv, StartReanchor
  PROVE  LessonInv'
<1>1. UNCHANGED <<commits, tip, recent, clean>>  BY DEF StartReanchor
<1>2. recent \in [Lessons -> Rows] /\ AnewTypes /\ tip \in 1 .. Len(commits)
      /\ Len(commits) \in Nat /\ commits \in Pasts /\ clean \in BOOLEAN
  BY LinesHere DEF LessonInv, LessonTypeOK
<1> DEFINE resolved == [l \in Lessons |-> ResolvedGates(l, tip)]
           none == {}
           empty == <<>>
<1>3. anew' = [at |-> "read", todo |-> Lessons, row |-> none, to |-> 0, done |-> none,
               head |-> tip, was |-> recent, gates |-> resolved, text |-> empty]
  BY DEF StartReanchor, Idle
<1>4. /\ resolved \in [Lessons -> SUBSET GateFiles]
      /\ \A l \in Lessons : resolved[l] = ResolvedGates(l, tip) /\ resolved[l] \subseteq GatesOf[l]
  BY LessonsAssumption DEF ResolvedGates
<1>5. none \subseteq Lessons /\ none = {} /\ none \cap Lessons = {} /\ Lessons \cap none = {}
      /\ 0 \in 0 .. Len(commits)
  BY <1>2
<1> HIDE DEF resolved, none, empty
<1>6. AnewTypes'
  <2>1. Rows' = Rows  BY <1>1 DEF Rows
  <2> QED  BY <1>1, <1>2, <1>3, <1>4, <1>5, <2>1 DEF AnewTypes
<1>7. GatesOfHead'
  BY <1>1, <1>3, <1>4 DEF GatesOfHead, ResolvedGates
<1>8. RowsSettled'  BY <1>3, <1>5 DEF RowsSettled
<1> QED  BY <1>1, <1>2, <1>6, <1>7, <1>8, RunKeeps

LEMMA ReadPageKeeps ==
  ASSUME LessonInv, ReadPage
  PROVE  LessonInv'
<1>1. UNCHANGED <<commits, tip, recent, clean>>  BY DEF ReadPage
<1>2. recent \in [Lessons -> Rows] /\ AnewTypes /\ tip \in 1 .. Len(commits)
      /\ Len(commits) \in Nat /\ clean \in BOOLEAN /\ anew.at = "read"
  BY LinesHere DEF LessonInv, LessonTypeOK, ReadPage
<1>3. Rows' = Rows  BY <1>1 DEF Rows
<1>4. CASE clean
  <2>1. anew' = [anew EXCEPT !.at = "next", !.text = recent]  BY <1>4 DEF ReadPage
  <2>2. AnewTypes'
    BY <1>1, <1>2, <1>3, <2>1 DEF AnewTypes
  <2>3. GatesOfHead'
    BY <1>1, <1>2, <2>1 DEF LessonInv, GatesOfHead, ResolvedGates, AnewTypes
  <2>4. RowsSettled'  BY <1>2, <2>1 DEF RowsSettled, AnewTypes
  <2> QED  BY <1>1, <1>2, <2>2, <2>3, <2>4, RunKeeps
<1>5. CASE ~clean
  <2>1. anew' = Idle  BY <1>5 DEF ReadPage
  <2>2. AnewTypes'  BY <1>1, <1>2, <2>1 DEF AnewTypes, Idle
  <2> QED  BY <1>1, <1>2, <2>1, <2>2, RunKeeps DEF GatesOfHead, RowsSettled, Idle
<1> QED  BY <1>4, <1>5

LEMMA NextRowKeeps ==
  ASSUME LessonInv, NEW l \in Lessons, NextRow(l)
  PROVE  LessonInv'
<1>1. UNCHANGED <<commits, tip, recent, clean>>  BY DEF NextRow
<1>2. recent \in [Lessons -> Rows] /\ AnewTypes /\ clean \in BOOLEAN
      /\ anew.at = "next" /\ l \in anew.todo
  BY LinesHere DEF LessonInv, LessonTypeOK, NextRow
<1>3. Rows' = Rows  BY <1>1 DEF Rows
<1> DEFINE left == anew.todo \ {l}
           one == {l}
           to == Newest(l)
<1>4. left \subseteq Lessons /\ left \cap anew.done = {} /\ l \notin left \cup anew.done
      /\ one = {l} /\ one \subseteq Lessons
  BY <1>2 DEF AnewTypes
<1>5. CASE to = 0 \/ ~ Green(l, tip)
  <2>1. anew' = [anew EXCEPT !.todo = left]  BY <1>5 DEF NextRow
  <2> HIDE DEF left
  <2>2. AnewTypes'  BY <1>1, <1>2, <1>3, <1>4, <2>1 DEF AnewTypes
  <2>3. /\ anew'.at = anew.at /\ anew'.head = anew.head /\ anew'.done = anew.done
        /\ anew'.row = anew.row /\ anew'.text = anew.text /\ anew'.gates = anew.gates
        /\ anew'.to = anew.to
    BY <1>2, <2>1 DEF AnewTypes
  <2>4. GatesOfHead'
    BY <1>1, <2>3 DEF LessonInv, GatesOfHead, ResolvedGates
  <2>5. LineOf' = LineOf  BY <1>1 DEF LineOf
  <2>6. RowsSettled'
    BY <1>1, <2>3, <2>5 DEF LessonInv, RowsSettled, Settled, Green, ResolvedGates, Changes
  <2> QED  BY <1>1, <1>2, <2>2, <2>4, <2>6, RunKeeps
<1>6. CASE ~(to = 0 \/ ~ Green(l, tip))
  <2>1. anew' = [anew EXCEPT !.todo = left, !.at = "candidate", !.row = one, !.to = to]
    BY <1>6 DEF NextRow
  <2>2. Settled(l, to)  BY <1>2, <1>6, NewestSettles
  <2>3. to \in 1 .. Len(commits) /\ to \in 0 .. Len(commits)
    BY <2>2, LinesHere DEF Settled
  <2> HIDE DEF left, one, to
  <2>4. /\ anew'.at = "candidate" /\ anew'.head = anew.head /\ anew'.done = anew.done
        /\ anew'.row = one /\ anew'.text = anew.text /\ anew'.gates = anew.gates
        /\ anew'.to = to /\ anew'.todo = left /\ anew'.was = anew.was
        /\ DOMAIN anew' = DOMAIN anew
    BY <1>2, <2>1 DEF AnewTypes
  <2>5. AnewTypes'
    BY <1>1, <1>2, <1>3, <1>4, <2>3, <2>4 DEF AnewTypes
  <2>6. GatesOfHead'
    BY <1>1, <1>2, <2>4 DEF LessonInv, GatesOfHead, ResolvedGates
  <2>7. RowsSettled'
    <3>1. ASSUME NEW on, on = to  PROVE Settled(l, on)'
      BY <1>1, <2>2, <2>4, <3>1, SettledStays
    <3>2. ASSUME NEW k \in anew.done, NEW on, on = anew.text[k].anchor
          PROVE  Settled(k, on)' /\ Green(k, on)'
      <4>1. Settled(k, on) /\ Green(k, on) /\ k \in Lessons
        BY <1>2, <3>2 DEF LessonInv, RowsSettled, AnewTypes
      <4>2. Settled(k, on)'  BY <1>1, <2>4, <4>1, SettledStays
      <4> QED  BY <1>1, <4>1, <4>2 DEF Green
    <3> QED  BY <1>4, <2>4, <3>1, <3>2 DEF RowsSettled, Settled, Green
  <2> QED  BY <1>1, <1>2, <2>5, <2>6, <2>7, RunKeeps
<1> QED  BY <1>5, <1>6

LEMMA CandidateKeeps ==
  ASSUME LessonInv, NEW l \in Lessons, Candidate(l)
  PROVE  LessonInv'
<1>1. UNCHANGED <<commits, tip, recent, clean>>  BY DEF Candidate
<1>2. /\ recent \in [Lessons -> Rows] /\ AnewTypes /\ clean \in BOOLEAN
      /\ anew.at = "candidate" /\ anew.row = {l}
      /\ l \notin anew.todo \cup anew.done /\ anew.text \in [Lessons -> Rows]
      /\ 0 \in 0 .. Len(commits)
  <2>1. anew.at = "candidate" /\ anew.row = {l}  BY DEF Candidate
  <2>2. AnewTypes /\ Len(commits) \in Nat  BY LinesHere
  <2>3. PICK k \in Lessons \ (anew.todo \cup anew.done) : anew.row = {k}
    BY <2>1, <2>2 DEF AnewTypes
  <2>4. k = l  BY <2>1, <2>3
  <2> QED  BY <2>1, <2>2, <2>3, <2>4, LinesHere DEF LessonInv, LessonTypeOK, AnewTypes
<1>3. Rows' = Rows  BY <1>1 DEF Rows
<1>4. Settled(l, anew.to) /\ anew.to \in 1 .. Len(commits)
  BY <1>2 DEF LessonInv, RowsSettled, Settled
<1> DEFINE none == {}
           all == anew.done \cup {l}
           text == [anew.text EXCEPT ![l].anchor = anew.to]
<1>5. /\ text \in [Lessons -> Rows] /\ text[l].anchor = anew.to
      /\ \A k \in Lessons : text[k].seen = anew.text[k].seen
      /\ \A k \in Lessons : k # l => text[k] = anew.text[k]
  BY <1>2, <1>4 DEF Rows
<1>6. none = {} /\ all \subseteq Lessons /\ anew.todo \cap all = {}
  BY <1>2 DEF AnewTypes
<1>7. \A k \in anew.done : k \in Lessons /\ k # l
  BY <1>2 DEF AnewTypes
<1>8. ASSUME NEW k \in anew.done
      PROVE  Settled(k, anew.text[k].anchor) /\ Green(k, anew.text[k].anchor)
  BY DEF LessonInv, RowsSettled
<1>9. CASE CandidateGreen(l) /\ anew.text[l].anchor = anew.was[l].anchor
  <2>1. anew' = [anew EXCEPT !.at = "next", !.row = none, !.to = 0, !.text = text, !.done = all]
    BY <1>9 DEF Candidate
  <2> HIDE DEF none, text
  <2>2. /\ anew'.at = "next" /\ anew'.head = anew.head /\ anew'.done = all
        /\ anew'.row = none /\ anew'.text = text /\ anew'.gates = anew.gates
        /\ anew'.to = 0 /\ anew'.todo = anew.todo /\ anew'.was = anew.was
        /\ DOMAIN anew' = DOMAIN anew
    BY <1>2, <2>1 DEF AnewTypes
  <2>3. AnewTypes'
    BY <1>1, <1>2, <1>3, <1>5, <1>6, <2>2 DEF AnewTypes
  <2>4. GatesOfHead'
    BY <1>1, <1>2, <2>2 DEF LessonInv, GatesOfHead, ResolvedGates
  <2>5. ASSUME NEW k \in all, NEW on, on = text[k].anchor
        PROVE  Settled(k, on)' /\ Green(k, on)'
    <3>1. k \in Lessons  BY <1>6
    <3>2. Settled(k, on) /\ Green(k, on)
      <4>1. CASE k = l  BY <1>4, <1>5, <1>9, <2>5, <4>1 DEF CandidateGreen
      <4>2. CASE k # l  BY <1>5, <1>7, <1>8, <2>5, <4>2
      <4> QED  BY <4>1, <4>2
    <3>3. anew'.text[k].seen = anew.text[k].seen  BY <1>5, <2>2, <3>1
    <3>4. Settled(k, on)'  BY <1>1, <2>2, <3>1, <3>2, <3>3, SettledStays
    <3> QED  BY <1>1, <3>2, <3>4 DEF Green
  <2>6. RowsSettled'
    BY <1>6, <2>2, <2>5 DEF RowsSettled, Settled, Green
  <2> QED  BY <1>1, <1>2, <2>3, <2>4, <2>6, RunKeeps
<1>10. CASE ~(CandidateGreen(l) /\ anew.text[l].anchor = anew.was[l].anchor)
  <2>1. anew' = [anew EXCEPT !.at = "next", !.row = none, !.to = 0]
    BY <1>10 DEF Candidate
  <2> HIDE DEF none
  <2>2. /\ anew'.at = "next" /\ anew'.head = anew.head /\ anew'.done = anew.done
        /\ anew'.row = none /\ anew'.text = anew.text /\ anew'.gates = anew.gates
        /\ anew'.to = 0 /\ anew'.todo = anew.todo /\ anew'.was = anew.was
        /\ DOMAIN anew' = DOMAIN anew
    BY <1>2, <2>1 DEF AnewTypes
  <2>3. AnewTypes'
    BY <1>1, <1>2, <1>3, <1>6, <2>2 DEF AnewTypes
  <2>4. GatesOfHead'
    BY <1>1, <1>2, <2>2 DEF LessonInv, GatesOfHead, ResolvedGates
  <2>5. ASSUME NEW k \in anew.done, NEW on, on = anew.text[k].anchor
        PROVE  Settled(k, on)' /\ Green(k, on)'
    <3>1. Settled(k, on) /\ Green(k, on) /\ k \in Lessons  BY <1>7, <1>8, <2>5
    <3>2. Settled(k, on)'  BY <1>1, <2>2, <3>1, SettledStays
    <3> QED  BY <1>1, <3>1, <3>2 DEF Green
  <2>6. RowsSettled'
    BY <1>6, <2>2, <2>5 DEF RowsSettled, Settled, Green
  <2> QED  BY <1>1, <1>2, <2>3, <2>4, <2>6, RunKeeps
<1> QED  BY <1>9, <1>10

LEMMA SavePageKeeps ==
  ASSUME LessonInv, SavePage
  PROVE  LessonInv'
<1>1. UNCHANGED <<commits, tip>> /\ anew' = Idle  BY DEF SavePage
<1>2. recent \in [Lessons -> Rows] /\ AnewTypes /\ clean \in BOOLEAN /\ anew.at = "next"
      /\ 0 \in 0 .. Len(commits)
  BY LinesHere DEF LessonInv, LessonTypeOK, SavePage
<1>3. recent' \in [Lessons -> Rows]  BY <1>2 DEF SavePage, AnewTypes
<1>4. clean' \in BOOLEAN  BY DEF SavePage
<1>5. AnewTypes'  BY <1>1, <1>2 DEF AnewTypes, Idle
<1> QED
  BY <1>1, <1>3, <1>4, <1>5, RunKeeps DEF GatesOfHead, RowsSettled, Idle

LEMMA LessonStep == LessonInv /\ [LessonNext]_lessonVars => LessonInv'
<1> SUFFICES ASSUME LessonInv, [LessonNext]_lessonVars  PROVE LessonInv'
  OBVIOUS
<1>1. CASE CommitOnTop \/ Amend  BY <1>1, HistoryKeeps
<1>2. CASE StartReanchor  BY <1>2, StartReanchorKeeps
<1>3. CASE ReadPage  BY <1>3, ReadPageKeeps
<1>4. CASE SavePage  BY <1>4, SavePageKeeps
<1>5. ASSUME NEW l \in Lessons, Occurs(l) \/ NextRow(l) \/ Candidate(l)  PROVE LessonInv'
  BY <1>5, OccursKeeps, NextRowKeeps, CandidateKeeps
<1>6. CASE UNCHANGED lessonVars
  <2>1. UNCHANGED <<commits, tip, recent, clean, anew>>  BY <1>6 DEF lessonVars
  <2>2. Rows' = Rows  BY <2>1 DEF Rows
  <2>3. AnewTypes'  BY <2>1, <2>2, LinesHere DEF AnewTypes
  <2>4. LineOf' = LineOf  BY <2>1 DEF LineOf
  <2>5. GatesOfHead'  BY <2>1 DEF LessonInv, GatesOfHead, ResolvedGates
  <2>6. RowsSettled'
    BY <2>1, <2>4 DEF LessonInv, RowsSettled, Settled, Green, ResolvedGates, Changes
  <2>7. recent \in [Lessons -> Rows] /\ clean \in BOOLEAN  BY LinesHere DEF LessonInv, LessonTypeOK
  <2> QED  BY <2>1, <2>3, <2>5, <2>6, <2>7, RunKeeps
<1> QED  BY <1>1, <1>2, <1>3, <1>4, <1>5, <1>6 DEF LessonNext

\* The page that is written proves its rows: what the invariant says of a commit
\* that was chosen for a row, the check finds.
LEMMA SavedIsProven ==
  ASSUME LessonInv, NEW l \in anew.done, SavePage
  PROVE  LET to == recent'[l].anchor IN
         /\ Green(l, to)
         /\ commits[to].changes \cap ({TestOf[l]} \cup GatesOf[l]) # {}
         /\ to \in LineOf[tip] =>
              \/ LessonErrors(l)' \cap {"stray", "stale"} = {}
              \/ tip # anew.head
         /\ \A o \in Recurred(l) \ Recurred(l)' :
              \/ o \in LineOf[to]
              \/ o \notin LineOf[tip]
              \/ o \notin recent'[l].seen
<1> DEFINE to == anew.text[l].anchor
<1>1. UNCHANGED <<commits, tip>> /\ recent' = anew.text  BY DEF SavePage
<1>2. Settled(l, to) /\ Green(l, to)  BY DEF LessonInv, RowsSettled
<1>3. LineOf' = LineOf  BY <1>1 DEF LineOf
<1>4. /\ LineOf = Line(commits) /\ commits \in Pasts /\ Len(commits) \in Nat
      /\ to \in 1 .. Len(commits)
  BY <1>2, LinesHere DEF Settled
<1>5. to \in LineOf[to]  BY <1>4, LineUnfolds
<1>6. ASSUME to \in LineOf[tip], tip = anew.head
      PROVE  LessonErrors(l)' \cap {"stray", "stale"} = {}
  <2>1. Changes(to, {TestOf[l]} \cup ResolvedGates(l, tip)) = {}
    BY <1>2, <1>6 DEF Settled
  <2>2. ~ StrayAnchor(l)'  BY <1>1, <1>3, <1>6 DEF StrayAnchor
  <2>3. ~ Stale(l)'
    BY <1>1, <1>3, <2>1 DEF Stale, Changes, ResolvedGates
  <2> QED  BY <2>2, <2>3 DEF LessonErrors
<1>7. ASSUME NEW o \in Recurred(l) \ Recurred(l)', o \in LineOf[tip], o \in recent'[l].seen
      PROVE  o \in LineOf[to]
  <2>1. o \in LineOf[to] \/ to \in LineOf[o]  BY <1>1, <1>2, <1>7 DEF Settled
  <2>2. o = to \/ to \notin LineOf[o]  BY <1>1, <1>3, <1>7 DEF Recurred
  <2> QED  BY <1>5, <2>1, <2>2
<1> HIDE DEF to
<1>8. to = recent'[l].anchor  BY <1>1 DEF to
<1> QED  BY <1>2, <1>6, <1>7, <1>8 DEF Settled

\* What a re-anchoring writes into a row proves the row, for any histories, rows
\* and edits while it runs, and it drops no recurrence that comes after the proof.
THEOREM AnchorsAreProven == LessonSpec => AnchorsProven
<1>1. LessonInv /\ [LessonNext]_lessonVars =>
        [\A l \in anew.done : SavePage =>
           LET to == recent'[l].anchor IN
             /\ Green(l, to)
             /\ commits[to].changes \cap ({TestOf[l]} \cup GatesOf[l]) # {}
             /\ to \in LineOf[tip] =>
                  \/ LessonErrors(l)' \cap {"stray", "stale"} = {}
                  \/ tip # anew.head
             /\ \A o \in Recurred(l) \ Recurred(l)' :
                  \/ o \in LineOf[to]
                  \/ o \notin LineOf[tip]
                  \/ o \notin recent'[l].seen]_lessonVars
  BY SavedIsProven
<1> QED  BY <1>1, LessonStarts, LessonStep, PTL DEF LessonSpec, AnchorsProven

-----------------------------------------------------------------------------
(* The search for dependency cycles. Its path is the calls under way, each of   *)
(* them made for a dependency of the one before; what it has visited leads to  *)
(* no cycle, because every dependency of a call that comes back is visited or  *)
(* not there.                                                                   *)

InGraph == DOMAIN dependencies

Listed(t) == Range(dependencies[t])

\* The sets that can be walked for ever, which HasDependencyCycle looks for.
Endless(S) == \A t \in S : t \in InGraph /\ Listed(t) \cap S # {}

CycleTypeOK ==
  /\ InGraph \subseteq Tasks
  /\ dependencies \in [InGraph -> Seq(Tasks)]
  /\ search \in [root : InGraph, path : SUBSET InGraph, visited : SUBSET InGraph,
                 calls : Seq([id : InGraph, left : Seq(Tasks)]),
                 verdict : {"searching", "cycle", "none"}]

\* The calls under way.
Depth == 1..Len(search.calls)

CallAt(i) == search.calls[i]

PathIsCalls ==
  search.verdict = "searching" =>
    /\ search.calls # <<>> /\ CallAt(1).id = search.root
    /\ search.path = {CallAt(i).id : i \in Depth}
    /\ \A i, j \in Depth : CallAt(i).id = CallAt(j).id => i = j
    /\ \A i \in Depth : i > 1 => CallAt(i).id \in Listed(CallAt(i-1).id)

\* What a call has looked at is visited, not there, or what it waits for.
LookedAtBy(i) ==
  /\ Range(CallAt(i).left) \subseteq Listed(CallAt(i).id)
  /\ \A d \in Listed(CallAt(i).id) \cap InGraph :
       \/ d \in Range(CallAt(i).left) \cup search.visited
       \/ i < Len(search.calls) /\ d = CallAt(i+1).id

LookedAt == search.verdict = "searching" => \A i \in Depth : LookedAtBy(i)

VisitedIsClear ==
  \A S \in SUBSET Tasks : Endless(S) => S \cap search.visited = {}

VerdictsHold ==
  /\ search.verdict = "cycle" => \E S \in SUBSET Tasks : search.root \in S /\ Endless(S)
  /\ search.verdict = "none" => search.root \in search.visited

CycleInv == CycleTypeOK /\ PathIsCalls /\ LookedAt /\ VisitedIsClear /\ VerdictsHold

\* The property's walk without an end, in the graph's own terms.
LEMMA CycleIsEndless ==
  ASSUME CycleTypeOK
  PROVE  HasDependencyCycle(Snapshot, search.root)
           <=> \E S \in SUBSET Tasks : search.root \in S /\ Endless(S)
<1>1. \A t \in Tasks : Snapshot.tasks[t].dependencies
                         = IF t \in InGraph THEN Listed(t) ELSE {}
  BY DEF Snapshot, InGraph, Listed
<1>2. ASSUME NEW S \in SUBSET Tasks
      PROVE  (\A t \in S : Snapshot.tasks[t].dependencies \cap S # {}) <=> Endless(S)
  BY <1>1 DEF Endless
<1> QED
  BY <1>2 DEF HasDependencyCycle

LEMMA CycleInitHolds ==
  ASSUME CycleInit
  PROVE  CycleInv
<1>1. PICK begun \in Searches :
        /\ dependencies = begun.dependencies
        /\ search = [root |-> begun.root, path |-> {begun.root}, visited |-> {},
                     calls |-> <<CallFor(begun.root)>>, verdict |-> "searching"]
  BY DEF CycleInit
<1>2. PICK known \in SUBSET Tasks :
        begun.root \in known /\ begun.dependencies \in [known -> Seq(Tasks)]
  BY SearchesAssumption
<1>3. InGraph = known /\ search.root \in InGraph
  BY <1>1, <1>2 DEF InGraph
<1>4. CallFor(search.root) \in [id : InGraph, left : Seq(Tasks)]
  BY <1>1, <1>2, <1>3 DEF CallFor
<1>5. CycleTypeOK
  BY <1>1, <1>2, <1>3, <1>4 DEF CycleTypeOK
<1>6. Len(search.calls) = 1 /\ Depth = {1} /\ CallAt(1) = CallFor(search.root)
  BY <1>1, <1>4 DEF Depth, CallAt
<1>7. PathIsCalls
  BY <1>1, <1>6 DEF PathIsCalls, CallFor
<1>8. LookedAt
  BY <1>1, <1>6 DEF LookedAt, LookedAtBy, CallFor, Listed
<1>9. VisitedIsClear /\ VerdictsHold
  BY <1>1 DEF VisitedIsClear, VerdictsHold
<1> QED
  BY <1>5, <1>7, <1>8, <1>9 DEF CycleInv

LEMMA CallsTyped ==
  ASSUME CycleTypeOK
  PROVE  \A i \in Depth : CallAt(i) \in [id : InGraph, left : Seq(Tasks)]
<1> DEFINE Call == [id : InGraph, left : Seq(Tasks)]
<1>1. search.calls \in Seq(Call)
  BY DEF CycleTypeOK
<1> QED
  <2> HIDE DEF Call
  <2> SUFFICES \A i \in Depth : CallAt(i) \in Call
    BY DEF Call
  <2> QED
    BY <1>1 DEF Depth, CallAt

\* A sequence lists its head and what its tail lists.
LEMMA SplitListed ==
  ASSUME NEW s \in Seq(Tasks), s # <<>>
  PROVE  /\ Head(s) \in Tasks /\ Tail(s) \in Seq(Tasks) /\ Head(s) \in Range(s)
         /\ Range(s) \subseteq {Head(s)} \cup Range(Tail(s))
         /\ Range(Tail(s)) \subseteq Range(s)
<1>1. Len(s) \in Nat \ {0} /\ Head(s) = s[1] /\ Head(s) \in Tasks /\ Tail(s) \in Seq(Tasks)
  OBVIOUS
<1>2. DOMAIN s = 1..Len(s) /\ DOMAIN Tail(s) = 1..Len(s)-1
  OBVIOUS
<1>3. \A i \in 1..Len(s)-1 : Tail(s)[i] = s[i+1]
  OBVIOUS
<1>4. Head(s) \in Range(s)
  BY <1>1, <1>2 DEF Range
<1>5. ASSUME NEW d \in Range(s), d # Head(s)
      PROVE  d \in Range(Tail(s))
  <2>1. PICK i \in 1..Len(s) : s[i] = d
    BY <1>2 DEF Range
  <2>2. i - 1 \in 1..Len(s)-1 /\ Tail(s)[i-1] = d
    BY <1>1, <1>3, <1>5, <2>1
  <2> QED
    BY <1>2, <2>2 DEF Range
<1>6. ASSUME NEW d \in Range(Tail(s))
      PROVE  d \in Range(s)
  <2>1. PICK i \in 1..Len(s)-1 : Tail(s)[i] = d
    BY <1>2 DEF Range
  <2>2. i + 1 \in 1..Len(s) /\ s[i+1] = d
    BY <1>1, <1>3, <2>1
  <2> QED
    BY <1>2, <2>2 DEF Range
<1> QED
  BY <1>1, <1>4, <1>5, <1>6

\* What every step that looks at a dependency starts from.
LEMMA LookingFacts ==
  ASSUME CycleInv, Looking
  PROVE  /\ Len(search.calls) \in Nat \ {0} /\ Len(search.calls) \in Depth
         /\ Deepest = CallAt(Len(search.calls)) /\ Deepest.id \in InGraph
         /\ Head(Deepest.left) \in Tasks /\ Tail(Deepest.left) \in Seq(Tasks)
         /\ Head(Deepest.left) \in Listed(Deepest.id)
         /\ Range(Deepest.left) \subseteq {Head(Deepest.left)} \cup Range(Tail(Deepest.left))
         /\ Range(Tail(Deepest.left)) \subseteq Range(Deepest.left)
<1> DEFINE n == Len(search.calls)
<1>1. n \in Nat \ {0} /\ n \in Depth
  BY DEF CycleInv, CycleTypeOK, PathIsCalls, Looking, Depth
<1>2. Deepest = CallAt(n) /\ Deepest \in [id : InGraph, left : Seq(Tasks)]
  BY <1>1, CallsTyped DEF Deepest, CallAt, CycleInv
<1>3. Range(Deepest.left) \subseteq Listed(Deepest.id)
  BY <1>1, <1>2 DEF CycleInv, LookedAt, LookedAtBy, Looking
<1> QED
  BY <1>1, <1>2, <1>3, SplitListed DEF Looking

\* The calls with one dependency less to look at.
LEMMA LookedFacts ==
  ASSUME CycleInv, Looking
  PROVE  /\ Looked \in Seq([id : InGraph, left : Seq(Tasks)])
         /\ Len(Looked) = Len(search.calls)
         /\ \A i \in Depth : Looked[i].id = CallAt(i).id
         /\ \A i \in Depth : i # Len(search.calls) => Looked[i] = CallAt(i)
         /\ Looked[Len(search.calls)].left = Tail(Deepest.left)
<1> DEFINE n == Len(search.calls)
           Call == [id : InGraph, left : Seq(Tasks)]
           call == [search.calls[n] EXCEPT !.left = Tail(Deepest.left)]
<1>1. n \in Depth /\ Deepest = CallAt(n) /\ Tail(Deepest.left) \in Seq(Tasks)
  BY LookingFacts
<1>2. search.calls[n] \in Call
  BY <1>1, CallsTyped DEF CallAt, CycleInv
<1>3. call \in Call
  BY <1>1, <1>2
<1>4. call.id = search.calls[n].id /\ call.left = Tail(Deepest.left)
  BY <1>2
<1>5. search.calls \in Seq(Call)
  BY DEF CycleInv, CycleTypeOK
<1>6. Looked = [search.calls EXCEPT ![n] = call]
  BY <1>1, <1>5 DEF Looked, Deepest, CallAt
<1> QED
  <2> HIDE DEF Call, call
  <2>1. Looked \in Seq(Call) /\ Len(Looked) = n
    BY <1>1, <1>3, <1>5, <1>6 DEF Depth
  <2>2. Looked[n] = call /\ \A i \in Depth : i # n => Looked[i] = CallAt(i)
    BY <1>1, <1>5, <1>6 DEF Depth, CallAt
  <2>3. \A i \in Depth : Looked[i].id = CallAt(i).id
    BY <1>4, <2>2 DEF CallAt
  <2> QED
    BY <1>4, <2>1, <2>2, <2>3 DEF Call

\* A step leaves the graph alone, and what is said of it.
LEMMA GraphStays ==
  ASSUME dependencies' = dependencies
  PROVE  /\ InGraph' = InGraph
         /\ \A t : Listed(t)' = Listed(t)
         /\ \A S : Endless(S)' = Endless(S)
BY DEF InGraph, Listed, Endless

LEMMA FindsCycleStep ==
  ASSUME CycleInv, FindsCycle
  PROVE  CycleInv'
<1> DEFINE n == Len(search.calls)
           d == Head(Deepest.left)
<1>1. /\ search' = [search EXCEPT !.verdict = "cycle"] /\ dependencies' = dependencies
      /\ d \in search.path /\ search.verdict = "searching"
  BY DEF FindsCycle, Looking
<1>2. /\ search'.verdict = "cycle" /\ search'.root = search.root
      /\ search'.visited = search.visited /\ CycleTypeOK'
  BY <1>1 DEF CycleInv, CycleTypeOK, InGraph
<1>3. search.root \in search.path /\ search.path \in SUBSET Tasks
  <2>1. Len(search.calls) \in Nat \ {0}
    BY LookingFacts DEF FindsCycle
  <2>2. 1 \in Depth
    BY <2>1 DEF Depth
  <2> QED
    BY <1>1, <2>2 DEF CycleInv, PathIsCalls, CycleTypeOK
<1>4. Endless(search.path)
  <2> SUFFICES ASSUME NEW t \in search.path
               PROVE  t \in InGraph /\ Listed(t) \cap search.path # {}
    BY DEF Endless
  <2>1. PICK i \in Depth : CallAt(i).id = t
    BY <1>1 DEF CycleInv, PathIsCalls
  <2>2. t \in InGraph
    BY DEF CycleInv, CycleTypeOK
  <2>3. CASE i = n
    BY <1>1, <2>1, <2>2, <2>3, LookingFacts DEF FindsCycle
  <2>4. CASE i # n
    <3>1. i + 1 \in Depth /\ i + 1 > 1 /\ (i + 1) - 1 = i
      BY <2>4, LookingFacts DEF FindsCycle, Depth
    <3>2. CallAt(i+1).id \in Listed(t) \cap search.path
      <4> DEFINE j == i + 1
      <4>1. j \in Depth /\ j > 1 /\ CallAt(j-1).id = t
        BY <2>1, <3>1
      <4> HIDE DEF j
      <4>2. CallAt(j).id \in Listed(t) \cap search.path
        BY <1>1, <4>1 DEF CycleInv, PathIsCalls
      <4> QED
        BY <4>2 DEF j
    <3> QED
      BY <2>2, <3>2
  <2> QED
    BY <2>3, <2>4
<1>5. VisitedIsClear'
  BY <1>1, <1>2, GraphStays DEF CycleInv, VisitedIsClear
<1>6. VerdictsHold'
  <2>1. Endless(search.path)'
    BY <1>1, <1>4, GraphStays
  <2> QED
    BY <1>1, <1>2, <1>3, <1>4, GraphStays DEF VerdictsHold
<1> QED
  BY <1>2, <1>5, <1>6 DEF CycleInv, PathIsCalls, LookedAt

LEMMA PassesOverStep ==
  ASSUME CycleInv, PassesOver
  PROVE  CycleInv'
<1> DEFINE n == Len(search.calls)
           d == Head(Deepest.left)
<1>1. /\ search' = [search EXCEPT !.calls = Looked] /\ dependencies' = dependencies
      /\ d \in search.visited \/ d \notin InGraph
      /\ search.verdict = "searching" /\ Looking
  BY DEF PassesOver, Looking, InGraph
<1>2. /\ search'.calls = Looked /\ search'.verdict = "searching"
      /\ search'.root = search.root /\ search'.path = search.path
      /\ search'.visited = search.visited
  BY <1>1 DEF CycleInv, CycleTypeOK
<1>3. CycleTypeOK'
  <2>1. Looked \in Seq([id : InGraph, left : Seq(Tasks)]) /\ InGraph' = InGraph
    BY <1>1, LookedFacts, GraphStays
  <2> QED
    BY <1>1, <2>1 DEF CycleInv, CycleTypeOK
<1>4. Len(search'.calls) = n /\ Depth' = Depth /\ n \in Nat \ {0} /\ n \in Depth
  BY <1>1, <1>2, LookingFacts, LookedFacts DEF Depth
<1>5. /\ \A i \in Depth : CallAt(i)'.id = CallAt(i).id
      /\ \A i \in Depth : i # n => CallAt(i)' = CallAt(i)
      /\ search'.calls[n].left = Tail(Deepest.left)
  BY <1>1, <1>2, LookedFacts DEF CallAt
<1>6. PathIsCalls'
  <2>1. search'.calls # <<>> /\ 1 \in Depth
    BY <1>3, <1>4 DEF CycleTypeOK, Depth
  <2>2. \A i \in Depth : i > 1 => i - 1 \in Depth
    BY <1>4 DEF Depth
  <2>3. \A i \in Depth : i > 1 => CallAt(i)'.id \in Listed(CallAt(i-1)'.id)
    BY <1>1, <1>5, <2>2 DEF CycleInv, PathIsCalls
  <2>4. search.path = {CallAt(i)'.id : i \in Depth}
    BY <1>1, <1>5 DEF CycleInv, PathIsCalls
  <2>5. CallAt(1)'.id = search.root
    BY <1>1, <1>5, <2>1 DEF CycleInv, PathIsCalls
  <2>6. \A i, j \in Depth : CallAt(i)'.id = CallAt(j)'.id => i = j
    BY <1>1, <1>5 DEF CycleInv, PathIsCalls
  <2> QED
    BY <1>1, <1>2, <1>4, <2>1, <2>3, <2>4, <2>5, <2>6 DEF PathIsCalls, Listed
<1>7. LookedAt'
  <2> SUFFICES ASSUME NEW i \in Depth
               PROVE  /\ Range(CallAt(i)'.left) \subseteq Listed(CallAt(i).id)
                      /\ \A e \in Listed(CallAt(i).id) \cap InGraph :
                           \/ e \in Range(CallAt(i)'.left) \cup search.visited
                           \/ i < n /\ e = CallAt(i+1)'.id
    BY <1>1, <1>2, <1>4, <1>5 DEF LookedAt, LookedAtBy, Listed, InGraph
  <2>1. CASE i = n
    <3>1. ~(n < n)
      BY <1>4
    <3>2. Deepest = CallAt(i)
      BY <1>1, <2>1, LookingFacts
    <3>3. \A e \in Listed(CallAt(i).id) \cap InGraph :
            e \in Range(Deepest.left) \cup search.visited
      BY <1>1, <2>1, <3>1, <3>2 DEF CycleInv, LookedAt, LookedAtBy
    <3>4. /\ Range(Deepest.left) \subseteq {d} \cup Range(Tail(Deepest.left))
          /\ Range(Tail(Deepest.left)) \subseteq Range(Deepest.left)
      BY <1>1, LookingFacts
    <3>5. Range(Deepest.left) \subseteq Listed(CallAt(i).id)
      BY <1>1, <3>2 DEF CycleInv, LookedAt, LookedAtBy
    <3>6. CallAt(i)'.left = Tail(Deepest.left)
      BY <1>5, <2>1 DEF CallAt
    <3> HIDE DEF d
    <3> QED
      BY <1>1, <3>3, <3>4, <3>5, <3>6
  <2>2. CASE i # n
    <3>1. CallAt(i)' = CallAt(i)
      BY <1>5, <2>2
    <3>2. i < n => CallAt(i+1)'.id = CallAt(i+1).id
      BY <1>4, <1>5 DEF Depth
    <3> QED
      BY <1>1, <3>1, <3>2 DEF CycleInv, LookedAt, LookedAtBy
  <2> QED
    BY <2>1, <2>2
<1>8. VisitedIsClear' /\ VerdictsHold'
  BY <1>1, <1>2, GraphStays DEF CycleInv, VisitedIsClear, VerdictsHold
<1> QED
  BY <1>3, <1>6, <1>7, <1>8 DEF CycleInv

LEMMA GoesDeeperStep ==
  ASSUME CycleInv, GoesDeeper
  PROVE  CycleInv'
<1> DEFINE d == Head(Deepest.left)
<1>1. /\ search' = [search EXCEPT !.calls = Append(Looked, CallFor(d)),
                                  !.path = @ \cup {d}]
      /\ dependencies' = dependencies /\ search.verdict = "searching" /\ Looking
      /\ d \in InGraph /\ d \notin search.path /\ d \notin search.visited
  BY DEF GoesDeeper, Looking, InGraph
<1>2. /\ search'.calls = Append(Looked, CallFor(d)) /\ search'.verdict = "searching"
      /\ search'.root = search.root /\ search'.path = search.path \cup {d}
      /\ search'.visited = search.visited
  BY <1>1 DEF CycleInv, CycleTypeOK
<1>3. CallFor(d) \in [id : InGraph, left : Seq(Tasks)] /\ CallFor(d).id = d
      /\ CallFor(d).left = dependencies[d]
  BY <1>1 DEF CallFor, CycleInv, CycleTypeOK
<1>4. PICK n \in Nat \ {0} : n = Len(search.calls)
  BY <1>1, LookingFacts
<1>5. /\ Looked \in Seq([id : InGraph, left : Seq(Tasks)]) /\ Len(Looked) = n
      /\ Depth = 1..n
  BY <1>1, <1>4, LookedFacts DEF Depth
<1>6. /\ search'.calls \in Seq([id : InGraph, left : Seq(Tasks)])
      /\ Len(search'.calls) = n + 1 /\ search'.calls[n+1] = CallFor(d)
      /\ \A i \in 1..n : search'.calls[i] = Looked[i]
  <2> DEFINE Call == [id : InGraph, left : Seq(Tasks)]
             call == CallFor(d)
  <2>1. Looked \in Seq(Call) /\ call \in Call /\ search'.calls = Append(Looked, call)
    BY <1>2, <1>3, <1>5
  <2> HIDE DEF Call, call
  <2>2. /\ Append(Looked, call) \in Seq(Call) /\ Len(Append(Looked, call)) = n + 1
        /\ Append(Looked, call)[n+1] = call
        /\ \A i \in 1..n : Append(Looked, call)[i] = Looked[i]
    BY <1>4, <1>5, <2>1
  <2> QED
    BY <2>1, <2>2 DEF Call, call
<1>7. CycleTypeOK'
  <2>1. InGraph' = InGraph /\ search.path \cup {d} \in SUBSET InGraph
    BY <1>1, GraphStays DEF CycleInv, CycleTypeOK
  <2> QED
    BY <1>1, <1>2, <1>6, <2>1 DEF CycleInv, CycleTypeOK
<1>8. /\ \A i \in 1..n : CallAt(i)'.id = CallAt(i).id
      /\ \A i \in 1..n : i # n => CallAt(i)' = CallAt(i)
      /\ CallAt(n)'.left = Tail(Deepest.left)
      /\ CallAt(n+1)'.id = d /\ CallAt(n+1)'.left = dependencies[d]
      /\ Depth' = 1..(n+1)
  BY <1>1, <1>3, <1>4, <1>5, <1>6, LookedFacts DEF CallAt, Depth
<1>9. /\ Deepest = CallAt(n) /\ d \in Listed(CallAt(n).id)
      /\ Range(Deepest.left) \subseteq {d} \cup Range(Tail(Deepest.left))
      /\ Range(Tail(Deepest.left)) \subseteq Range(Deepest.left)
  BY <1>1, <1>4, LookingFacts
<1>10. /\ \A i \in 1..(n+1) : i = n + 1 \/ i \in 1..n
       /\ \A i \in 1..n : i > 1 => i - 1 \in 1..n
       /\ \A i \in 1..n : i < n + 1 /\ (i # n => i + 1 \in 1..n /\ i < n)
       /\ 1 \in 1..n /\ n \in 1..n /\ (n + 1) - 1 = n /\ ~(n < n)
  BY <1>4
<1>11. PathIsCalls'
  <2>1. search'.calls # <<>>
    BY <1>4, <1>6
  <2>2. CallAt(1)'.id = search.root
    BY <1>1, <1>5, <1>8, <1>10 DEF CycleInv, PathIsCalls
  <2>3. search'.path = {CallAt(i)'.id : i \in 1..(n+1)}
    <3>1. search.path = {CallAt(i).id : i \in 1..n}
      BY <1>1, <1>5 DEF CycleInv, PathIsCalls
    <3>2. 1..(n+1) = 1..n \cup {n+1}
      BY <1>4
    <3> QED
      BY <1>2, <1>8, <3>1, <3>2
  <2>4. ASSUME NEW i \in 1..(n+1), NEW j \in 1..(n+1), CallAt(i)'.id = CallAt(j)'.id
        PROVE  i = j
    <3>1. \A k \in 1..n : CallAt(k)'.id \in search.path
      BY <1>1, <1>5, <1>8 DEF CycleInv, PathIsCalls
    <3>2. CASE i \in 1..n /\ j \in 1..n
      BY <1>1, <1>5, <1>8, <2>4, <3>2 DEF CycleInv, PathIsCalls
    <3>3. CASE i = n + 1 \/ j = n + 1
      BY <1>1, <1>8, <1>10, <2>4, <3>1, <3>3
    <3> QED
      BY <1>10, <3>2, <3>3
  <2>5. ASSUME NEW i \in 1..(n+1), i > 1
        PROVE  CallAt(i)'.id \in Listed(CallAt(i-1)'.id)
    <3>1. CASE i \in 1..n
      BY <1>1, <1>5, <1>8, <1>10, <2>5, <3>1 DEF CycleInv, PathIsCalls
    <3>2. CASE i = n + 1
      BY <1>8, <1>9, <1>10, <3>2
    <3> QED
      BY <1>10, <3>1, <3>2
  <2> QED
    BY <1>1, <1>2, <1>8, <2>1, <2>2, <2>3, <2>4, <2>5 DEF PathIsCalls, Listed
<1>12. LookedAt'
  <2> SUFFICES ASSUME NEW i \in 1..(n+1)
               PROVE  /\ Range(CallAt(i)'.left) \subseteq Listed(CallAt(i)'.id)
                      /\ \A e \in Listed(CallAt(i)'.id) \cap InGraph :
                           \/ e \in Range(CallAt(i)'.left) \cup search.visited
                           \/ i < n + 1 /\ e = CallAt(i+1)'.id
    <3>1. dependencies' = dependencies /\ InGraph' = InGraph
      BY <1>1, GraphStays
    <3>2. /\ Len(search'.calls) = n + 1 /\ Depth' = 1..(n+1)
          /\ search'.visited = search.visited
      BY <1>2, <1>6, <1>8
    <3>3. \A i \in 1..(n+1) : LookedAtBy(i)'
      BY <3>1, <3>2 DEF LookedAtBy, Listed
    <3> QED
      BY <3>2, <3>3 DEF LookedAt
  <2>1. CASE i = n + 1
    BY <1>8, <2>1 DEF Listed
  <2>2. CASE i = n
    <3>1. \A e \in Listed(CallAt(n).id) \cap InGraph :
            e \in Range(Deepest.left) \cup search.visited
      BY <1>1, <1>4, <1>5, <1>9, <1>10 DEF CycleInv, LookedAt, LookedAtBy
    <3>2. Range(Deepest.left) \subseteq Listed(CallAt(n).id)
      BY <1>1, <1>5, <1>9, <1>10 DEF CycleInv, LookedAt, LookedAtBy
    <3> HIDE DEF d
    <3> QED
      BY <1>8, <1>9, <1>10, <2>2, <3>1, <3>2
  <2>3. CASE i \in 1..n /\ i # n
    <3>1. /\ CallAt(i)' = CallAt(i) /\ CallAt(i+1)'.id = CallAt(i+1).id
          /\ i < n /\ i < n + 1
      BY <1>8, <1>10, <2>3
    <3> QED
      BY <1>1, <1>4, <1>5, <2>3, <3>1 DEF CycleInv, LookedAt, LookedAtBy
  <2> QED
    BY <1>10, <2>1, <2>2, <2>3
<1>13. VisitedIsClear' /\ VerdictsHold'
  BY <1>1, <1>2, GraphStays DEF CycleInv, VisitedIsClear, VerdictsHold
<1> QED
  BY <1>7, <1>11, <1>12, <1>13 DEF CycleInv

\* With all the array looked at, every dependency of the deepest call leads to no
\* cycle, and so it does not itself.
LEMMA GoesBackStep ==
  ASSUME CycleInv, GoesBack
  PROVE  CycleInv'
<1> DEFINE t == Deepest.id
<1>1. PICK n \in Nat \ {0} : n = Len(search.calls)
  BY DEF GoesBack, CycleInv, CycleTypeOK, PathIsCalls
<1> DEFINE left == SubSeq(search.calls, 1, n - 1)
<1>2. /\ search' = [search EXCEPT !.path = @ \ {t}, !.visited = @ \cup {t}, !.calls = left,
                                  !.verdict = IF left = <<>> THEN "none" ELSE @]
      /\ dependencies' = dependencies /\ search.verdict = "searching"
      /\ Deepest.left = <<>> /\ Depth = 1..n /\ Deepest = CallAt(n)
  BY <1>1 DEF GoesBack, Finished, Depth, Deepest, CallAt
<1>3. /\ n \in 1..n /\ 1 \in 1..n /\ ~(n < n)
      /\ \A i \in 1..n : i > 1 => i - 1 \in 1..n
      /\ \A i \in 1..n : i = n \/ i \in 1..(n-1)
      /\ \A i \in 1..(n-1) : /\ i \in 1..n /\ i # n /\ i < n /\ i + 1 \in 1..n
                             /\ i < n - 1 \/ i + 1 = n
                             /\ i < n - 1 => i + 1 \in 1..(n-1)
                             /\ i > 1 => i - 1 \in 1..(n-1)
  <2>1. n \in Nat /\ n >= 1
    BY <1>1
  <2>2. \A i \in 1..(n-1) : i \in 1..n /\ i # n /\ i < n /\ i + 1 \in 1..n
    BY <2>1
  <2>3. \A i \in 1..(n-1) : /\ i < n - 1 \/ i + 1 = n
                            /\ i < n - 1 => i + 1 \in 1..(n-1)
                            /\ i > 1 => i - 1 \in 1..(n-1)
    BY <2>1
  <2>4. /\ n \in 1..n /\ 1 \in 1..n /\ ~(n < n)
        /\ \A i \in 1..n : i > 1 => i - 1 \in 1..n
        /\ \A i \in 1..n : i = n \/ i \in 1..(n-1)
    BY <2>1
  <2> QED
    BY <2>2, <2>3, <2>4
<1>4. t \in InGraph
  BY <1>2, <1>3, CallsTyped DEF CycleInv
<1>5. left \in Seq([id : InGraph, left : Seq(Tasks)]) /\ Len(left) = n - 1
      /\ \A i \in 1..(n-1) : left[i] = CallAt(i)
  <2> DEFINE Call == [id : InGraph, left : Seq(Tasks)]
  <2>1. search.calls \in Seq(Call)
    BY DEF CycleInv, CycleTypeOK
  <2> HIDE DEF Call
  <2>2. left \in Seq(Call) /\ Len(left) = n - 1 /\ \A i \in 1..(n-1) : left[i] = search.calls[i]
    BY <1>1, <2>1
  <2> QED
    BY <2>2 DEF Call, CallAt
<1> HIDE DEF left, t
<1>6. /\ search'.calls = left /\ search'.root = search.root
      /\ search'.path = search.path \ {t} /\ search'.visited = search.visited \cup {t}
      /\ search'.verdict = IF left = <<>> THEN "none" ELSE "searching"
  BY <1>2 DEF CycleInv, CycleTypeOK
<1>7. CycleTypeOK'
  <2>1. InGraph' = InGraph
    BY <1>2, GraphStays
  <2>2. (IF left = <<>> THEN "none" ELSE search.verdict) \in {"searching", "cycle", "none"}
    BY <1>2
  <2> QED
    BY <1>2, <1>4, <1>5, <2>1, <2>2 DEF CycleInv, CycleTypeOK
<1>8. /\ Depth' = 1..(n-1) /\ \A i \in 1..(n-1) : CallAt(i)' = CallAt(i)
      /\ left # <<>> => 1 \in 1..(n-1)
      /\ left = <<>> => n = 1
  <2>1. Depth' = 1..(n-1) /\ \A i \in 1..(n-1) : CallAt(i)' = CallAt(i)
    BY <1>5, <1>6 DEF Depth, CallAt
  <2>2. left = <<>> <=> n - 1 = 0
    BY <1>5
  <2>3. n \in Nat /\ n # 0
    BY <1>1
  <2> QED
    BY <2>1, <2>2, <2>3
<1>9. /\ t = CallAt(n).id
      /\ \A e \in Listed(t) \cap InGraph : e \in search.visited
  <2>1. t = CallAt(n).id /\ CallAt(n).left = <<>>
    BY <1>2 DEF t
  <2>2. Range(CallAt(n).left) = {}
    BY <2>1 DEF Range
  <2> QED
    BY <1>1, <1>2, <1>3, <2>1, <2>2 DEF CycleInv, LookedAt, LookedAtBy
<1>10. PathIsCalls'
  <2> SUFFICES ASSUME left # <<>>
               PROVE  /\ CallAt(1)'.id = search.root
                      /\ search.path \ {t} = {CallAt(i)'.id : i \in 1..(n-1)}
                      /\ \A i, j \in 1..(n-1) : CallAt(i)'.id = CallAt(j)'.id => i = j
                      /\ \A i \in 1..(n-1) : i > 1 => CallAt(i)'.id \in Listed(CallAt(i-1)'.id)
    BY <1>2, <1>6, <1>8 DEF PathIsCalls, Listed
  <2>1. CallAt(1)'.id = search.root
    BY <1>2, <1>3, <1>8 DEF CycleInv, PathIsCalls
  <2>2. \A i, j \in 1..n : CallAt(i).id = CallAt(j).id => i = j
    BY <1>2 DEF CycleInv, PathIsCalls
  <2>3. search.path = {CallAt(i).id : i \in 1..n}
    BY <1>2 DEF CycleInv, PathIsCalls
  <2>4. search.path \ {t} = {CallAt(i)'.id : i \in 1..(n-1)}
    <3>1. ASSUME NEW e \in search.path, e # t
          PROVE  e \in {CallAt(i)'.id : i \in 1..(n-1)}
      BY <1>3, <1>8, <1>9, <2>3, <3>1
    <3>2. ASSUME NEW i \in 1..(n-1)
          PROVE  CallAt(i)'.id \in search.path \ {t}
      BY <1>3, <1>8, <1>9, <2>2, <2>3
    <3> QED
      BY <3>1, <3>2
  <2>5. \A i, j \in 1..(n-1) : CallAt(i)'.id = CallAt(j)'.id => i = j
    BY <1>3, <1>8, <2>2
  <2>6. \A i \in 1..(n-1) : i > 1 => CallAt(i)'.id \in Listed(CallAt(i-1)'.id)
    BY <1>2, <1>3, <1>8 DEF CycleInv, PathIsCalls
  <2> QED
    BY <2>1, <2>4, <2>5, <2>6
<1>11. LookedAt'
  <2> SUFFICES ASSUME NEW i \in 1..(n-1)
               PROVE  /\ Range(CallAt(i)'.left) \subseteq Listed(CallAt(i)'.id)
                      /\ \A e \in Listed(CallAt(i)'.id) \cap InGraph :
                           \/ e \in Range(CallAt(i)'.left) \cup (search.visited \cup {t})
                           \/ i < n - 1 /\ e = CallAt(i+1)'.id
    <3>1. dependencies' = dependencies /\ InGraph' = InGraph
      BY <1>2, GraphStays
    <3>2. /\ Len(search'.calls) = n - 1 /\ Depth' = 1..(n-1)
          /\ search'.visited = search.visited \cup {t}
      BY <1>5, <1>6, <1>8
    <3>3. \A i \in 1..(n-1) : LookedAtBy(i)'
      BY <3>1, <3>2 DEF LookedAtBy, Listed
    <3> QED
      BY <3>2, <3>3 DEF LookedAt
  <2>1. CallAt(i)' = CallAt(i) /\ (i < n - 1 => CallAt(i+1)' = CallAt(i+1))
    BY <1>3, <1>8
  <2>2. /\ Range(CallAt(i).left) \subseteq Listed(CallAt(i).id)
        /\ \A e \in Listed(CallAt(i).id) \cap InGraph :
             e \in Range(CallAt(i).left) \cup search.visited \/ e = CallAt(i+1).id
    BY <1>2, <1>3 DEF CycleInv, LookedAt, LookedAtBy
  <2> QED
    BY <1>3, <1>9, <2>1, <2>2
<1>12. VisitedIsClear'
  <2> SUFFICES ASSUME NEW S \in SUBSET Tasks, Endless(S)
               PROVE  S \cap (search.visited \cup {t}) = {}
    BY <1>2, <1>6, GraphStays DEF VisitedIsClear
  <2>1. S \cap search.visited = {}
    BY DEF CycleInv, VisitedIsClear
  <2>2. t \notin S
    BY <1>9, <2>1 DEF Endless
  <2> QED
    BY <2>1, <2>2
<1>13. VerdictsHold'
  <2>1. left = <<>> => search.root = t
    BY <1>2, <1>8, <1>9 DEF CycleInv, PathIsCalls
  <2> QED
    BY <1>6, <2>1 DEF VerdictsHold
<1> QED
  BY <1>7, <1>10, <1>11, <1>12, <1>13 DEF CycleInv

LEMMA CycleStep ==
  ASSUME CycleInv, [CycleNext]_cycleVars
  PROVE  CycleInv'
<1>1. CASE CycleNext
  BY <1>1, FindsCycleStep, PassesOverStep, GoesDeeperStep, GoesBackStep DEF CycleNext
<1>2. CASE UNCHANGED cycleVars
  <2>1. dependencies' = dependencies /\ search' = search
    BY <1>2 DEF cycleVars
  <2>2. CycleTypeOK'
    BY <2>1, GraphStays DEF CycleInv, CycleTypeOK
  <2>3. PathIsCalls'
    BY <2>1 DEF CycleInv, PathIsCalls, Listed, Depth, CallAt
  <2>4. LookedAt'
    BY <2>1 DEF CycleInv, LookedAt, LookedAtBy, InGraph, Listed, Depth, CallAt
  <2>5. VisitedIsClear' /\ VerdictsHold'
    BY <2>1, GraphStays DEF CycleInv, VisitedIsClear, VerdictsHold
  <2> QED
    BY <2>2, <2>3, <2>4, <2>5 DEF CycleInv
<1> QED
  BY <1>1, <1>2

\* The verdict of hasDependencyCycle is the one the definition gives, in every
\* graph: a cycle is found when one can be reached from the root, and only then.
THEOREM SearchIsRight == CycleSpec => []SearchFindsCycles
<1>1. CycleInv => SearchFindsCycles
  <2> SUFFICES ASSUME CycleInv, search.verdict # "searching"
               PROVE  search.verdict = "cycle" <=> HasDependencyCycle(Snapshot, search.root)
    BY DEF SearchFindsCycles
  <2>1. search.verdict \in {"cycle", "none"}
    BY DEF CycleInv, CycleTypeOK
  <2>2. HasDependencyCycle(Snapshot, search.root)
          <=> \E S \in SUBSET Tasks : search.root \in S /\ Endless(S)
    BY CycleIsEndless DEF CycleInv
  <2> QED
    BY <2>1, <2>2 DEF CycleInv, VerdictsHold, VisitedIsClear
<1> QED
  BY <1>1, CycleInitHolds, CycleStep, PTL DEF CycleSpec
=============================================================================
