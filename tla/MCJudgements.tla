---------------------------- MODULE MCJudgements ----------------------------
(* One instance for the lane loop and the judgements work is admitted by: the  *)
(* search for dependency cycles, the change contract, the gate command, the    *)
(* mutation probe, the lessons' proofs and recalls, check install and the plan *)
(* of a profile. A behaviour is of one of them, its subject; the variables of  *)
(* the others stay as they start.                                              *)
EXTENDS Frontier, CatalogPlan, DependencyCycle, ChangeContract, MutationProbe,
        GateCommand, Lessons, LessonRecall, InstallCheck, SequencesExt

VARIABLE subject

-----------------------------------------------------------------------------
(* The lane loop. *)

MCWorker == ("l1" :> "w1") @@ ("l2" :> "w2")

\* A lane task ready to be claimed, under this recipe.
ReadyLane(recipe) ==
  [NoTask EXCEPT !.status = "ready", !.laneRecipe = recipe, !.lane = TRUE]

Start(first, second) ==
  [EmptyState EXCEPT !.tasks = [EmptyState.tasks EXCEPT ![1] = first, ![2] = second],
                     !.version = 1, !.intents = ("i1" :> 1)]

\* Two loops and two tasks, while people push and merge lanes themselves.
Racing ==
  {[queue |-> Start(ReadyLane(a), ReadyLane(a)), recipes |-> {a}, given |-> 0,
    runners |-> {"l1", "l2"}, maxRuns |-> 1, commands |-> {"push", "integrate"}] :
     a \in Recipes}

\* One loop and one task, while its claim is taken over, released, reopened,
\* edited and claimed again, and its operations are applied by hand.
Reviving ==
  {[queue |-> Start(ReadyLane("moving"), NoTask), recipes |-> Recipes,
    given |-> 1, runners |-> {"l1"}, maxRuns |-> 2,
    commands |-> {"takeover", "reclaim", "release", "reopen", "ready", "edit",
                  "intent", "apply", "tick"}]}

MCScenarios == Racing \cup Reviving

MCOperations == {1, 2} \X (1..MaxEpoch)

FrontierIdle ==
  /\ hands = [queue |-> EmptyState, recipes |-> {}, given |-> 0, runners |-> {},
              maxRuns |-> 0, commands |-> {}]
  /\ queue = EmptyState /\ head = FirstCommit /\ clock = 0
  /\ lane = [r \in Runners |-> [Between(0) EXCEPT !.pc = "finished"]]
  /\ receipt = [o \in Operations |-> NoRecipe]

-----------------------------------------------------------------------------
(* Every graph of the first task and others, with at most five dependencies,   *)
(* two of one task, in every order; a task that is not there may be named.     *)

MCArrays == BoundedSeq(Tasks, 2)

MCSearches ==
  [dependencies :
     {g \in UNION {[known -> MCArrays] : known \in {S \in SUBSET Tasks : 1 \in S}} :
        MapThenSumSet(LAMBDA t : Len(g[t]), DOMAIN g) <= 5},
   root : {1}]

CycleIdle ==
  /\ dependencies = (1 :> <<>>)
  /\ search = [root |-> 1, path |-> {}, visited |-> {1}, calls |-> <<>>, verdict |-> "none"]

-----------------------------------------------------------------------------
(* Profiles: two families, one of them quarantined (its names start with q);   *)
(* the other has an owner `a', a rival `b' and a reviewed alias `c'. `g' is a   *)
(* global skill, `p' a project's copy of it.                                   *)

MCFamily  == [id \in {"a", "b", "c", "q"} |-> IF id = "q" THEN "quarantined" ELSE "family"]
MCCached  == [path \in {"b.md", "c.md", "q.md", "g.md", "p.md"} |->
                CASE path = "b.md" -> "b" [] path = "c.md" -> "c" [] path = "q.md" -> "q"
                  [] OTHER -> "none"]
MCAliases == [id \in {"a", "b", "c", "q"} |-> IF id = "a" THEN {"c"} ELSE {}]

AnyProfile ==
  [enable |-> {}, disable |-> {}, families |-> {}, pluginsOff |-> FALSE,
   mcps |-> [on |-> {}, off |-> {}], mcpsOff |-> FALSE, skillsOn |-> {},
   skillsOff |-> {}, familyOn |-> {}, familyOff |-> {}, skillsDefaultOff |-> FALSE]

AnyInventory == [plugins |-> {"a", "b", "c"}, skills |-> {"b.md", "g.md"},
                 admitted |-> {}, owning |-> {}, quarantine |-> {}]

NoProject == [paths |-> {}, marked |-> {}, equal |-> {}]

Block(id, is) == [id |-> id, is |-> is]

SkillBlock(path, is) == [path |-> path, detour |-> FALSE, is |-> is, owned |-> FALSE]

Around(block) == [block EXCEPT !.detour = TRUE]
Written(block) == [block EXCEPT !.owned = TRUE]

AnyConfig == [plugins |-> {Block("a", "off"), Block("b", "unset"), Block("q", "on")},
              mcps    |-> {Block("m", "on"), Block("mq", "unset")},
              skills  |-> {Around(SkillBlock("g.md", "on")), SkillBlock("q.md", "unset")}]

\* Which plugins a profile enables, by name or by family.
PluginCases ==
  [config : {[AnyConfig EXCEPT !.plugins = x \cup y \cup z] :
       x \in {{}, {Block("a", "off")}, {Block("a", "odd")}},
       y \in {{}, {Block("b", "unset")}, {Block("b", "on"), Block("b", "off")}},
       z \in {{}, {Block("q", "on")}, {Block("c", "on")}}},
   profile : {[AnyProfile EXCEPT !.enable = e, !.disable = d, !.families = f,
                                 !.pluginsOff = o] :
       e \in SUBSET {"a", "family", "q"}, d \in SUBSET {"b", "c"},
       f \in SUBSET {"family"}, o \in BOOLEAN},
   inventory : {AnyInventory,
                [AnyInventory EXCEPT !.plugins = {"a", "b", "q"}, !.quarantine = {"q", "q.md"}]},
   applied : {FALSE}, project : {NoProject}]

\* Which skills, of the plugins and others.
SkillCases ==
  [config : {[AnyConfig EXCEPT !.skills = x \cup y \cup z] :
       x \in {{}, {SkillBlock("g.md", "on")},
              {Around(SkillBlock("g.md", "off")), SkillBlock("g.md", "off")}},
       y \in {{}, {SkillBlock("b.md", "unset")}, {SkillBlock("b.md", "odd")}},
       z \in {{}, {SkillBlock("c.md", "off")}, {SkillBlock("q.md", "on")}}},
   profile : {[AnyProfile EXCEPT !.enable = e, !.skillsOn = on, !.skillsOff = off,
                                 !.familyOn = g, !.skillsDefaultOff = o] :
       e \in {{}, {"a"}, {"b"}}, on \in SUBSET {"g.md", "b.md"},
       off \in SUBSET {"g.md"}, g \in SUBSET {"g.md"}, o \in BOOLEAN},
   inventory : {[AnyInventory EXCEPT !.skills = {"g.md", "b.md", "c.md"},
                                     !.admitted = x, !.owning = x \cap y] :
       x, y \in SUBSET {"g.md"}},
   applied : {FALSE}, project : {NoProject}]

ServerCases ==
  [config : {[AnyConfig EXCEPT !.mcps = x \cup y] :
       x \in {{}, {Block("m", "off")}, {Block("m", "odd")},
              {Block("m", "on"), Block("m", "off")}},
       y \in {{}, {Block("mq", "on")}, {Block("mq", "unset")}}},
   profile : {[AnyProfile EXCEPT !.mcps = [on |-> on, off |-> off], !.mcpsOff = o] :
       on, off \in SUBSET {"m", "mq"}, o \in BOOLEAN},
   inventory : {AnyInventory}, applied : {FALSE}, project : {NoProject}]

\* A project's copy, equivalent to the global skill or not.
ProjectCases ==
  [config : {[AnyConfig EXCEPT !.skills = x \cup y] :
       x \in {{}, {SkillBlock("p.md", "on")}, {Written(SkillBlock("p.md", "off"))},
              {Written(SkillBlock("p.md", "on"))}, {Around(Written(SkillBlock("p.md", "on")))}},
       y \in {{}, {SkillBlock("g.md", "off")}, {Around(SkillBlock("g.md", "unset"))}}},
   profile : {[AnyProfile EXCEPT !.skillsOn = on, !.skillsOff = off] :
       on, off \in SUBSET {"g.md", "p.md"}},
   inventory : {AnyInventory},
   project : {[paths |-> {"p.md"}, marked |-> x, equal |-> y] :
       x \in SUBSET {"p.md"}, y \in SUBSET {<<"p.md", "g.md">>}},
   applied : {FALSE}]

MCCatalogCases == PluginCases \cup SkillCases \cup ServerCases \cup ProjectCases

CatalogIdle == catalog = [config |-> AnyConfig, profile |-> AnyProfile,
                          inventory |-> AnyInventory, project |-> NoProject,
                          applied |-> FALSE]

-----------------------------------------------------------------------------
(* Ranges of up to two commits. *)

MCSources == {{}, {"a"}, {"a", "b"}}

TestFile(cases, needs) == [cases |-> cases, needs |-> needs]

MCTestFiles == {NoTest, TestFile({"a"}, {}), TestFile({"a", "b"}, {"a"})}

MCScripts == {[base |-> "test", now |-> "test"], [base |-> "none", now |-> "test"],
              [base |-> "test", now |-> "glob"]}

Says(ref, before, after, risk) ==
  [ref |-> ref, before |-> before, after |-> after, risk |-> risk]

MCDeclarations ==
  {{}, {Says("test", "red", "green", FALSE)}, {Says("test", "green", "green", FALSE)},
   {Says("test", "green", "green", TRUE), Says("script", "red", "green", FALSE)},
   {Says("script", "green", "red", FALSE)}}

ContractIdle ==
  /\ range = [commits |-> <<[source |-> {}, test |-> NoTest, files |-> {}, says |-> {}]>>,
              script |-> [base |-> "test", now |-> "test"]]
  /\ judged = {"unjudged"}

-----------------------------------------------------------------------------
(* Three mutations; the first and the third have the same selection. *)

MCMutations == <<"m1", "m2", "m3">>

MCFocusOf == [m \in {"m1", "m2", "m3"} |-> IF m = "m2" THEN {"c1", "c2"} ELSE {"c1"}]

MCFaults == [base : SUBSET {"c1", "c2"}, unanchored : SUBSET {"m2"},
             by : [{"m1", "m2", "m3"} -> SUBSET {"c1", "c2"}]]

NoFault == [base |-> {}, unanchored |-> {}, by |-> [m \in {"m1", "m2", "m3"} |-> {}]]

ProbeIdle ==
  /\ fault = NoFault /\ tree = {} /\ baselines = {}
  /\ probe = [number |-> 1, at |-> "baseline", original |-> {}]
  /\ verdicts = [m \in {"m1", "m2", "m3"} |-> "none"]

-----------------------------------------------------------------------------

GateIdle ==
  /\ does = [c \in GateCommits |-> "pass"]
  /\ checkout = [head |-> "c1", edits |-> "clean"]
  /\ gate = [pc |-> "start", back |-> FALSE, fixed |-> NoCommit, base |-> NoCommit]
  /\ moves = 0

-----------------------------------------------------------------------------
(* One lesson with a gate file. *)

MCTestOf  == [lesson \in {"lesson"} |-> "test"]
MCGatesOf == [lesson \in {"lesson"} |-> {"gate"}]

LessonIdle ==
  /\ commits = <<[parent |-> 0, changes |-> {}, files |-> {}, green |-> {}]>>
  /\ tip = 1 /\ clean = TRUE /\ anew = Idle
  /\ recent = [lesson \in Lessons |-> [anchor |-> 1, seen |-> {1}]]

-----------------------------------------------------------------------------
(* Histories of three commits. The second one seals the first, whose runtime is *)
(* its own; in the other one a squashed commit has been sealed; and the ledger  *)
(* comes or breaks late.                                                        *)

NoLedger == [state |-> "none"]

Listing(key, digest) ==
  [state |-> "read",
   entries |-> [k \in Harness \cup {Unrelated} |-> IF k = key THEN digest ELSE NoDigest]]

MCHistories ==
  {[digest |-> <<"d1", "d1", "d2">>,
    ledger |-> <<Listing(1, NoDigest), Listing(1, "d1"), Listing(1, "d1")>>],
   [digest |-> <<"d1", "d2", "d2">>,
    ledger |-> <<NoLedger, Listing(Unrelated, "d2"), [state |-> "torn"]>>]}

MCRequirements ==
  {[state |-> "unreadable", lines |-> {}],
   [state |-> "read", lines |-> {<<"features", "hooks", "true">>, <<"other", "hooks", "false">>}]}
     \cup {[state |-> "read", lines |-> {line}] : line \in Inert}

MCCheckStarts == {[selected |-> Elsewhere, spelling |-> "new"],
                  [selected |-> 1, spelling |-> "new"], [selected |-> 1, spelling |-> "old"]}

CheckIdle ==
  /\ CheckInit /\ selected = Elsewhere /\ checkedOut = 1
  /\ harness = CHOOSE past \in Histories : TRUE

-----------------------------------------------------------------------------
(* Ranges of up to two commits against a page of two lessons. *)

Path(file)     == [kind |-> "path", at |-> file]
ExportOf(name) == [kind |-> "symbol", at |-> name]

Row(gates, trigger, is, by) ==
  [gates |-> gates, falsifier |-> "proof", trigger |-> trigger,
   status |-> [is |-> is, by |-> by]]

FirstRow  == Row({"gate"}, {Path("a"), ExportOf("s")}, "active", "none")
SecondRow == Row({"audit"}, {Path("a"), [kind |-> "churn", at |-> "b"]}, "active", "none")

Page(first, second) == [there |-> TRUE, malformed |-> FALSE,
                        rows |-> ("first" :> first) @@ ("second" :> second)]

MCFirstPages == {Page(FirstRow, SecondRow)}

\* The lessons as they are, one of them dropped, its trigger withdrawn in part,
\* the row retired in each of the ways there are, and the page gone or broken.
MCPages ==
  MCFirstPages
    \cup {Page(NoRow, SecondRow), Page([FirstRow EXCEPT !.trigger = {Path("a")}], SecondRow),
          Page([FirstRow EXCEPT !.gates = {"lost"}], SecondRow),
          Page([FirstRow EXCEPT !.status = [is |-> "retired", by |-> "none"]], SecondRow),
          [Page(FirstRow, SecondRow) EXCEPT !.malformed = TRUE],
          [Page(NoRow, NoRow) EXCEPT !.there = FALSE]}
    \cup {Page(Row({g}, {}, is[1], is[2]), SecondRow) :
            g \in {"gate", "lost"},
            is \in {<<"retired", "none">>, <<"superseded", "second">>, <<"enforced", "gate">>}}

Change(files, symbols, hot) == [files |-> files, symbols |-> symbols, hot |-> hot]

MCDiffs == {Change({"a"}, {}, {}), Change({"b"}, {"s"}, {"b"}), Change({}, {}, {})}

Line(left, right) == [left |-> left, right |-> right]

Message(lines, tests, changes) == [lines |-> lines, tests |-> tests, changes |-> changes]

\* Recalls by gate and by falsifier, waivers for a reason of each kind, and the
\* declarations that go with them.
MCMessages ==
  {Message(lines, {"proof"}, {}) :
     lines \in {{}, {Line("gate", "a"), Line("audit", "a"), Line("proof", "s")},
                {Line("none", "first"), Line("audit", "a")}, {Line("none", "ticket")}}}
    \cup {Message({Line("none", "a")}, {}, {}), Message({Line("none", "nothing")}, {}, {}),
          Message({Line("gate", "a"), Line("proof", "s")}, {"flaky"}, {}),
          Message({Line("none", "a")}, {}, {"first"})}

MCDeclaredIn == [s \in {"s"} |-> {"b"}]
MCTicketScopes == [ticket \in {"ticket"} |-> {"b"}]

RecallIdle ==
  /\ recallMode = "obligation"
  /\ \E page \in FirstPages : span = <<[page |-> page]>>

-----------------------------------------------------------------------------

Init ==
  \/ /\ subject = "frontier" /\ FrontierInit /\ CheckIdle /\ RecallIdle
     /\ CatalogIdle /\ CycleIdle /\ ContractIdle /\ ProbeIdle /\ GateIdle /\ LessonIdle
  \/ /\ FrontierIdle /\ CheckIdle /\ RecallIdle
     /\ \/ /\ subject = "cycle" /\ CycleInit
           /\ CatalogIdle /\ ContractIdle /\ ProbeIdle /\ GateIdle /\ LessonIdle
        \/ /\ subject = "catalog" /\ CatalogInit /\ CycleIdle
           /\ ContractIdle /\ ProbeIdle /\ GateIdle /\ LessonIdle
        \/ /\ subject = "contract" /\ ContractInit /\ CycleIdle
           /\ CatalogIdle /\ ProbeIdle /\ GateIdle /\ LessonIdle
        \/ /\ subject = "probe" /\ ProbeInit /\ CycleIdle
           /\ CatalogIdle /\ ContractIdle /\ GateIdle /\ LessonIdle
        \/ /\ subject = "gate" /\ GateInit /\ CycleIdle
           /\ CatalogIdle /\ ContractIdle /\ ProbeIdle /\ LessonIdle
        \/ /\ subject = "lessons" /\ LessonInit /\ CycleIdle
           /\ CatalogIdle /\ ContractIdle /\ ProbeIdle /\ GateIdle
  \/ /\ subject = "check" /\ CheckInit /\ FrontierIdle /\ RecallIdle
     /\ CatalogIdle /\ CycleIdle /\ ContractIdle /\ ProbeIdle /\ GateIdle /\ LessonIdle
  \/ /\ subject = "recall" /\ RecallInit /\ FrontierIdle /\ CheckIdle
     /\ CatalogIdle /\ CycleIdle /\ ContractIdle /\ ProbeIdle /\ GateIdle /\ LessonIdle

Next ==
  /\ UNCHANGED subject
  /\ \/ /\ subject = "frontier" /\ FrontierNext
        /\ UNCHANGED <<catalog, cycleVars, contractVars, probeVars, gateVars, lessonVars, recallVars, checkVars>>
     \/ /\ subject = "catalog" /\ ApplyProfile
        /\ UNCHANGED <<frontierVars, cycleVars, contractVars, probeVars, gateVars, lessonVars, recallVars, checkVars>>
     \/ /\ subject = "cycle" /\ CycleNext
        /\ UNCHANGED <<frontierVars, catalog, contractVars, probeVars, gateVars, lessonVars, recallVars, checkVars>>
     \/ /\ subject = "contract" /\ ContractNext
        /\ UNCHANGED <<frontierVars, catalog, cycleVars, probeVars, gateVars, lessonVars, recallVars, checkVars>>
     \/ /\ subject = "probe" /\ ProbeNext
        /\ UNCHANGED <<frontierVars, catalog, cycleVars, contractVars, gateVars, lessonVars, recallVars, checkVars>>
     \/ /\ subject = "gate" /\ GateNext
        /\ UNCHANGED <<frontierVars, catalog, cycleVars, contractVars, probeVars, lessonVars, recallVars, checkVars>>
     \/ /\ subject = "lessons" /\ LessonNext
        /\ UNCHANGED <<frontierVars, catalog, cycleVars, contractVars, probeVars, gateVars, recallVars, checkVars>>
     \/ /\ subject = "check" /\ CheckNext
        /\ UNCHANGED <<frontierVars, catalog, cycleVars, contractVars, probeVars, gateVars, lessonVars, recallVars>>
     \/ /\ subject = "recall" /\ CommitLesson
        /\ UNCHANGED <<frontierVars, catalog, cycleVars, contractVars, probeVars, gateVars, lessonVars, checkVars>>
=============================================================================
