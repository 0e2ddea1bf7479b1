---------------------------- MODULE SetupWorkflow ----------------------------
(***************************************************************************)
(* `krn repo apply' (.agents/skills/setup-repository-workflow/scripts/     *)
(* init-repository-workflow.mjs): gives a repository its instruction file  *)
(* with a managed block, a lessons page, an ignored runs directory and,    *)
(* for the local tracker, an empty selected queue.                         *)
(*                                                                         *)
(* The checks come first and the writes later; the files are not locked.   *)
(* A setup may die anywhere and be run again.                              *)
(***************************************************************************)
EXTENDS Naturals, FiniteSets

CONSTANTS
  Setups,       \* running `krn repo apply' processes
  Sentences,    \* what people write into AGENTS.md
  Template,     \* what the bootstrapped AGENTS.md says
  SetupStarts,  \* the tracker each setup is run for; do they run at once; the
                \* changes made by hand
  NoSetup

Trackers == {"none", "local"}

ASSUME SetupAssumption ==
  SetupStarts \subseteq
    [tracker : [Setups -> Trackers], together : BOOLEAN, changes : Nat]

VARIABLES
  agents,       \* AGENTS.md
  lessons,      \* docs/research/workflow-lessons.md
  ignore,       \* .krn/runs/.gitignore
  excluded,     \* is .krn/migrations/ in the git exclude file?
  tickets,      \* is there Markdown queue material?
  archive,      \* .krn/migrations/setup-empty.json
  localQueue,   \* the Git-ref queue
  guard,        \* who holds the queue write guard
  setup,        \* what each setup is doing
  said,         \* what people wrote: words in AGENTS.md, and a lessons page
  setupStart    \* this behaviour's start, with the changes left

setupVars == <<agents, lessons, ignore, excluded, tickets, archive, localQueue,
               guard, setup, said, setupStart>>

repoVars == <<lessons, ignore, excluded, tickets, archive, localQueue, guard, said>>

\* The words around the managed block, how its markers are, and what it says.
\* A file that is being written, or whose writer died, is cut.
AgentsFiles ==
  [there : BOOLEAN, words : SUBSET (Sentences \cup {Template}), cut : BOOLEAN,
   marks : {"none", "one", "bad"}, block : Trackers \cup {"nothing"}]

NoAgents == [there |-> FALSE, words |-> {}, cut |-> FALSE, marks |-> "none",
             block |-> "nothing"]

SetupAt(s, pc) == setup[s].pc = pc

SetupGoes(s, pc) == setup' = [setup EXCEPT ![s].pc = pc]

Local(s) == setupStart.tracker[s] = "local"

\* Has a setup read the instruction file and not written it yet?
Editing(s) == setup[s].pc \in {"read", "migrate", "archive", "filling", "store",
                              "write", "cut"}

-----------------------------------------------------------------------------
(* Checks. *)

\* A .gitignore of somebody else refuses.
CheckManaged(s) ==
  /\ SetupAt(s, "start")
  /\ setupStart.together \/ \A t \in Setups : setup[t].pc \in {"start", "done", "failed", "dead"}
  /\ SetupGoes(s, IF ignore = "foreign" THEN "failed"
             ELSE IF Local(s) THEN "queue" ELSE "agents")
  /\ UNCHANGED <<agents, repoVars, setupStart>>

\* assertLocalQueueSafe: an invalid or unselected queue, or Markdown material.
CheckQueue(s) ==
  /\ SetupAt(s, "queue")
  /\ setup' = [setup EXCEPT
       ![s].pc = IF localQueue \in {"invalid", "unselected"} \/ tickets
                 THEN "failed" ELSE "agents",
       ![s].selected = localQueue = "selected"]
  /\ UNCHANGED <<agents, repoVars, setupStart>>

-----------------------------------------------------------------------------
(* Bootstraps, each an exclusive creation. *)

BootstrapAgents(s) ==
  /\ SetupAt(s, "agents")
  /\ agents' = IF agents.there THEN agents
               ELSE [NoAgents EXCEPT !.there = TRUE, !.words = {Template}]
  /\ SetupGoes(s, "lessons")
  /\ UNCHANGED <<repoVars, setupStart>>

BootstrapLessons(s) ==
  /\ SetupAt(s, "lessons")
  /\ lessons' = IF lessons = "missing" THEN "seeded" ELSE lessons
  /\ SetupGoes(s, "open")
  /\ UNCHANGED <<agents, ignore, excluded, tickets, archive, localQueue, guard, said, setupStart>>

-----------------------------------------------------------------------------
(* The instruction file is read here and written at the end. *)

\* Slip: what is around the block is not carried over.
Replaced_BlockOnly(s, text) ==
  [text EXCEPT !.marks = "one", !.block = setupStart.tracker[s],
               !.words = IF text.marks = "one" THEN {} ELSE @]

\* The block takes the place of the one that is there, or is added at the end.
Replaced(s, text) ==
  [text EXCEPT !.marks = "one", !.block = setupStart.tracker[s]]

\* Incomplete, reversed or doubled markers refuse.
ReadInstruction(s) ==
  /\ SetupAt(s, "open")
  /\ setup' = IF ~agents.there \/ agents.marks = "bad"
              THEN [setup EXCEPT ![s].pc = "failed"]
              ELSE [setup EXCEPT ![s].pc = IF Local(s) THEN "read" ELSE "write",
                                 ![s].text = Replaced(s, [agents EXCEPT !.cut = FALSE])]
  /\ UNCHANGED <<agents, repoVars, setupStart>>

-----------------------------------------------------------------------------
(* initializeLocalQueue.  The import itself, and its guard, is                *)
(* QueueWriteLock's; here it takes the guard, archives nothing, and selects   *)
(* the new empty queue.                                                       *)

Exclude(s) ==
  /\ SetupAt(s, "read")
  /\ excluded' = TRUE
  /\ SetupGoes(s, IF setup[s].selected THEN "write" ELSE "migrate")
  /\ UNCHANGED <<agents, lessons, ignore, tickets, archive, localQueue, guard, said, setupStart>>

\* Slip: a guard somebody holds is taken as a sign that the queue is there.
Migrate_Presuming(s) ==
  /\ SetupAt(s, "migrate")
  /\ IF guard = NoSetup /\ localQueue \notin {"invalid", "unselected", "selected"} /\ ~tickets
     THEN guard' = s /\ SetupGoes(s, "archive")
     ELSE SetupGoes(s, "write") /\ UNCHANGED guard
  /\ UNCHANGED <<agents, lessons, ignore, excluded, tickets, archive, localQueue, said, setupStart>>

\* Everything is looked at again under the guard.
Migrate(s) ==
  /\ SetupAt(s, "migrate")
  /\ IF guard # NoSetup \/ localQueue \in {"invalid", "unselected"}
          \/ (localQueue = "none" /\ tickets)
     THEN SetupGoes(s, "failed") /\ UNCHANGED guard
     ELSE IF localQueue = "selected" THEN SetupGoes(s, "write") /\ UNCHANGED guard
     ELSE guard' = s /\ SetupGoes(s, "archive")
  /\ UNCHANGED <<agents, lessons, ignore, excluded, tickets, archive, localQueue, said, setupStart>>

\* An archive with the same bytes will do and another one refuses; a new one is
\* created exclusively and filled in place.
Archive(s) ==
  /\ SetupAt(s, "archive")
  /\ archive' = IF archive = "none" THEN "partial" ELSE archive
  /\ guard' = IF archive = "partial" THEN NoSetup ELSE guard
  /\ SetupGoes(s, CASE archive = "none"    -> "filling"
               [] archive = "whole"   -> "store"
               [] archive = "partial" -> "failed")
  /\ UNCHANGED <<agents, lessons, ignore, excluded, tickets, localQueue, said, setupStart>>

FillArchive(s) ==
  /\ SetupAt(s, "filling")
  /\ archive' = "whole"
  /\ SetupGoes(s, "store")
  /\ UNCHANGED <<agents, lessons, ignore, excluded, tickets, localQueue, guard, said, setupStart>>

\* One transaction creates the queue and selects it.
SelectQueue(s) ==
  /\ SetupAt(s, "store")
  /\ localQueue' = "selected"
  /\ guard' = NoSetup
  /\ SetupGoes(s, "write")
  /\ UNCHANGED <<agents, lessons, ignore, excluded, tickets, archive, said, setupStart>>

-----------------------------------------------------------------------------
(* Writing. *)

\* writeFileSync truncates the file and then writes it.
Truncate(s) ==
  /\ SetupAt(s, "write")
  /\ agents' = [NoAgents EXCEPT !.there = TRUE, !.cut = TRUE]
  /\ SetupGoes(s, "cut")
  /\ UNCHANGED <<repoVars, setupStart>>

WriteInstruction(s) ==
  /\ SetupAt(s, "cut")
  /\ agents' = setup[s].text
  /\ SetupGoes(s, "managed")
  /\ UNCHANGED <<repoVars, setupStart>>

WriteManaged(s) ==
  /\ SetupAt(s, "managed")
  /\ ignore' = "owned"
  /\ SetupGoes(s, "done")
  /\ UNCHANGED <<agents, lessons, excluded, tickets, archive, localQueue, guard, said, setupStart>>

\* A process that ends gives up the guard, or leaves one that is dead.  The
\* words are gone when the file was truncated.
SetupDies(s) ==
  /\ setup[s].pc \notin {"start", "done", "failed", "dead"}
  /\ SetupGoes(s, "dead")
  /\ said' = IF SetupAt(s, "cut") THEN [said EXCEPT !.words = {}] ELSE said
  /\ guard' = IF guard = s THEN NoSetup ELSE guard
  /\ UNCHANGED <<agents, lessons, ignore, excluded, tickets, archive, localQueue, setupStart>>

-----------------------------------------------------------------------------
(* Hands. *)

ByHand ==
  /\ setupStart.changes > 0
  /\ setupStart' = [setupStart EXCEPT !.changes = @ - 1]
  /\ UNCHANGED <<excluded, archive, guard, setup>>

\* Words are added, and markers broken, while no setup holds what it read.
EditAgents ==
  /\ ByHand
  /\ \A s \in Setups : ~Editing(s)
  /\ agents.there
  /\ \/ \E w \in Sentences :
          /\ agents' = [agents EXCEPT !.words = @ \cup {w}]
          /\ said' = [said EXCEPT !.words = @ \cup {w}]
     \/ agents' = [agents EXCEPT !.marks = "bad"] /\ UNCHANGED said
  /\ UNCHANGED <<lessons, ignore, tickets, localQueue>>

\* Somebody writes lessons, Markdown tasks, a queue that is not selected yet or
\* is not valid, or, while no setup has looked, a .gitignore.
ChangeRepository ==
  /\ ByHand
  /\ \/ /\ lessons' = "written"
        /\ said' = [said EXCEPT !.lessons = TRUE]
        /\ UNCHANGED <<ignore, tickets, localQueue>>
     \/ tickets' = TRUE /\ UNCHANGED <<lessons, ignore, localQueue, said>>
     \/ /\ localQueue = "none"
        /\ localQueue' = "unselected" /\ UNCHANGED <<lessons, ignore, tickets, said>>
     \/ /\ ignore # "owned"
        /\ \A s \in Setups : setup[s].pc \in {"start", "done", "failed", "dead"}
        /\ ignore' = "foreign" /\ UNCHANGED <<lessons, tickets, localQueue, said>>
  /\ UNCHANGED agents

-----------------------------------------------------------------------------
SetupInit ==
  /\ agents \in {NoAgents,
                 [NoAgents EXCEPT !.there = TRUE, !.words = Sentences]}
  /\ lessons = "missing"
  /\ ignore = "missing"
  /\ excluded = FALSE
  /\ tickets = FALSE
  /\ archive = "none"
  /\ localQueue = "none"
  /\ guard = NoSetup
  /\ setup = [s \in Setups |-> [pc |-> "start", text |-> NoAgents, selected |-> FALSE]]
  /\ said = [words |-> agents.words, lessons |-> FALSE]
  /\ setupStart \in SetupStarts

SetupNext ==
  \/ \E s \in Setups :
       \/ CheckManaged(s) \/ CheckQueue(s) \/ BootstrapAgents(s)
       \/ BootstrapLessons(s) \/ ReadInstruction(s) \/ Exclude(s) \/ Migrate(s)
       \/ Archive(s) \/ FillArchive(s) \/ SelectQueue(s) \/ Truncate(s)
       \/ WriteInstruction(s) \/ WriteManaged(s) \/ SetupDies(s)
  \/ EditAgents \/ ChangeRepository

SetupSpec == SetupInit /\ [][SetupNext]_setupVars

-----------------------------------------------------------------------------
(* Properties. *)

\* Instructions that send an agent to the local queue are never there without
\* that queue, selected, and its archive kept out of git, wherever a setup
\* dies and whatever other setups and people do in between.
QueueBehindBlock ==
  agents.block = "local" => localQueue = "selected" /\ excluded

\* Setups run one after the other keep every word people wrote around the block
\* and the lessons they wrote, whatever dies; but for a setup that dies while it
\* writes the instruction file.
WordsKept ==
  /\ ~setupStart.together /\ ~agents.cut => said.words \subseteq agents.words
  /\ said.lessons => lessons = "written"

\* A setup takes nothing that people wrote, and promises no queue that is not
\* there.
SetupKeepsFaith == QueueBehindBlock /\ WordsKept
=============================================================================
