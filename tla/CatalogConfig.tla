---------------------------- MODULE CatalogConfig ----------------------------
(***************************************************************************)
(* applyCatalogConfigPlan (scripts/lib/catalog/catalog-config.mjs): a plan *)
(* made from the text of the Codex configuration replaces that text, while *)
(* Codex and editors write the file too and other applies run.             *)
(*                                                                         *)
(* Nothing is locked.  A read looks at the file's identity, opens it, and  *)
(* looks at its identity again; an apply reads three times, and compares   *)
(* identity and text with its plan.  What the plan says is CatalogPlan's.  *)
(***************************************************************************)
EXTENDS Naturals, Sequences

CONSTANTS
  Appliers,     \* running `krn catalog apply' processes
  ConfigTexts,
  PlanOf,       \* ConfigTexts -> ConfigTexts: what a profile makes of a text
  ConfigStarts, \* the applies that run and the writes of other programs
  MaxFiles,     \* bound: files that were ever at the path
  NoText

ASSUME ConfigAssumption == PlanOf \in [ConfigTexts -> ConfigTexts]

VARIABLES
  path,         \* what is at the path: a file's number, or 0 for no regular file
  files,        \* each file there has been: its text, and the apply it is of
  copies,       \* the texts in backup files
  applier,      \* what each apply is doing
  writes        \* writes other programs still make

configVars == <<path, files, copies, applier, writes>>

ApplierAt(a, pc) == applier[a].pc = pc

Applies(a, next) == applier' = [applier EXCEPT ![a] = next]

\* Which read an apply is in: it loads the plan, starts, has a temporary file,
\* has a backup.
Reads == {"load", "first", "temp", "backup"}

NewApplier == [pc |-> "load", look |-> "before", seen |-> 0, opened |-> 0,
               identity |-> 0, read |-> NoText, original |-> NoText,
               backup |-> NoText]

\* The error path: the temporary file and the backup are removed.
ApplyFails(a, held) ==
  /\ Applies(a, [NewApplier EXCEPT !.pc = "failed"])
  /\ copies' = copies \ {<<a, held>>}

-----------------------------------------------------------------------------
(* readRegularConfig. *)

\* A link, something else than a file, or another file than the first read's.
LooksWrong(a, expected) == path = 0 \/ (expected # 0 /\ path # expected)

LookBefore(a) ==
  /\ applier[a].pc \in Reads /\ applier[a].look = "before"
  /\ IF LooksWrong(a, applier[a].identity)
     THEN ApplyFails(a, applier[a].backup)
     ELSE /\ Applies(a, [applier[a] EXCEPT !.look = "open", !.seen = path])
          /\ UNCHANGED copies
  /\ UNCHANGED <<path, files, writes>>

\* O_NOFOLLOW refuses a link; the file opened must be the one looked at.
OpenAndRead(a) ==
  /\ applier[a].pc \in Reads /\ applier[a].look = "open"
  /\ IF LooksWrong(a, applier[a].seen)
     THEN ApplyFails(a, applier[a].backup)
     ELSE /\ Applies(a, [applier[a] EXCEPT !.look = "after", !.opened = path,
                                           !.read = files[path].text])
          /\ UNCHANGED copies
  /\ UNCHANGED <<path, files, writes>>

\* Slip: the look after the read is left out.
LookAfter_Skipped(a) ==
  /\ applier[a].pc \in Reads /\ applier[a].look = "after"
  /\ Applies(a, [applier[a] EXCEPT !.look = "compare"])
  /\ UNCHANGED <<path, files, copies, writes>>

LookAfter(a) ==
  /\ applier[a].pc \in Reads /\ applier[a].look = "after"
  /\ IF LooksWrong(a, applier[a].opened)
     THEN ApplyFails(a, applier[a].backup)
     ELSE /\ Applies(a, [applier[a] EXCEPT !.look = "compare"])
          /\ UNCHANGED copies
  /\ UNCHANGED <<path, files, writes>>

-----------------------------------------------------------------------------
(* applyCatalogConfigPlan. *)

\* loadCatalogConfigPlan: the plan is made from what was read.
Plan(a) ==
  /\ ApplierAt(a, "load") /\ applier[a].look = "compare"
  /\ Applies(a, [applier[a] EXCEPT !.pc = "first", !.look = "before",
                                   !.original = applier[a].read])
  /\ UNCHANGED <<path, files, copies, writes>>

AsPlanned(a) == applier[a].read = applier[a].original

\* The first read must find the text of the plan; the temporary file is written.
WritePlanned(a) ==
  /\ ApplierAt(a, "first") /\ applier[a].look = "compare"
  /\ IF ~AsPlanned(a)
     THEN ApplyFails(a, NoText)
     ELSE /\ Applies(a,
               IF PlanOf[applier[a].original] = applier[a].original
               THEN [NewApplier EXCEPT !.pc = "done"]
               ELSE [applier[a] EXCEPT !.pc = "temp", !.look = "before",
                                       !.identity = applier[a].opened])
          /\ UNCHANGED copies
  /\ UNCHANGED <<path, files, writes>>

WriteBackup(a) ==
  /\ ApplierAt(a, "temp") /\ applier[a].look = "compare"
  /\ IF ~AsPlanned(a)
     THEN ApplyFails(a, NoText)
     ELSE /\ copies' = copies \cup {<<a, applier[a].original>>}
          /\ Applies(a, [applier[a] EXCEPT !.pc = "backup", !.look = "before",
                                           !.backup = applier[a].original])
  /\ UNCHANGED <<path, files, writes>>

LastCompare(a) ==
  /\ ApplierAt(a, "backup") /\ applier[a].look = "compare"
  /\ IF ~AsPlanned(a)
     THEN ApplyFails(a, applier[a].backup)
     ELSE /\ Applies(a, [applier[a] EXCEPT !.pc = "rename"])
          /\ UNCHANGED copies
  /\ UNCHANGED <<path, files, writes>>

\* A new file is at the path.
PlaceText(text, by) ==
  /\ Len(files) < MaxFiles
  /\ files' = Append(files, [text |-> text, by |-> by])
  /\ path' = Len(files) + 1

Rename(a) ==
  /\ ApplierAt(a, "rename")
  /\ PlaceText(PlanOf[applier[a].original], a)
  /\ Applies(a, [NewApplier EXCEPT !.pc = "done"])
  /\ UNCHANGED <<copies, writes>>

\* A call fails on the way.
CallFails(a) ==
  /\ applier[a].pc \in {"first", "temp", "backup", "rename"}
  /\ ApplyFails(a, applier[a].backup)
  /\ UNCHANGED <<path, files, writes>>

\* The process is killed: the temporary file and the backup stay.
ApplyDies(a) ==
  /\ applier[a].pc \in {"first", "temp", "backup", "rename"}
  /\ Applies(a, [NewApplier EXCEPT !.pc = "dead"])
  /\ UNCHANGED <<path, files, copies, writes>>

-----------------------------------------------------------------------------
(* Other programs. *)

\* An apply has read for the last time, or looked at the file's identity for the
\* last time, and has not replaced it yet.  Nobody writes in place, or puts
\* another file there, then: that is the one window the protocol leaves open.
HasRead(a) ==
  \/ ApplierAt(a, "rename")
  \/ ApplierAt(a, "backup") /\ applier[a].look \in {"after", "compare"}

HasLooked(a) ==
  \/ ApplierAt(a, "rename")
  \/ ApplierAt(a, "backup") /\ applier[a].look = "compare"

WriteInPlace ==
  /\ path # 0
  /\ ~\E a \in Appliers : HasRead(a)
  /\ \E text \in ConfigTexts : files' = [files EXCEPT ![path].text = text]
  /\ UNCHANGED path

\* By a rename over the file, or with a link.
Replace ==
  /\ ~\E a \in Appliers : HasLooked(a)
  /\ \/ \E text \in ConfigTexts : PlaceText(text, NoText)
     \/ path' = 0 /\ UNCHANGED files

OtherWrites ==
  /\ writes > 0
  /\ writes' = writes - 1
  /\ WriteInPlace \/ Replace
  /\ UNCHANGED <<copies, applier>>

-----------------------------------------------------------------------------
ConfigInit ==
  /\ \E text \in ConfigTexts : files = <<[text |-> text, by |-> NoText]>>
  /\ path = 1
  /\ copies = {}
  /\ \E start \in ConfigStarts :
       /\ applier = [a \in Appliers |->
                       IF a \in start.running THEN NewApplier
                       ELSE [NewApplier EXCEPT !.pc = "done"]]
       /\ writes = start.writes

ConfigNext ==
  \/ \E a \in Appliers :
       \/ LookBefore(a) \/ OpenAndRead(a) \/ LookAfter(a) \/ Plan(a)
       \/ WritePlanned(a) \/ WriteBackup(a) \/ LastCompare(a) \/ Rename(a)
       \/ CallFails(a) \/ ApplyDies(a)
  \/ OtherWrites

ConfigSpec == ConfigInit /\ [][ConfigNext]_configVars

-----------------------------------------------------------------------------
(* Properties. *)

\* An apply replaces only the text its plan was made from, in the file it first
\* read it in, with that text in a backup; unless the file that is there by then
\* is another apply's, renamed after this one had looked for the last time.
OnlyThePlannedReplaced ==
  [][\A a \in Appliers :
       (applier[a].pc = "rename" /\ path' # path) =>
         \/ /\ path = applier[a].identity
            /\ files[path].text = applier[a].original
            /\ <<a, applier[a].original>> \in copies
         \/ path # 0 /\ files[path].by \in Appliers \ {a}]_configVars
=============================================================================
