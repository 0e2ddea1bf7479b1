------------------------------- MODULE MCFiles -------------------------------
(* One instance for the commands that work on files and links others can       *)
(* change: the installation of releases, the seal ledger, the skills export,   *)
(* the catalog's configuration, the workflow set-up of a repository, the import *)
(* of its tickets and its outcome capsules. A behaviour is of one of them, its *)
(* subject; the variables of the others stay as they start.                    *)
EXTENDS InstallRelease, SkillsExport, SealLedger, CatalogConfig, SetupWorkflow,
        QueueImport, OutcomeCapsule, TLC

VARIABLE subject

-----------------------------------------------------------------------------
(* Installations of three commits that differ in what they manage, on several   *)
(* hosts: a sealed one, one that retires y, one that moves the file of x.       *)

MCManifest ==
  ("first" :> ("x" :> "p" @@ "y" :> "q")) @@
  ("second" :> ("x" :> "p" @@ "z" :> "r")) @@
  ("third" :> ("x" :> "r" @@ "y" :> "q"))

Host(installed, at, occupants, records) ==
  [releases |-> [commit \in Commits |->
     IF \E i \in DOMAIN installed : installed[i] = commit
       THEN Whole((CHOOSE i \in DOMAIN installed : installed[i] = commit) - 5)
       ELSE Absent],
   current |-> at, overrides |-> records,
   links |-> [t \in Targets |-> IF t \in DOMAIN occupants THEN occupants[t]
                                                         ELSE Nothing]]

MCHosts ==
  { Host(<<>>, None, ("x" :> FromSource("p")), {}),
    Host(<<"second", "first">>, "first",
         ("x" :> Direct("second", "p") @@ "y" :> Direct("first", "q")), {"second"}),
    Host(<<"first", "second">>, "second",
         ("x" :> Through("p") @@ "y" :> Foreign @@ "z" :> Through("r")), {"second"}) }

InstallIdle ==
  /\ releases = [commit \in Commits |-> Absent] /\ current = None
  /\ links = [t \in Targets |-> Nothing] /\ overrides = {} /\ backups = {}
  /\ job = NewJob("idle", None, FALSE, None) /\ prune = {}
  /\ applies = MaxApplies /\ prunes = MaxPrunes

-----------------------------------------------------------------------------
(* Exports. One file of the skill is pinned upstream, the other is not there. *)

MCPin == <<1, 0>>

MCExportStarts == {[running |-> {"e1", "e2"}, edits |-> 1],
                   [running |-> {"e1"}, edits |-> 2],
                   [running |-> {}, edits |-> 2]}

ExportIdle == /\ ExportInit /\ final = NoDirectory /\ edits = 0
              /\ \A e \in Exports : ExportAt(e, "done")

-----------------------------------------------------------------------------
(* Seals of one commit with two digests, or of two commits, one after the       *)
(* other with a failing machine and edits by hand, or both at once.             *)

TwoSeals(commit, digest) == ("s1" :> [commit |-> "c1", digest |-> "d1"])
                              @@ ("s2" :> [commit |-> commit, digest |-> digest])

MCSealStarts ==
  [seals : {TwoSeals("c1", "d2"), TwoSeals("c2", "d1")},
   together : {FALSE}, power : {TRUE}, edits : {2}]
    \cup
  [seals : {TwoSeals("c1", "d2"), TwoSeals("c2", "d1")},
   together : {TRUE}, power : {FALSE}, edits : {0}]

SealIdle == /\ SealInit
            /\ sealStart = CHOOSE start \in SealStarts : start.together /\ ~start.power

-----------------------------------------------------------------------------
(* Applies of a profile that turns every text into the second one. *)

MCPlanOf == [text \in {"t1", "t2", "t3"} |-> "t2"]

MCConfigStarts == {[running |-> {"a1"}, writes |-> 2],
                   [running |-> {"a1", "a2"}, writes |-> 1],
                   [running |-> {}, writes |-> 0]}

ConfigIdle == ConfigInit /\ writes = 0 /\ files[1].text = "t1"

-----------------------------------------------------------------------------
(* Set-ups one after the other or at once, with the changes made by hand. *)

ForTrackers(first, second) == ("s1" :> first) @@ ("s2" :> second)

MCSetupStarts ==
  {[tracker |-> ForTrackers("local", "local"), together |-> FALSE, changes |-> 2],
   [tracker |-> ForTrackers("local", "none"), together |-> FALSE, changes |-> 2],
   [tracker |-> ForTrackers("local", "local"), together |-> TRUE, changes |-> 1]}

SetupIdle == /\ SetupInit /\ ~agents.there
             /\ setupStart = CHOOSE start \in SetupStarts : TRUE

-----------------------------------------------------------------------------
(* Imports of a claimed ticket whose lock names another session, or the same,   *)
(* beside nothing or a second ticket.                                           *)

ClaimOf(session) == [worker |-> "w1", epoch |-> 1, session |-> session]

TicketsAndLock(other, session) ==
  [tickets |-> <<[id |-> "k1", status |-> "claimed", claim |-> ClaimOf(10)], other>>,
   locks |-> ("k1" :> ClaimOf(session) @@ "k2" :> NoFile)]

MCImportStarts ==
  {[disk |-> TicketsAndLock(NoFile, 11), edits |-> 2],
   [disk |-> TicketsAndLock([id |-> "k2", status |-> "open", claim |-> NoFile], 10),
    edits |-> 2]}

MCTicketEdits == {[id |-> "k1", status |-> "claimed", claims |-> TRUE],
                  [id |-> "k2", status |-> "open", claims |-> FALSE],
                  [id |-> "k2", status |-> "open", claims |-> TRUE]}

ImportIdle == /\ disk = NoQueueFiles /\ editsLeft = 0 /\ moments = {NoQueueFiles}
              /\ reading = Over("failed") /\ decisions = {}

-----------------------------------------------------------------------------
(* Two capsules and two runs under their names, the second names links to the   *)
(* first or to what lies elsewhere, and each flaw in the text of one capsule.   *)

Owes(run, state) == [run |-> run, state |-> state]

AnyText ==
  [form |-> "whole", outcome |-> "ACTIVE", head |-> 1, acceptance |-> "pass", owes |-> {},
   candidates |-> {}, prose |-> FALSE, restart |-> "ABSENT", review |-> "none",
   participant |-> "none", next |-> TRUE]

Done == [AnyText EXCEPT !.outcome = "COMPLETE", !.review = "evidence", !.candidates = {"k"}]

\* A capsule that owes the cleanup of runs, a complete one, and one of each kind
\* of flaw.
MCCapsuleTexts ==
  {[AnyText EXCEPT !.owes = o] :
     o \in {{Owes(1, "ACTIVE")}, {Owes(2, "CLEANUP_PENDING")}, {Owes(1, "BLOCKED"), Owes(2, "ACTIVE")}}}
    \cup {AnyText, Done, [Done EXCEPT !.head = 2], [AnyText EXCEPT !.head = 2]}

FlawedTexts ==
  {[AnyText EXCEPT !.form = "malformed-cleanup"], [AnyText EXCEPT !.form = "placeholder"],
   [AnyText EXCEPT !.acceptance = "malformed"], [AnyText EXCEPT !.next = FALSE],
   [AnyText EXCEPT !.head = 0], [AnyText EXCEPT !.head = NoCommitToken],
   [AnyText EXCEPT !.restart = "gone"], [AnyText EXCEPT !.restart = "outside"],
   [Done EXCEPT !.head = 0], [Done EXCEPT !.acceptance = "todo"], [Done EXCEPT !.prose = TRUE],
   [Done EXCEPT !.review = "pending"], [Done EXCEPT !.review = "prose"],
   [Done EXCEPT !.restart = "there"], [Done EXCEPT !.participant = "active"],
   [Done EXCEPT !.owes = {Owes(1, "ACTIVE")}]}

StartStore(c1, c2, r1, r2, one, two) ==
  [named |-> [capsule |-> <<c1, c2>>, run |-> <<r1, r2>>], texts |-> <<one, two, AnyText>>]

MCCapsuleStores ==
  {StartStore("absent", "absent", r1, r2, NoState, NoState) : r1, r2 \in {"absent", "directory"}}
    \cup {StartStore("directory", c2, "directory", r2, one, two) :
            c2 \in {"absent", "directory"}, r2 \in {"absent", "alias"}, one, two \in MCCapsuleTexts}
    \cup {StartStore("directory", "alias", "directory", "elsewhere", one, NoState) : one \in FlawedTexts}
    \cup {StartStore("directory", "elsewhere", "absent", "broken", NoState, Unreadable)}

CapsuleIdle == /\ CapsuleInit
               /\ named = [capsule |-> <<"absent", "absent">>, run |-> <<"absent", "absent">>]

-----------------------------------------------------------------------------

FilesInit ==
  \/ /\ subject = "install"
     /\ ExportIdle /\ SealIdle /\ ConfigIdle /\ SetupIdle /\ ImportIdle
     /\ CapsuleIdle /\ Init
  \/ /\ subject = "export"
     /\ ExportInit /\ SealIdle /\ ConfigIdle /\ SetupIdle /\ ImportIdle
     /\ CapsuleIdle /\ InstallIdle
  \/ /\ subject = "seal"
     /\ ExportIdle /\ SealInit /\ ConfigIdle /\ SetupIdle /\ ImportIdle
     /\ CapsuleIdle /\ InstallIdle
  \/ /\ subject = "config"
     /\ ExportIdle /\ SealIdle /\ ConfigInit /\ SetupIdle /\ ImportIdle
     /\ CapsuleIdle /\ InstallIdle
  \/ /\ subject = "setup"
     /\ ExportIdle /\ SealIdle /\ ConfigIdle /\ SetupInit /\ ImportIdle
     /\ CapsuleIdle /\ InstallIdle
  \/ /\ subject = "import"
     /\ ExportIdle /\ SealIdle /\ ConfigIdle /\ SetupIdle /\ ImportInit
     /\ CapsuleIdle /\ InstallIdle
  \/ /\ subject = "capsule"
     /\ ExportIdle /\ SealIdle /\ ConfigIdle /\ SetupIdle /\ ImportIdle
     /\ CapsuleInit /\ InstallIdle

FilesNext ==
  /\ UNCHANGED subject
  /\ \/ /\ subject = "install" /\ Next
        /\ UNCHANGED <<exportVars, sealVars, configVars, setupVars, importVars, capsuleVars>>
     \/ /\ subject = "export" /\ ExportNext
        /\ UNCHANGED <<sealVars, configVars, setupVars, importVars, capsuleVars, vars>>
     \/ /\ subject = "seal" /\ SealNext
        /\ UNCHANGED <<exportVars, configVars, setupVars, importVars, capsuleVars, vars>>
     \/ /\ subject = "config" /\ ConfigNext
        /\ UNCHANGED <<exportVars, sealVars, setupVars, importVars, capsuleVars, vars>>
     \/ /\ subject = "setup" /\ SetupNext
        /\ UNCHANGED <<exportVars, sealVars, configVars, importVars, capsuleVars, vars>>
     \/ /\ subject = "import" /\ ImportNext
        /\ UNCHANGED <<exportVars, sealVars, configVars, setupVars, capsuleVars, vars>>
     \/ /\ subject = "capsule" /\ CapsuleNext
        /\ UNCHANGED <<exportVars, sealVars, configVars, setupVars, importVars, vars>>
=============================================================================
