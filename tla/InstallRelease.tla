--------------------------- MODULE InstallRelease ---------------------------
(***************************************************************************)
(* Installing, rolling back and pruning releases:                          *)
(* scripts/lib/install/install-release.mjs and install-inspect.mjs.        *)
(*                                                                         *)
(* A release directory per commit, the link `current` to one of them, and  *)
(* the managed links, which lead through `current`.  An apply changes them *)
(* one file system call after the other and may die between any two.  One  *)
(* apply runs at a time, as docs/migration.md asks; what else may run      *)
(* beside it is the constant Interference.                                 *)
(***************************************************************************)
EXTENDS Integers, Sequences, FiniteSets

CONSTANTS
  Commits,
  Targets,       \* managed destinations, of any manifest
  Manifest,      \* of each commit: the path in the release, by target
  Sealed,        \* commits whose digest their own ledger seals
  Hosts,         \* what an installer may find on a host
  Keep,          \* releases a prune keeps
  Interference,  \* "prune", "user": what does not wait for an apply to end
  MaxApplies,    \* bound
  MaxPrunes,     \* bound
  None

Files(c) == {Manifest[c][t] : t \in DOMAIN Manifest[c]}

ASSUME ManifestsAssumption ==
  /\ \A c \in Commits : DOMAIN Manifest[c] \subseteq Targets
  /\ Sealed \subseteq Commits
  /\ Commits \cap {None, "current", "source", "foreign", "nothing"} = {}
  /\ {Keep, MaxApplies, MaxPrunes} \subseteq Nat
  /\ Keep > 0

Paths == UNION {Files(c) : c \in Commits}

\* What is at a managed destination: a symbolic link, or something of others.
Through(path) == [via |-> "current", path |-> path]
Direct(c, path) == [via |-> c, path |-> path]
FromSource(path) == [via |-> "source", path |-> path]
Foreign == [via |-> "foreign", path |-> None]
Nothing == [via |-> "nothing", path |-> None]
Occupants == [via : {"current", "source"} \cup Commits, path : Paths]
               \cup {Foreign, Nothing}

\* A release directory: its files, whether its metadata parses, and its age.
\* Times are numbers of applies; what was there before has one below 1.
Release == [tree : {"absent", "part", "whole"}, readable : BOOLEAN, mtime : Int]
Absent == [tree |-> "absent", readable |-> FALSE, mtime |-> 0]
Whole(time) == [tree |-> "whole", readable |-> TRUE, mtime |-> time]

\* What is installed has been sealed or signed for, and leads somewhere.
ASSUME HostsAssumption ==
  \A host \in Hosts :
    /\ host.releases \in [Commits -> Release]
    /\ host.overrides \subseteq Commits
    /\ \A c \in Commits : \/ host.releases[c] = Absent
                          \/ /\ host.releases[c] = Whole(host.releases[c].mtime)
                             /\ c \in Sealed \cup host.overrides
    /\ \/ host.current = None
       \/ host.current \in Commits /\ host.releases[host.current] # Absent
    /\ host.links \in [Targets -> Occupants]
    /\ \A t \in Targets : host.links[t].via \in Commits =>
         /\ host.releases[host.links[t].via] # Absent
         /\ host.links[t].path \in Files(host.links[t].via)

VARIABLES
  releases,   \* the directory of each commit
  current,    \* the commit the link `current` names
  links,      \* what is at each managed destination
  backups,    \* migration-backups: [run, target, saved]
  overrides,  \* the commits with a record in install-overrides
  job,        \* the apply that runs, or ran last
  prune,      \* the releases a prune is about to remove
  applies, prunes

vars == <<releases, current, links, backups, overrides, job, prune,
          applies, prunes>>

-----------------------------------------------------------------------------
(* Reading the disk. *)

\* resolvedLink(current): the directory is there, whatever it holds.
CurrentTarget ==
  IF current # None /\ releases[current].tree # "absent" THEN current ELSE None

\* The release a link leads into, as its text says.
ReleaseOf(link) == IF link.via = "current" THEN current ELSE link.via

IsInStore(link) == link.via \in {"current"} \cup Commits

\* realpath of a link into the store finds a file.
Resolves(link) ==
  /\ IsInStore(link)
  /\ ReleaseOf(link) \in Commits
  /\ releases[ReleaseOf(link)].tree = "whole"
  /\ link.path \in Files(ReleaseOf(link))

\* The metadata is there and its digest is the digest of the tree.
verifyRelease(c) == releases[c].tree = "whole" /\ releases[c].readable

managedTargets(c) == DOMAIN Manifest[c]

\* What preflight makes of an occupant of target t, installing commit c.
classifyTarget(c, t, link) ==
  LET asManaged == link.path = Manifest[c][t] IN
  IF link.via = "source" /\ asManaged THEN "legacy_source"
  ELSE IF ~Resolves(link) THEN "foreign"
  ELSE IF asManaged /\ ReleaseOf(link) = CurrentTarget THEN "current"
  ELSE IF asManaged /\ verifyRelease(ReleaseOf(link)) THEN "prior_release"
  ELSE "other_release"

Ours == {"legacy_source", "current", "prior_release"}

\* Slip: only links are looked at, not files of others.
Collisions_LinksOnly(c) ==
  {t \in managedTargets(c) : /\ links[t] \notin {Nothing, Foreign}
                             /\ classifyTarget(c, t, links[t]) \notin Ours}

\* Destinations that hold what an apply may not replace.
Collisions(c) ==
  {t \in managedTargets(c) : /\ links[t] # Nothing
                             /\ classifyTarget(c, t, links[t]) \notin Ours}

\* A link `current` that leads nowhere is foreign as well.
preflightCurrent == current = None \/ CurrentTarget # None

\* Slip: only links that lead through current.
orphanManagedLinks_Through(c) ==
  {t \in Targets \ managedTargets(c) : links[t].via = "current"}

\* Links into the store that the manifest does not declare.
orphanManagedLinks(c) ==
  {t \in Targets \ managedTargets(c) : IsInStore(links[t])}

\* Reconciliation leaves a link alone that leads to the file through current.
UpToDate(c, t) ==
  /\ links[t].via = "current"
  /\ Resolves(links[t])
  /\ links[t].path = Manifest[c][t]

-----------------------------------------------------------------------------
(* One apply. *)

Ended == {"idle", "refused", "failed", "done"}
Steps == {"stage", "override", "place", "rewrite", "verify", "switch", "smoke",
          "reconcile", "link", "undo", "unbind", "rebind"}

Changes == [target : Targets, saved : Occupants, created : BOOLEAN]

Jobs ==
  [pc : Steps \cup Ended, commit : Commits \cup {None}, allow : BOOLEAN,
   collision : Targets \cup {None}, previous : Commits \cup {None},
   todo : SUBSET Targets, changed : Seq(Changes),
   before : [current : Commits \cup {None}, links : [Targets -> Occupants]]]

NewJob(pc, c, allow, collision) ==
  [pc |-> pc, commit |-> c, allow |-> allow, collision |-> collision,
   previous |-> None, todo |-> {}, changed |-> <<>>,
   before |-> [current |-> current, links |-> links]]

Running == job.pc \in Steps
Quiet(kind) == ~Running \/ kind \in Interference

\* A step of the apply: where it is, and where it goes on.
At(pc) == job.pc = pc /\ UNCHANGED <<prune, applies, prunes>>
Goto(pc) == job' = [job EXCEPT !.pc = pc]

\* preflightTargets: nothing is touched while something there is not KRN's.
\* --allow-unsealed is implied where nothing is installed.
Begin(c) ==
  /\ ~Running
  /\ prune = {} \/ "prune" \in Interference
  /\ applies < MaxApplies
  /\ applies' = applies + 1
  /\ \/ /\ preflightCurrent
        /\ Collisions(c) = {}
        /\ \E flag \in BOOLEAN :
             job' = NewJob("stage", c, IF current = None THEN TRUE ELSE flag, None)
     \/ /\ ~preflightCurrent
        /\ job' = NewJob("refused", c, FALSE, None)
     \/ /\ preflightCurrent
        /\ \E t \in Collisions(c) : job' = NewJob("refused", c, FALSE, t)
  /\ UNCHANGED <<releases, current, links, backups, overrides, prune,
                 prunes>>

\* copyRuntime into a staging directory of its own; targetSeal.
Stage ==
  /\ At("stage")
  /\ \/ job.commit \in Sealed /\ Goto("place")
     \/ job.commit \notin Sealed /\ job.allow /\ Goto("override")
     \/ job.commit \notin Sealed /\ ~job.allow /\ Goto("refused")
  /\ UNCHANGED <<releases, current, links, backups, overrides>>

\* recordUnsealedOverride; a record that is there already is kept.
RecordOverride ==
  /\ At("override")
  /\ Goto("place")
  /\ overrides' = overrides \cup {job.commit}
  /\ UNCHANGED <<releases, current, links, backups>>

\* Slip: the metadata of a sealed release is written again as well.
Place_Rewrites ==
  /\ At("place")
  /\ LET c == job.commit IN
     \/ /\ releases[c].tree = "absent"
        /\ releases' = [releases EXCEPT ![c] = Whole(applies)]
        /\ Goto("verify")
     \/ /\ releases[c].tree # "absent"
        /\ Goto(IF ~verifyRelease(c) THEN "failed" ELSE "rewrite")
        /\ UNCHANGED releases
  /\ UNCHANGED <<current, links, backups, overrides>>

\* The staged tree becomes the release, in one rename; or an earlier one is it.
Place ==
  /\ At("place")
  /\ LET c == job.commit IN
     \/ /\ releases[c].tree = "absent"
        /\ releases' = [releases EXCEPT ![c] = Whole(applies)]
        /\ Goto("verify")
     \/ /\ releases[c].tree # "absent"
        /\ Goto(IF ~verifyRelease(c) THEN "failed"
                ELSE IF c \in Sealed THEN "verify" ELSE "rewrite")
        /\ UNCHANGED releases
  /\ UNCHANGED <<current, links, backups, overrides>>

\* The override is written into the metadata of the release, in place.
RewriteMetadata ==
  /\ At("rewrite")
  /\ Goto("verify")
  /\ UNCHANGED <<releases, current, links, backups, overrides>>

Verify ==
  /\ At("verify")
  /\ job' = [job EXCEPT !.pc = IF verifyRelease(job.commit) THEN "switch" ELSE "failed",
                        !.previous = CurrentTarget]
  /\ UNCHANGED <<releases, current, links, backups, overrides>>

replaceCurrent ==
  /\ At("switch")
  /\ Goto("smoke")
  /\ current' = job.commit
  /\ UNCHANGED <<releases, links, backups, overrides>>

\* verifyInstalledCli; the time bound may end any start.
Smoke ==
  /\ At("smoke")
  /\ \/ Goto("unbind")
     \/ job' = [job EXCEPT !.pc = "reconcile",
                           !.changed = <<>>,
                           !.todo = orphanManagedLinks(job.commit)
                                      \cup managedTargets(job.commit)]
  /\ UNCHANGED <<releases, current, links, backups, overrides>>

-----------------------------------------------------------------------------
(* reconcileTargets *)

Backup(t) == [run |-> applies, target |-> t, saved |-> links[t]]

\* What is at t is renamed into the backup directory.
SetAside(t) ==
  /\ links' = [links EXCEPT ![t] = Nothing]
  /\ backups' = IF links[t] = Nothing THEN backups ELSE backups \cup {Backup(t)}

Entry(t) == [target |-> t, saved |-> links[t], created |-> FALSE]

RetireOrphan(t) ==
  /\ At("reconcile")
  /\ t \in job.todo \ managedTargets(job.commit)
  /\ SetAside(t)
  /\ job' = [job EXCEPT !.todo = @ \ {t}, !.changed = Append(@, Entry(t))]
  /\ UNCHANGED <<releases, current, overrides>>

LeaveLink(t) ==
  /\ At("reconcile")
  /\ t \in job.todo \cap managedTargets(job.commit)
  /\ UpToDate(job.commit, t)
  /\ job' = [job EXCEPT !.todo = @ \ {t}]
  /\ UNCHANGED <<releases, current, links, backups, overrides>>

MoveOldLink(t) ==
  /\ At("reconcile")
  /\ t \in job.todo \cap managedTargets(job.commit)
  /\ ~UpToDate(job.commit, t)
  /\ SetAside(t)
  /\ job' = [job EXCEPT !.pc = "link", !.todo = @ \ {t},
                        !.changed = Append(@, Entry(t))]
  /\ UNCHANGED <<releases, current, overrides>>

Last == job.changed[Len(job.changed)]

\* symlinkSync: refuses a destination that has been taken meanwhile.
CreateLink ==
  /\ At("link")
  /\ links[Last.target] = Nothing
  /\ links' = [links EXCEPT ![Last.target] =
                 Through(Manifest[job.commit][Last.target])]
  /\ job' = [job EXCEPT !.pc = "reconcile",
                        !.changed[Len(job.changed)].created = TRUE]
  /\ UNCHANGED <<releases, current, backups, overrides>>

ReconcileFails ==
  /\ At("reconcile") \/ At("link")
  /\ Goto("undo")
  /\ UNCHANGED <<releases, current, links, backups, overrides>>

Succeed ==
  /\ At("reconcile")
  /\ job.todo = {}
  /\ Goto("done")
  /\ UNCHANGED <<releases, current, links, backups, overrides>>

\* The changes are undone from the last to the first, a link first removed ...
UndoLink ==
  /\ At("undo")
  /\ job.changed # <<>>
  /\ Last.created
  /\ links' = IF links[Last.target] = Foreign THEN links
              ELSE [links EXCEPT ![Last.target] = Nothing]
  /\ job' = [job EXCEPT !.changed[Len(job.changed)].created = FALSE]
  /\ UNCHANGED <<releases, current, backups, overrides>>

\* Slip: the backup stays where it is.
UndoMove_Kept ==
  /\ At("undo")
  /\ job.changed # <<>>
  /\ ~Last.created
  /\ job' = [job EXCEPT !.changed = SubSeq(@, 1, Len(@) - 1)]
  /\ UNCHANGED <<releases, current, links, backups, overrides>>

\* ... and then the backup renamed over whatever is there.
UndoMove ==
  /\ At("undo")
  /\ job.changed # <<>>
  /\ ~Last.created
  /\ IF Last.saved = Nothing THEN UNCHANGED <<links, backups>>
     ELSE /\ links' = [links EXCEPT ![Last.target] = Last.saved]
          /\ backups' = backups \ {[run |-> applies, target |-> Last.target,
                                    saved |-> Last.saved]}
  /\ job' = [job EXCEPT !.changed = SubSeq(@, 1, Len(@) - 1)]
  /\ UNCHANGED <<releases, current, overrides>>

Undone ==
  /\ At("undo")
  /\ job.changed = <<>>
  /\ Goto("unbind")
  /\ UNCHANGED <<releases, current, links, backups, overrides>>

\* restoreCurrent removes the link and then makes the former one.
Unbind ==
  /\ At("unbind")
  /\ Goto("rebind")
  /\ current' = None
  /\ UNCHANGED <<releases, links, backups, overrides>>

Rebind ==
  /\ At("rebind")
  /\ Goto("failed")
  /\ current' = job.previous
  /\ UNCHANGED <<releases, links, backups, overrides>>

\* The process dies; in a write of the metadata, half of it is there.
Crash ==
  /\ Running
  /\ Goto("idle")
  /\ \/ UNCHANGED releases
     \/ At("rewrite") /\ releases' = [releases EXCEPT ![job.commit].readable = FALSE]
  /\ UNCHANGED <<current, links, backups, overrides, prune, applies, prunes>>

-----------------------------------------------------------------------------
(* pruneReleases *)

Directories == {c \in Commits : releases[c].tree # "absent"}

Newest ==
  {c \in Directories :
     Cardinality({d \in Directories : releases[d].mtime > releases[c].mtime}) < Keep}

Referenced == {ReleaseOf(links[t]) : t \in {u \in Targets : Resolves(links[u])}}

\* Slip: links that lead past `current` are not looked for.
Prunable_UnlinkedOnly == Directories \ (Newest \cup {CurrentTarget})

Prunable ==
  Directories \ (Newest \cup {CurrentTarget} \cup Referenced)

BeginPrune ==
  /\ Quiet("prune")
  /\ prune = {}
  /\ prunes < MaxPrunes
  /\ prunes' = prunes + 1
  /\ prune' = Prunable
  /\ UNCHANGED <<releases, current, links, backups, overrides, job, applies>>

\* removeTree takes its time.
RemoveTree(c) ==
  /\ c \in prune
  /\ \/ /\ releases[c].tree = "whole"
        /\ releases' = [releases EXCEPT ![c].tree = "part"]
        /\ UNCHANGED prune
     \/ /\ releases[c].tree = "part"
        /\ releases' = [releases EXCEPT ![c] = Absent]
        /\ prune' = prune \ {c}
  /\ UNCHANGED <<current, links, backups, overrides, job, applies, prunes>>

PruneCrash ==
  /\ prune # {}
  /\ prune' = {}
  /\ UNCHANGED <<releases, current, links, backups, overrides, job, applies,
                 prunes>>

-----------------------------------------------------------------------------
(* People: docs/migration.md lets them repoint `current` to a verified      *)
(* release when no apply runs; other programs own other files.              *)

Repoint(c) ==
  /\ ~Running
  /\ prune = {}
  /\ verifyRelease(c)
  /\ current' = c
  /\ UNCHANGED <<releases, links, backups, overrides, job, prune, applies,
                 prunes>>

Occupy(t) ==
  /\ Quiet("user")
  /\ links[t] = Nothing
  /\ links' = [links EXCEPT ![t] = Foreign]
  /\ UNCHANGED <<releases, current, backups, overrides, job, prune, applies,
                 prunes>>

Clear(t) ==
  /\ ~Running
  /\ links[t] = Foreign
  /\ links' = [links EXCEPT ![t] = Nothing]
  /\ UNCHANGED <<releases, current, backups, overrides, job, prune, applies,
                 prunes>>

-----------------------------------------------------------------------------

Init ==
  /\ \E host \in Hosts :
       /\ releases = host.releases
       /\ current = host.current
       /\ links = host.links
       /\ overrides = host.overrides
  /\ job = NewJob("idle", None, FALSE, None)
  /\ backups = {}
  /\ prune = {}
  /\ applies = 0
  /\ prunes = 0

Apply ==
  \/ \E c \in Commits : Begin(c)
  \/ Stage \/ RecordOverride \/ Place \/ RewriteMetadata \/ Verify
  \/ replaceCurrent \/ Smoke
  \/ \E t \in Targets : RetireOrphan(t) \/ LeaveLink(t) \/ MoveOldLink(t)
  \/ CreateLink \/ ReconcileFails \/ Succeed
  \/ UndoLink \/ UndoMove \/ Undone \/ Unbind \/ Rebind
  \/ Crash

Next ==
  \/ Apply
  \/ BeginPrune \/ PruneCrash \/ \E c \in Commits : RemoveTree(c)
  \/ \E c \in Commits : Repoint(c)
  \/ \E t \in Targets : Occupy(t) \/ Clear(t)

Spec == Init /\ [][Next]_vars

-----------------------------------------------------------------------------
(* Properties *)

\* Every variable has its type, and no destination is dealt with twice: its
\* first backup would be overwritten by the second (reconcileTargets).
TypeOK ==
  /\ releases \in [Commits -> Release]
  /\ current \in Commits \cup {None}
  /\ links \in [Targets -> Occupants]
  /\ backups \subseteq [run : 0..MaxApplies, target : Targets, saved : Occupants]
  /\ overrides \subseteq Commits
  /\ job \in Jobs
  /\ Running => job.commit \in Commits
  /\ \A i \in DOMAIN job.changed : job.changed[i].target \notin job.todo
  /\ job.pc = "link" => /\ job.changed # <<>>
                        /\ Last.target \in managedTargets(job.commit)
  /\ prune \subseteq Commits
  /\ applies \in 0..MaxApplies
  /\ prunes \in 0..MaxPrunes

\* What `current` or a managed link leads into is all there: a release comes
\* into being whole (renameSync of the staging directory), and pruneReleases
\* removes none that is in use, whatever died halfway before.
ReferencedReleasesWhole ==
  /\ current # None => releases[current].tree = "whole"
  /\ \A t \in Targets : links[t].via \in Commits => releases[links[t].via].tree = "whole"

\* `current` selects a release that verifies.  The exception is the one write
\* in place there is: applying a commit again whose seal is overridden.
CurrentVerifies ==
  current # None => verifyRelease(current) \/ current \in overrides \ Sealed

\* Wherever a release that nothing seals is selected, somebody has signed for
\* it, in a record outside the release: recordUnsealedOverride comes first.
UnsealedAudited == current \in Commits \ Sealed => current \in overrides

\* No link of KRN's that an apply found is lost, even when the apply dies: it
\* is in its place or in migration-backups.
LinksKept ==
  \A t \in Targets :
    job.before.links[t] \notin {Nothing, Foreign} =>
      \/ links[t] = job.before.links[t]
      \/ \E backup \in backups :
           backup.target = t /\ backup.saved = job.before.links[t]

Becomes(pc) == job.pc # pc /\ job'.pc = pc

\* An apply that fails leaves `current` and every managed destination as it
\* found them, however far it had come and whatever earlier ones left behind.
FailedApplyRestores ==
  [][Becomes("failed") => /\ current' = job.before.current
                          /\ links' = job.before.links]_vars

\* An apply that reports success has installed its commit: it is selected,
\* everything it declares leads to its file through `current`, and nothing
\* else leads into the release store.
DoneMeansInstalled ==
  [][Becomes("done") =>
       /\ current' = job.commit
       /\ \A t \in managedTargets(job.commit) :
            links'[t] = Through(Manifest[job.commit][t])
       /\ \A t \in Targets \ managedTargets(job.commit) : ~IsInStore(links'[t])]_vars

\* While an apply runs nothing happens to a file of others at a managed
\* destination: what preflight lets pass covers all that is replaced later.
ForeignUntouched ==
  [][\A t \in Targets : links[t] = Foreign /\ Running => links'[t] = Foreign]_vars

\* A link into a verified release of the store does not stop an apply: it is
\* moved into the backups and replaced (docs/migration.md, Ownership).
ReleaseLinksAreReplaced ==
  [][Becomes("refused") /\ job'.collision # None =>
       LET link == links[job'.collision]
       IN ~(Resolves(link) /\ verifyRelease(ReleaseOf(link)))]_vars

=============================================================================
