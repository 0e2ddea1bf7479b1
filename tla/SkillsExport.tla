---------------------------- MODULE SkillsExport ----------------------------
(***************************************************************************)
(* `krn skills export' and `krn skills check'                              *)
(* (scripts/lib/install/skills-export.mjs): the skills of a harness        *)
(* checkout and of a pinned upstream checkout are copied into a staging    *)
(* directory, which then takes the place of .agents/skills.                *)
(*                                                                         *)
(* NoFiles is locked.  Both checkouts may be edited while files are copied *)
(* one by one, another export may run, and an export may die anywhere.     *)
(***************************************************************************)
EXTENDS Naturals, Sequences, FiniteSets

CONSTANTS
  Exports,      \* running `krn skills export' processes
  FileCount,    \* files of a skill; harness and upstream have one skill each
  Pin,          \* the pinned upstream commit: SkillFiles -> versions
  ExportStarts, \* the exports that run and the edits made by hand
  MaxEdits      \* bound: changes made to the checkouts and the export by hand

\* What a file holds: a version of its text, or nothing.
SkillFiles == 1..FileCount
Missing == 0
Trees == [SkillFiles -> 0..2]
NoFiles == [f \in SkillFiles |-> Missing]

ASSUME ExportAssumption == FileCount \in Nat /\ Pin \in Trees /\ MaxEdits \in Nat

VARIABLES
  source,       \* the harness checkout: its worktree and its commits
  upstream,     \* the upstream checkout: its worktree, and is HEAD the pin
  final,        \* .agents/skills
  backup,       \* each export's backup directory
  export,       \* what each export is doing
  edits

exportVars == <<source, upstream, final, backup, export, edits>>

-----------------------------------------------------------------------------
(* Directories. *)

\* A directory that is not there, one without the export marker, and an
\* export: its skills, and the marker with the digests of what was exported.
NoDirectory == [kind |-> "none", krn |-> NoFiles, up |-> NoFiles, commit |-> 0,
         dirty |-> FALSE, digests |-> <<NoFiles, NoFiles>>]

NotExport == [NoDirectory EXCEPT !.kind = "foreign"]

ExportDirectories == [kind : {"none", "foreign", "export"}, krn : Trees, up : Trees,
                commit : Nat, dirty : BOOLEAN, digests : Trees \X Trees]

SourceHead == source.commits[Len(source.commits)]

\* `git status': a tracked file that differs, and a file git does not track.
Differs(files, tree) == \E f \in SkillFiles :
                          tree[f] # Missing /\ files[f] # tree[f]
Stray(files, tree) == \E f \in SkillFiles :
                        tree[f] = Missing /\ files[f] # Missing

-----------------------------------------------------------------------------
(* `krn skills export'. *)

Waiting == [pc |-> "start", commit |-> 0, dirty |-> FALSE, preserve |-> FALSE,
            copied |-> 0, krn |-> NoFiles, up |-> NoFiles]

ExportAt(e, pc) == export[e].pc = pc

Moves(e, next) == export' = [export EXCEPT ![e] = next]

\* The export throws, after removing its staging directory.
Refuse(e) == Moves(e, [Waiting EXCEPT !.pc = "failed"])

\* Upstream must be at its pin, unmodified, with nothing untracked or ignored
\* under the exported paths.
CheckUpstream(e) ==
  /\ ExportAt(e, "start")
  /\ IF /\ upstream.pinned
        /\ ~Differs(upstream.files, Pin)
        /\ ~Stray(upstream.files, Pin)
     THEN Moves(e, [export[e] EXCEPT !.pc = "pinned"])
     ELSE Refuse(e)
  /\ UNCHANGED <<source, upstream, final, backup, edits>>

\* The last commit that touched the skills.
HarnessCommit(e) ==
  /\ ExportAt(e, "pinned")
  /\ Moves(e, [export[e] EXCEPT !.pc = "committed",
                                !.commit = Len(source.commits)])
  /\ UNCHANGED <<source, upstream, final, backup, edits>>

\* An edited source is exported and marked dirty; an untracked file refuses.
SourceStatus(e) ==
  /\ ExportAt(e, "committed")
  /\ IF Stray(source.files, SourceHead)
     THEN Refuse(e)
     ELSE Moves(e, [export[e] EXCEPT !.pc = "judged",
                                     !.dirty = Differs(source.files, SourceHead)])
  /\ UNCHANGED <<source, upstream, final, backup, edits>>

\* Slip: whatever is there is taken for an export.
Destination_AnyContent(e) ==
  /\ ExportAt(e, "judged")
  /\ Moves(e, [export[e] EXCEPT !.pc = "copying",
                                !.preserve = final.kind # "none"])
  /\ UNCHANGED <<source, upstream, final, backup, edits>>

\* A directory without the marker is foreign content.
Destination(e) ==
  /\ ExportAt(e, "judged")
  /\ IF final.kind = "foreign"
     THEN Refuse(e)
     ELSE Moves(e, [export[e] EXCEPT !.pc = "copying",
                                     !.preserve = final.kind = "export"])
  /\ UNCHANGED <<source, upstream, final, backup, edits>>

\* One file after the other, the harness skill before the upstream skill.
CopyFile(e) ==
  LET n == export[e].copied IN
  /\ ExportAt(e, "copying")
  /\ n < 2 * FileCount
  /\ Moves(e,
       IF n < FileCount
       THEN [export[e] EXCEPT !.copied = n + 1,
                              !.krn[n + 1] = source.files[n + 1]]
       ELSE [export[e] EXCEPT !.copied = n + 1,
                              !.up[n + 1 - FileCount] =
                                 upstream.files[n + 1 - FileCount]])
  /\ UNCHANGED <<source, upstream, final, backup, edits>>

\* Slip: the upstream checkout was looked at, and is taken to be as it was.
VerifyBlobs_Unverified(e) ==
  /\ ExportAt(e, "copying")
  /\ export[e].copied = 2 * FileCount
  /\ Moves(e, [export[e] EXCEPT !.pc = "marked", !.copied = 0])
  /\ UNCHANGED <<source, upstream, final, backup, edits>>

\* Every upstream file in the staging directory must be the pinned blob; then
\* digests, catalog and marker are written there.
VerifyBlobs(e) ==
  /\ ExportAt(e, "copying")
  /\ export[e].copied = 2 * FileCount
  /\ IF \A f \in SkillFiles : export[e].up[f] \in {Missing, Pin[f]}
     THEN Moves(e, [export[e] EXCEPT !.pc = "marked", !.copied = 0])
     ELSE Refuse(e)
  /\ UNCHANGED <<source, upstream, final, backup, edits>>

\* The staging directory, marker and digests included.
Staged(e) == [kind |-> "export", krn |-> export[e].krn, up |-> export[e].up,
              commit |-> export[e].commit, dirty |-> export[e].dirty,
              digests |-> <<export[e].krn, export[e].up>>]

\* A rename failed: put the backup back if nothing is there, else drop it.
UndoSwap(e) ==
  /\ IF final.kind = "none" /\ backup[e].kind # "none"
     THEN final' = backup[e] ELSE UNCHANGED final
  /\ backup' = [backup EXCEPT ![e] = NoDirectory]
  /\ Refuse(e)
  /\ UNCHANGED <<source, upstream, edits>>

\* Slip: the previous export is deleted before the new one is in place.
MoveAside_Deletes(e) ==
  /\ ExportAt(e, "marked")
  /\ final' = NoDirectory
  /\ Moves(e, [export[e] EXCEPT !.pc = "aside"])
  /\ UNCHANGED <<source, upstream, backup, edits>>

\* Renames the previous export to the backup directory.
MoveAside(e) ==
  /\ ExportAt(e, "marked")
  /\ IF export[e].preserve
     THEN /\ final.kind # "none"
          /\ backup' = [backup EXCEPT ![e] = final]
          /\ final' = NoDirectory
     ELSE UNCHANGED <<final, backup>>
  /\ Moves(e, [export[e] EXCEPT !.pc = "aside"])
  /\ UNCHANGED <<source, upstream, edits>>

\* Renames the staging directory, which fails when something is there.
Install(e) ==
  /\ ExportAt(e, "aside")
  /\ final.kind = "none"
  /\ final' = Staged(e)
  /\ Moves(e, [export[e] EXCEPT !.pc = "installed"])
  /\ UNCHANGED <<source, upstream, backup, edits>>

\* Either rename may fail, and does when its target or origin is in the way.
RenameFails(e) == (ExportAt(e, "marked") \/ ExportAt(e, "aside")) /\ UndoSwap(e)

\* A failure to remove the backup is ignored.
Cleanup(e) ==
  /\ ExportAt(e, "installed")
  /\ backup' \in {backup, [backup EXCEPT ![e] = NoDirectory]}
  /\ Moves(e, [Waiting EXCEPT !.pc = "done"])
  /\ UNCHANGED <<source, upstream, final, edits>>

Dies(e) ==
  /\ export[e].pc \notin {"start", "done", "failed", "dead"}
  /\ Moves(e, [Waiting EXCEPT !.pc = "dead"])
  /\ UNCHANGED <<source, upstream, final, backup, edits>>

-----------------------------------------------------------------------------
(* Hands. *)

Edited == edits < MaxEdits /\ edits' = edits + 1

EditSource ==
  /\ Edited
  /\ \E f \in SkillFiles, v \in 0..2 :
       /\ v # source.files[f]
       /\ source' = [source EXCEPT !.files[f] = v]
  /\ UNCHANGED <<upstream, final, backup, export>>

CommitSource ==
  /\ source.files # SourceHead
  /\ source' = [source EXCEPT !.commits = Append(@, source.files)]
  /\ UNCHANGED <<upstream, final, backup, export, edits>>

EditUpstream ==
  /\ Edited
  /\ \/ \E f \in SkillFiles, v \in 0..2 :
          upstream' = [upstream EXCEPT !.files[f] = v]
     \/ upstream' = [upstream EXCEPT !.pinned = ~@]
  /\ UNCHANGED <<source, final, backup, export>>

EditExport ==
  /\ Edited
  /\ final.kind = "export"
  /\ \E f \in SkillFiles, v \in 0..2 :
       final' \in {[final EXCEPT !.krn[f] = v], [final EXCEPT !.up[f] = v]}
  /\ UNCHANGED <<source, upstream, backup, export>>

\* Someone makes the directory while no export has looked at it and is about to
\* replace it.
PlaceForeign ==
  /\ Edited
  /\ final.kind = "none"
  /\ \A e \in Exports :
       export[e].pc \notin {"copying", "marked", "aside"}
  /\ final' = NotExport
  /\ UNCHANGED <<source, upstream, backup, export>>

-----------------------------------------------------------------------------
ExportInit ==
  /\ source = [files |-> [f \in SkillFiles |-> 1],
               commits |-> <<[f \in SkillFiles |-> 1]>>]
  /\ upstream = [files |-> Pin, pinned |-> TRUE]
  /\ final \in {NoDirectory,
                [NoDirectory EXCEPT !.kind = "export", !.commit = 1,
                             !.krn = SourceHead, !.up = Pin,
                             !.digests = <<SourceHead, Pin>>]}
  /\ backup = [e \in Exports |-> NoDirectory]
  /\ \E start \in ExportStarts :
       /\ export = [e \in Exports |->
                      [Waiting EXCEPT !.pc = IF e \in start.running
                                             THEN "start" ELSE "done"]]
       /\ edits = MaxEdits - start.edits

ExportNext ==
  \/ \E e \in Exports :
       \/ CheckUpstream(e) \/ HarnessCommit(e) \/ SourceStatus(e)
       \/ Destination(e) \/ CopyFile(e) \/ VerifyBlobs(e) \/ MoveAside(e)
       \/ Install(e) \/ RenameFails(e) \/ Cleanup(e) \/ Dies(e)
  \/ EditSource \/ CommitSource \/ EditUpstream \/ EditExport \/ PlaceForeign

ExportSpec == ExportInit /\ [][ExportNext]_exportVars

-----------------------------------------------------------------------------
(* `krn skills check' in the harness repository itself. *)

\* Slip: the commit of the marker is not looked at.
ChecksOut_AnyCommit ==
  /\ final.kind = "export"
  /\ final.digests = <<final.krn, final.up>>
  /\ final.krn = source.files

\* No errors: a marker, the recorded digests, the files the source has now,
\* and, for an export not marked dirty, files the marker's commit has. A commit
\* that the repository does not know is passed over.
ChecksOut ==
  /\ final.kind = "export"
  /\ final.digests = <<final.krn, final.up>>
  /\ final.krn = source.files
  /\ (~final.dirty /\ final.commit \in DOMAIN source.commits) =>
       \A f \in SkillFiles :
         final.krn[f] # Missing =>
           source.files[f] = source.commits[final.commit][f]

-----------------------------------------------------------------------------
(* Properties. *)

HasExport ==
  final.kind = "export" \/ \E e \in Exports : backup[e].kind = "export"

\* Once there is an export there always is one, in its place or in a backup
\* directory: a crash or a failure between the two renames, or another export
\* in between, never leaves the repository without. A directory that is no
\* export is never replaced or moved away.
DirectoriesKept ==
  [][/\ HasExport => HasExport'
     /\ final = NotExport => final' = NotExport]_exportVars

\* An export that checks out holds, file by file, what the pinned upstream commit
\* holds, and, unless it is marked dirty, what the commit of its marker holds, a
\* commit of the source: although either checkout may have been edited or
\* committed between reading the commit, judging the worktree and each copy, and
\* the export been edited, replaced, put back or taken from a failed swap since.
CheckedExportsReproduce ==
  ChecksOut =>
    /\ \A f \in SkillFiles : final.up[f] \in {Missing, Pin[f]}
    /\ ~final.dirty =>
         /\ final.commit \in DOMAIN source.commits
         /\ \A f \in SkillFiles :
              final.krn[f] \in {Missing, source.commits[final.commit][f]}
=============================================================================
