----------------------------- MODULE QueueImport -----------------------------
(***************************************************************************)
(* The import of the Markdown tickets and claim locks into the first queue *)
(* (scripts/lib/task/task-import.mjs, and importedState of                 *)
(* scripts/lib/task/task-store.mjs).                                       *)
(*                                                                         *)
(* A preparation reads one file after the other, builds the tasks as it    *)
(* goes, and looks at every file again.  `task migrate' prepares once for  *)
(* its report; with --yes it prepares twice and imports what both made,    *)
(* with the decisions that were taken on an earlier report.  The guard     *)
(* keeps this version's writers away, never an edit by hand or a checkout  *)
(* of before the guard: those are the edits here.                          *)
(*                                                                         *)
(* Where the queue then goes, and under which guard, is in QueueWriteLock. *)
(***************************************************************************)
EXTENDS Integers

CONSTANTS
  TicketPaths,         \* ticket files, 1..n in the order of their names
  Ids,           \* ticket ids; a claim lock is named after its ticket
  ImportStarts,  \* [disk, edits]: the files at the start, the edits made later
  TicketEdits,   \* [id, status, claims]: the tickets that edits write
  LegacyWorkers,
  NoFile        \* no file, or no claim

\* What a claim, a ticket and the files are; a file is not what is no file.
LegacyClaims == [worker : LegacyWorkers, epoch : Nat, session : Nat]

LegacyTickets == [id : Ids, status : STRING, claim : LegacyClaims \cup {NoFile}]

QueueFiles == [tickets : [TicketPaths -> LegacyTickets \cup {NoFile}],
               locks : [Ids -> LegacyClaims \cup {NoFile}]]

ASSUME ImportAssumption ==
  /\ TicketPaths \subseteq Nat
  /\ NoFile \notin LegacyTickets \cup LegacyClaims
  /\ ImportStarts \subseteq [disk : QueueFiles, edits : Nat]
  /\ TicketEdits \subseteq [id : Ids, status : STRING, claims : BOOLEAN]

VARIABLES
  disk,       \* [tickets, locks]: the content of each file, or NoFile
  editsLeft,
  moments,    \* history: the files at each moment since the import began
  reading,    \* the preparation under way
  decisions   \* [conflict, source]: on the conflicts of the last report

importVars == <<disk, editsLeft, moments, reading, decisions>>

NoQueueFiles == [tickets |-> [p \in TicketPaths |-> NoFile], locks |-> [i \in Ids |-> NoFile]]

There(files) == {x \in DOMAIN files : files[x] # NoFile}

-----------------------------------------------------------------------------
(* Claims: [worker, session, epoch], in the ticket and in the lock. *)

\* They may disagree on the session alone: the ticket's stands until it is decided.
combineClaim(claim, lock) ==
  LET conflict == /\ lock # NoFile
                  /\ \/ claim = NoFile
                     \/ claim.worker # lock.worker \/ claim.epoch # lock.epoch
  IN [conflict |-> conflict,
      ambiguous |-> /\ ~conflict /\ claim # NoFile /\ lock # NoFile
                    /\ claim.session # lock.session]

Conflict(path, ticket, lock) ==
  [id |-> ticket.id, path |-> path, ticket |-> ticket.claim.session, lock |-> lock.session]

Task(path, ticket) ==
  [id |-> ticket.id, path |-> path, status |-> ticket.status, claim |-> ticket.claim]

-----------------------------------------------------------------------------
(* A preparation, by a report or by an import, which makes two. *)

\* What both must agree on: the archive, the tasks and the findings.
NothingMade == [archive |-> NoQueueFiles, tasks |-> {}, rules |-> {}, conflicts |-> {}]

Begun(mode, first) ==
  [mode |-> mode, at |-> "tickets", first |-> first, made |-> NothingMade,
   paths |-> {}, lockPaths |-> {}, left |-> {}, locksLeft |-> {}]

Over(mode) == [Begun(mode, NothingMade) EXCEPT !.at = "end"]

\* An exception: nothing is imported.
Thrown == Over("failed")

Look(then) == reading' = then /\ UNCHANGED <<disk, editsLeft, moments, decisions>>

Lowest(S) == CHOOSE p \in S : \A q \in S : p <= q

\* One file after the other, then the next step.
Onward(r, files, step, next) == [r EXCEPT !.at = IF files = {} THEN next ELSE step]

Found(r, rules) == [r EXCEPT !.made.rules = @ \cup rules]

Rule(name, broken) == IF broken THEN {name} ELSE {}

discoverTicketFiles ==
  /\ reading.at = "tickets"
  /\ LET paths == There(disk.tickets)
     IN Look(Onward([reading EXCEPT !.paths = paths, !.left = paths],
                      paths, "ticket", "locks"))

ReadTicket ==
  /\ reading.at = "ticket"
  /\ LET p == Lowest(reading.left)
     IN Look(IF disk.tickets[p] = NoFile THEN Thrown
              ELSE [reading EXCEPT !.made.archive.tickets[p] = disk.tickets[p],
                                   !.at = "claim"])

\* A file is archived once; a second content is an exception.
addArchiveEntry(r, i, lock) ==
  IF lock # NoFile THEN [r EXCEPT !.made.archive.locks[i] = lock] ELSE r

Changed(r, i, lock) ==
  lock # NoFile /\ r.made.archive.locks[i] \notin {NoFile, lock}

\* The claim lock of the ticket that was read, and the task made of both.
ReadClaim ==
  /\ reading.at = "claim"
  /\ LET p == Lowest(reading.left)
         ticket == reading.made.archive.tickets[p]
         lock == disk.locks[ticket.id]
         claim == combineClaim(ticket.claim, lock)
         known == \E task \in reading.made.tasks : task.id = ticket.id
         rules == Rule("claim-conflict", claim.conflict)
                    \cup Rule("duplicate-ticket-id", known)
                    \cup Rule("claimed-without-owner",
                              /\ ticket.status = "claimed"
                              /\ ticket.claim = NoFile \/ claim.conflict)
         read == [addArchiveEntry(Found(reading, rules), ticket.id, lock) EXCEPT
                    !.made.tasks = IF known THEN @ ELSE @ \cup {Task(p, ticket)},
                    !.made.conflicts = @ \cup IF claim.ambiguous
                                              THEN {Conflict(p, ticket, lock)} ELSE {},
                    !.left = @ \ {p}]
     IN Look(IF Changed(reading, ticket.id, lock) THEN Thrown
              ELSE Onward(read, read.left, "ticket", "locks"))

discoverClaimLockFiles ==
  /\ reading.at = "locks"
  /\ LET ids == There(disk.locks)
     IN Look(Onward([reading EXCEPT !.lockPaths = ids, !.locksLeft = ids],
                      ids, "lock", "same paths"))

ReadLock ==
  /\ reading.at = "lock"
  /\ \E i \in reading.locksLeft :
       LET lock == disk.locks[i]
           tickets == reading.made.archive.tickets
           orphan == \A p \in There(tickets) : tickets[p].id # i
           read == [addArchiveEntry(Found(reading, Rule("orphan-claim-lock", orphan)), i, lock)
                      EXCEPT !.locksLeft = @ \ {i}]
       IN Look(IF lock = NoFile \/ Changed(reading, i, lock) THEN Thrown
                ELSE Onward(read, read.locksLeft, "lock", "same paths"))

SamePaths ==
  /\ reading.at = "same paths"
  /\ Look([Found(reading, Rule("source-path-set-changed",
                                There(disk.tickets) # reading.paths))
              EXCEPT !.at = "same locks"])

\* From here on, the archived files are looked at again.
SameLocks ==
  /\ reading.at = "same locks"
  /\ LET read == [Found(reading, Rule("source-claim-set-changed",
                                      There(disk.locks) # reading.lockPaths))
                    EXCEPT !.left = There(reading.made.archive.tickets),
                           !.locksLeft = There(reading.made.archive.locks)]
     IN Look(Onward(read, read.left, "same ticket",
                      IF read.locksLeft = {} THEN "prepared" ELSE "same lock"))

SameTicket ==
  /\ reading.at = "same ticket"
  /\ LET p == Lowest(reading.left)
         read == [Found(reading, Rule("source-changed-during-import",
                                      disk.tickets[p] # reading.made.archive.tickets[p]))
                    EXCEPT !.left = @ \ {p}]
     IN Look(Onward(read, read.left, "same ticket",
                      IF read.locksLeft = {} THEN "prepared" ELSE "same lock"))

SameLock ==
  /\ reading.at = "same lock"
  /\ \E i \in reading.locksLeft :
       LET read == [Found(reading, Rule("source-changed-during-import",
                                        disk.locks[i] # reading.made.archive.locks[i]))
                      EXCEPT !.locksLeft = @ \ {i}]
       IN Look(Onward(read, read.locksLeft, "same lock", "prepared"))

-----------------------------------------------------------------------------
(* The report and the import. *)

\* `task migrate' prints its report; whoever reads it decides on all of the
\* conflicts, or leaves them.
Report ==
  /\ reading.at = "prepared" /\ reading.mode = "report"
  /\ \E source \in [reading.made.conflicts -> {"ticket", "lock"}] :
       decisions' \in {{}, {[conflict |-> c, source |-> source[c]] : c \in DOMAIN source}}
  /\ reading' = Begun("import", NothingMade)
  /\ moments' = {disk}
  /\ UNCHANGED <<disk, editsLeft>>

\* prepared, before the import prepares once more to compare.
Prepared ==
  /\ reading.at = "prepared" /\ reading.mode = "import"
  /\ Look(Begun("verify", reading.made))

\* Slip: the task decides which decision is its own.
Resolution_ById(conflict) == {d \in decisions : d.conflict.id = conflict.id}

\* The decision on a conflict: on these two sessions, in these two files.
Resolution(conflict) == {d \in decisions : d.conflict = conflict}

\* Each conflict is decided, and nothing else is.
Resolved(made) ==
  /\ \A c \in made.conflicts : Resolution(c) # {}
  /\ \A d \in decisions : \E c \in made.conflicts : d \in Resolution(c)

\* The tasks of the first queue: a lease takes the session that was decided on.
resolveImportedClaimSessions(made) ==
  {[task EXCEPT !.claim =
      IF task.status = "claimed"
        /\ \E c \in made.conflicts : \E d \in Resolution(c) :
             c.id = task.id /\ d.source = "lock"
      THEN [@ EXCEPT !.session = made.archive.locks[task.id].session] ELSE @]
   : task \in made.tasks}

\* Slip: what was read is imported as it is.
Agrees_Unverified(r) == r.first.rules = {}

\* Two preparations in a row made the same, and found nothing wrong.
Agrees(r) == r.made = r.first /\ r.made.rules = {}

importedState ==
  /\ reading.at = "prepared" /\ reading.mode = "verify"
  /\ Look(IF Agrees(reading) /\ Resolved(reading.first)
           THEN [Over("imported") EXCEPT
                   !.made = [reading.first EXCEPT
                               !.tasks = resolveImportedClaimSessions(reading.first)]]
           ELSE Thrown)

-----------------------------------------------------------------------------
(* Edits by hand, and by checkouts of before the guard. *)

\* bound: as many as the start allows
Rewritten(files) ==
  /\ editsLeft > 0 /\ reading.at # "end"
  /\ disk' = files /\ files # disk
  /\ editsLeft' = editsLeft - 1
  /\ moments' = moments \cup {files}
  /\ UNCHANGED <<reading, decisions>>

\* A claim has a session of its own.
FreshClaims == [worker : LegacyWorkers, epoch : {2}, session : {editsLeft}]

EditLock ==
  \E i \in Ids : \E lock \in {NoFile} \cup FreshClaims :
    Rewritten([disk EXCEPT !.locks[i] = lock])

\* A claim elsewhere writes its lock first, and the same into the ticket.
EditTicket ==
  \E p \in TicketPaths, edit \in TicketEdits :
    \E claim \in {NoFile} \cup (IF edit.claims THEN FreshClaims \cup {disk.locks[edit.id]}
                                 ELSE {}) :
      Rewritten([disk EXCEPT !.tickets[p] =
                [id |-> edit.id, status |-> edit.status, claim |-> claim]])

RemoveTicket == \E p \in TicketPaths : Rewritten([disk EXCEPT !.tickets[p] = NoFile])

-----------------------------------------------------------------------------

ImportInit ==
  /\ \E start \in ImportStarts :
       disk = start.disk /\ editsLeft = start.edits /\ moments = {start.disk}
  /\ reading \in {Begun("report", NothingMade), Begun("import", NothingMade)}
  /\ decisions = {}

ImportNext ==
  \/ discoverTicketFiles \/ ReadTicket \/ ReadClaim \/ discoverClaimLockFiles \/ ReadLock
  \/ SamePaths \/ SameLocks \/ SameTicket \/ SameLock
  \/ Report \/ Prepared \/ importedState
  \/ EditLock \/ EditTicket \/ RemoveTicket

ImportSpec == ImportInit /\ [][ImportNext]_importVars

-----------------------------------------------------------------------------
(* Properties. *)

Imported == reading.mode = "imported"

\* The archive is what the files were at one moment of the import, though each
\* was read at another, and the task of every ticket is in the queue once.
ArchivedAsItWas ==
  Imported =>
    /\ reading.made.archive \in moments
    /\ \A p \in There(reading.made.archive.tickets) :
         \E task \in reading.made.tasks :
           task.path = p /\ task.id = reading.made.archive.tickets[p].id
    /\ \A task, other \in reading.made.tasks : task.id = other.id => task = other

\* Every claim lock of the archive belongs to a task that holds the same
\* generation for the same worker.
ClaimsCarriedOver ==
  Imported =>
    \A i \in There(reading.made.archive.locks) :
      \E task \in reading.made.tasks :
        /\ task.id = i /\ task.claim # NoFile
        /\ task.claim.worker = reading.made.archive.locks[i].worker
        /\ task.claim.epoch = reading.made.archive.locks[i].epoch

\* Where ticket and lock name two sessions, somebody chose between these two,
\* and a lease has the one that was chosen.
SessionsDecided ==
  Imported =>
    \A task \in reading.made.tasks :
      LET ticket == reading.made.archive.tickets[task.path].claim
          lock == reading.made.archive.locks[task.id]
      IN ticket # NoFile /\ lock # NoFile /\ ticket.session # lock.session =>
           \E d \in decisions :
             /\ d.conflict = Conflict(task.path, reading.made.archive.tickets[task.path], lock)
             /\ task.status = "claimed" =>
                  task.claim.session = IF d.source = "lock" THEN lock.session
                                       ELSE ticket.session

\* Files that are read one by one while others write them, and decisions taken
\* on an earlier report, give a queue that is true to one moment.
ImportIsFaithful == ArchivedAsItWas /\ ClaimsCarriedOver /\ SessionsDecided
=============================================================================
