----------------------------- MODULE SealLedger -----------------------------
(***************************************************************************)
(* `krn install seal' (scripts/lib/install/install-seal.mjs): the digest   *)
(* of a release commit is entered into config/release-digests.json, whose  *)
(* committed version is the anchor a sealed entry must not depart from.    *)
(*                                                                         *)
(* A seal reads the ledger, then HEAD, then writes the ledger it read with *)
(* one more entry.  Nothing is locked.                                     *)
(***************************************************************************)
EXTENDS AtomicWrite

CONSTANTS
  Sealers,      \* `krn install seal' processes
  SealStarts,   \* what each seals; do they run at once; may the power fail;
                \* the edits made by hand
  ReleaseCommits,
  Digests,
  Unsealed      \* no entry in the ledger

Ledgers == [ReleaseCommits -> Digests \cup {Unsealed}]

ASSUME SealAssumption ==
  /\ Torn \notin Ledgers
  /\ SealStarts \subseteq
       [seals : [Sealers -> [commit : ReleaseCommits, digest : Digests]],
        together : BOOLEAN, power : BOOLEAN, edits : Nat]

VARIABLES
  ledger,       \* the file config/release-digests.json
  committed,    \* the ledger of HEAD
  sealer,       \* what each seal is doing
  sealStart     \* this behaviour's start, with the edits left

sealVars == <<ledger, committed, sealer, sealStart>>

SealerAt(s, pc) == sealer[s].pc = pc

Seals(s, next) == sealer' = [sealer EXCEPT ![s] = next]

NoneSeals == \A s \in Sealers : sealer[s].pc \in {"start", "done", "refused", "dead"}

-----------------------------------------------------------------------------
(* sealReleaseDigest. *)

\* An unreadable ledger, or another digest for the commit, refuses.
ReadLedger(s) ==
  LET recorded == ledger.now[sealStart.seals[s].commit] IN
  /\ SealerAt(s, "start")
  /\ sealStart.together \/ NoneSeals
  /\ IF ledger.now = Torn \/ recorded \notin {Unsealed, sealStart.seals[s].digest}
     THEN Seals(s, [sealer[s] EXCEPT !.pc = "refused"])
     ELSE Seals(s, [sealer[s] EXCEPT !.pc = "anchor", !.read = ledger.now])
  /\ UNCHANGED <<ledger, committed, sealStart>>

\* The ledger written is the one that was read, with the new entry.
WithSeal(s) == [sealer[s].read EXCEPT ![sealStart.seals[s].commit] =
                                       sealStart.seals[s].digest]

\* Slip: what was committed is not compared.
Departs_Unseen(s) == FALSE

\* The ledger lacks or changed an entry of HEAD.
Departs(s) ==
  \E c \in ReleaseCommits : committed[c] \notin {Unsealed, sealer[s].read[c]}

\* A commit sealed already is done.
CheckAnchor(s) ==
  /\ SealerAt(s, "anchor")
  /\ Seals(s,
       IF Departs(s) THEN [sealer[s] EXCEPT !.pc = "refused"]
       ELSE IF WithSeal(s) = sealer[s].read
       THEN [sealer[s] EXCEPT !.pc = "done"]
       ELSE [sealer[s] EXCEPT !.pc = "write", !.temp = OpenTemp(WithSeal(s)),
                              !.anchor = committed])
  /\ UNCHANGED <<ledger, committed, sealStart>>

-----------------------------------------------------------------------------
(* writeAtomic. *)

WriteTemp(s) ==
  /\ sealer[s].temp.step = "write"
  /\ \E temp \in Written(sealer[s].temp) : Seals(s, [sealer[s] EXCEPT !.temp = temp])
  /\ UNCHANGED <<ledger, committed, sealStart>>

SyncTemp(s) ==
  /\ sealer[s].temp.step = "sync"
  /\ Seals(s, [sealer[s] EXCEPT !.temp = Synced(@)])
  /\ UNCHANGED <<ledger, committed, sealStart>>

RenameTemp(s) ==
  /\ sealer[s].temp.step = "rename"
  /\ ledger' = Renamed(ledger, sealer[s].temp)
  /\ Seals(s, [sealer[s] EXCEPT !.pc = "flush", !.temp = NoTemp])
  /\ UNCHANGED <<committed, sealStart>>

SyncDirectory(s) ==
  /\ SealerAt(s, "flush")
  /\ ledger' \in Flushed(ledger)
  /\ Seals(s, [sealer[s] EXCEPT !.pc = "done"])
  /\ UNCHANGED <<committed, sealStart>>

\* A call fails before the rename, or the process is killed: the temporary file
\* is removed or left behind, and the ledger is as it was.
WriteFails(s) ==
  /\ sealer[s].temp.step # "none"
  /\ \E pc \in {"refused", "dead"} :
       Seals(s, [sealer[s] EXCEPT !.pc = pc, !.temp = NoTemp])
  /\ UNCHANGED <<ledger, committed, sealStart>>

-----------------------------------------------------------------------------
(* Hands and the machine. *)

CommitLedger ==
  /\ ledger.now # Torn
  /\ ledger.now # committed
  /\ committed' = ledger.now
  /\ UNCHANGED <<ledger, sealer, sealStart>>

\* The working ledger loses or changes an entry while nothing is sealed.
EditLedger ==
  /\ sealStart.edits > 0
  /\ NoneSeals
  /\ ledger.now # Torn
  /\ \E c \in ReleaseCommits, d \in Digests \cup {Unsealed} :
       ledger' = NewFile([ledger.now EXCEPT ![c] = d])
  /\ sealStart' = [sealStart EXCEPT !.edits = @ - 1]
  /\ UNCHANGED <<committed, sealer>>

\* The power fails, and every seal with it.
PowerFails ==
  /\ sealStart.power
  /\ ~NoneSeals
  /\ ledger' \in PowerLost(ledger)
  /\ sealer' = [s \in Sealers |->
                  IF sealer[s].pc = "start" THEN sealer[s]
                  ELSE [sealer[s] EXCEPT !.pc = "dead", !.temp = NoTemp]]
  /\ UNCHANGED <<committed, sealStart>>

-----------------------------------------------------------------------------
NoEntries == [c \in ReleaseCommits |-> Unsealed]

SealInit ==
  /\ ledger = NewFile(NoEntries)
  /\ committed = NoEntries
  /\ sealer = [s \in Sealers |-> [pc |-> "start", read |-> NoEntries,
                                  anchor |-> NoEntries, temp |-> NoTemp]]
  /\ sealStart \in SealStarts

SealNext ==
  \/ \E s \in Sealers :
       \/ ReadLedger(s) \/ CheckAnchor(s) \/ WriteTemp(s) \/ SyncTemp(s)
       \/ RenameTemp(s) \/ SyncDirectory(s) \/ WriteFails(s)
  \/ CommitLedger \/ EditLedger \/ PowerFails

SealSpec == SealInit /\ [][SealNext]_sealVars

-----------------------------------------------------------------------------
(* Properties. *)

File == INSTANCE DurableFile WITH Texts <- Ledgers, text <- ledger.now, kept <- ledger.disk

\* Short writes, failing calls and a power failure at any point add up to a
\* ledger that is replaced as a whole: a reader finds the old one or the new one.
ImplementsDurableFile == File!Spec

\* A seal never writes over what was committed when it looked, not even after an
\* entry was dropped from or changed in the working ledger, nor after two seals
\* at once lost one another's: what is lost is found by the next seal.
SealsKeepCommitted ==
  [][\A s \in Sealers :
       (sealer[s].temp.step = "rename" /\ sealer'[s].pc = "flush")
       => \A c \in ReleaseCommits :
            sealer[s].anchor[c] \in {Unsealed, ledger'.now[c]}]_sealVars
=============================================================================
