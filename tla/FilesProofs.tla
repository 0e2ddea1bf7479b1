----------------------------- MODULE FilesProofs -----------------------------
(***************************************************************************)
(* The commands that work on files others can change: what they guarantee  *)
(* for any number of processes, files and edits, wherever a process dies.  *)
(***************************************************************************)
EXTENDS SealLedger, SkillsExport, CatalogConfig, SetupWorkflow, QueueImport,
        OutcomeCapsule, FiniteSetTheorems, WellFoundedInduction, TLAPS

-----------------------------------------------------------------------------
(***************************************************************************)
(* The seal ledger.  A temporary file is renamed only when it was written  *)
(* to its end and synced, so no torn text ever reaches the ledger.  And    *)
(* the text of a temporary file holds every entry that was committed when  *)
(* its seal looked: it holds what the seal had read, which did not depart  *)
(* from those entries, and the one it adds was missing or the same there.  *)
(***************************************************************************)

Temps == [step : {"none", "write", "sync", "rename"}, text : Ledgers \cup {Torn},
          written : Nat, synced : BOOLEAN]

SealRecords == [pc : {"start", "anchor", "write", "flush", "done", "refused",
                      "dead"},
                read : Ledgers, anchor : Ledgers, temp : Temps]

Starts == [seals : [Sealers -> [commit : ReleaseCommits, digest : Digests]],
           together : BOOLEAN, power : BOOLEAN, edits : Nat]

SealTypes ==
  /\ ledger \in [now : Ledgers, disk : SUBSET Ledgers]
  /\ committed \in Ledgers
  /\ sealer \in [Sealers -> SealRecords]
  /\ sealStart \in Starts

\* What a seal has read can take its entry.
ReadTakesSeal ==
  \A s \in Sealers : sealer[s].pc = "anchor" =>
    sealer[s].read[sealStart.seals[s].commit]
      \in {Unsealed, sealStart.seals[s].digest}

\* Only a whole text is renamed.
TempsAreSynced ==
  \A s \in Sealers : LET temp == sealer[s].temp IN
    /\ temp.step # "none" => sealer[s].pc = "write" /\ temp.text # Torn
    /\ temp.step \in {"sync", "rename"} => temp.written = Pieces
    /\ temp.step = "rename" => temp.synced

\* The text to come keeps what was committed when the seal looked.
TempsKeepAnchor ==
  \A s \in Sealers : sealer[s].temp.step # "none" =>
    \A c \in ReleaseCommits :
      sealer[s].anchor[c] \in {Unsealed, sealer[s].temp.text[c]}

SealInv == SealTypes /\ ReadTakesSeal /\ TempsAreSynced /\ TempsKeepAnchor

LEMMA NoTempFacts == NoTemp \in Temps /\ NoTemp.step = "none"
BY DEF NoTemp, Temps

\* A seal goes on; the ledgers stay.
LEMMA SealsKeepInv ==
  ASSUME SealInv, NEW s \in Sealers, NEW next,
         Seals(s, next), UNCHANGED <<committed, sealStart>>,
         ledger' \in [now : Ledgers, disk : SUBSET Ledgers],
         next \in SealRecords,
         next.pc = "anchor" => next.read[sealStart.seals[s].commit]
                                 \in {Unsealed, sealStart.seals[s].digest},
         next.temp.step # "none" => next.pc = "write" /\ next.temp.text # Torn,
         next.temp.step \in {"sync", "rename"} => next.temp.written = Pieces,
         next.temp.step = "rename" => next.temp.synced,
         next.temp.step # "none" =>
           \A c \in ReleaseCommits : next.anchor[c] \in {Unsealed, next.temp.text[c]}
  PROVE  SealInv'
<1>1. \A t \in Sealers : sealer'[t] = IF t = s THEN next ELSE sealer[t]
  BY DEF Seals, SealInv, SealTypes
<1>2. SealTypes'  BY <1>1 DEF Seals, SealInv, SealTypes
<1>3. ReadTakesSeal'  BY <1>1 DEF SealInv, ReadTakesSeal
<1>4. TempsAreSynced'  BY <1>1 DEF SealInv, TempsAreSynced
<1>5. TempsKeepAnchor'  BY <1>1 DEF SealInv, TempsKeepAnchor
<1> QED  BY <1>2, <1>3, <1>4, <1>5 DEF SealInv
\* What a seal turns into without its temporary file.
LEMMA WithoutTemp ==
  ASSUME NEW me \in SealRecords, NEW pc \in {"refused", "dead", "flush"}
  PROVE  LET next == [me EXCEPT !.pc = pc, !.temp = NoTemp] IN
         next \in SealRecords /\ next.pc = pc /\ next.temp.step = "none"
BY NoTempFacts DEF SealRecords

\* The steps of a seal.
LEMMA SealerKeepsInv ==
  ASSUME SealInv, NEW s \in Sealers,
         \/ ReadLedger(s) \/ CheckAnchor(s) \/ WriteTemp(s) \/ SyncTemp(s)
         \/ RenameTemp(s) \/ SyncDirectory(s) \/ WriteFails(s)
  PROVE  SealInv'
<1> DEFINE me == sealer[s]
           commit == sealStart.seals[s].commit
           digest == sealStart.seals[s].digest
<1>1. me \in SealRecords  BY DEF SealInv, SealTypes
<1>2. commit \in ReleaseCommits /\ digest \in Digests
  BY DEF SealInv, SealTypes, Starts
<1>3. ledger \in [now : Ledgers, disk : SUBSET Ledgers] /\ committed \in Ledgers
  BY DEF SealInv, SealTypes
<1>4. /\ me.temp.step # "none" => me.pc = "write" /\ me.temp.text # Torn
      /\ me.temp.step \in {"sync", "rename"} => me.temp.written = Pieces
      /\ me.temp.step = "rename" => me.temp.synced
  BY DEF SealInv, TempsAreSynced
<1>5. /\ me.pc = "anchor" => me.read[commit] \in {Unsealed, digest}
      /\ me.temp.step # "none" =>
           \A c \in ReleaseCommits : me.anchor[c] \in {Unsealed, me.temp.text[c]}
  BY DEF SealInv, ReadTakesSeal, TempsKeepAnchor
<1>6. CASE ReadLedger(s)
  <2> DEFINE next == [me EXCEPT !.pc = "anchor", !.read = ledger.now]
             refused == [me EXCEPT !.pc = "refused"]
  <2>1. /\ me.pc = "start" /\ UNCHANGED <<ledger, committed, sealStart>>
        /\ \/ Seals(s, refused)
           \/ Seals(s, next) /\ ledger.now[commit] \in {Unsealed, digest}
    BY <1>6 DEF ReadLedger, SealerAt
  <2>2. me.temp.step = "none"  BY <1>4, <2>1
  <2>3. /\ next \in SealRecords /\ next.pc = "anchor" /\ next.read = ledger.now
        /\ next.temp = me.temp
        /\ refused \in SealRecords /\ refused.pc = "refused"
        /\ refused.temp = me.temp
    BY <1>1, <1>3 DEF SealRecords
  <2> HIDE DEF next, refused, me, commit, digest
  <2> QED  BY <1>3, <2>1, <2>2, <2>3, SealsKeepInv DEF commit, digest
<1>7. CASE CheckAnchor(s)
  <2> DEFINE text == WithSeal(s)
             next == [me EXCEPT !.pc = "write", !.temp = OpenTemp(text),
                                !.anchor = committed]
             at(pc) == [me EXCEPT !.pc = pc]
  <2>1. /\ me.pc = "anchor" /\ UNCHANGED <<ledger, committed, sealStart>>
        /\ \/ Seals(s, at("refused")) \/ Seals(s, at("done"))
           \/ Seals(s, next) /\ ~Departs(s)
    BY <1>7 DEF CheckAnchor, SealerAt
  <2>2. me.temp.step = "none"  BY <1>4, <2>1
  <2>3. text \in Ledgers
    BY <1>1, <1>2 DEF WithSeal, SealRecords, Ledgers
  <2>4. text # Torn  BY <2>3, SealAssumption
  <2>5. OpenTemp(text) \in Temps
    BY <2>3 DEF OpenTemp, NoTemp, Temps
  <2>6. /\ next \in SealRecords /\ next.pc = "write"
        /\ next.temp = OpenTemp(text) /\ next.anchor = committed
    BY <1>1, <1>3, <2>5 DEF SealRecords
  <2>7. OpenTemp(text).step = "write" /\ OpenTemp(text).text = text
    BY DEF OpenTemp, NoTemp
  <2>8. ~Departs(s) => \A c \in ReleaseCommits : committed[c] \in {Unsealed, text[c]}
    <3> SUFFICES ASSUME NEW c \in ReleaseCommits,
                        committed[c] \in {Unsealed, me.read[c]}
                 PROVE  committed[c] \in {Unsealed, text[c]}
      BY DEF Departs
    <3>1. me.read \in Ledgers  BY <1>1 DEF SealRecords
    <3>2. text[c] = IF c = commit THEN digest ELSE me.read[c]
      BY <1>2, <3>1 DEF WithSeal, Ledgers
    <3> QED  BY <1>5, <2>1, <3>2
  <2>9. \A pc \in {"refused", "done"} :
          at(pc) \in SealRecords /\ at(pc).pc = pc /\ at(pc).temp = me.temp
    BY <1>1 DEF SealRecords
  <2> HIDE DEF next, at, text, me, commit, digest
  <2> QED
    BY <1>3, <2>1, <2>2, <2>4, <2>6, <2>7, <2>8, <2>9, SealsKeepInv
<1>8. CASE WriteTemp(s)
  <2>1. /\ me.temp.step = "write" /\ UNCHANGED <<ledger, committed, sealStart>>
        /\ \E n \in (me.temp.written + 1)..Pieces :
             Seals(s, [me EXCEPT !.temp =
               IF n = Pieces THEN [me.temp EXCEPT !.written = n, !.step = "sync"]
                             ELSE [me.temp EXCEPT !.written = n]])
    BY <1>8 DEF WriteTemp, Written
  <2>2. PICK n \in (me.temp.written + 1)..Pieces :
          Seals(s, [me EXCEPT !.temp =
            IF n = Pieces THEN [me.temp EXCEPT !.written = n, !.step = "sync"]
                          ELSE [me.temp EXCEPT !.written = n]])
    BY <2>1
  <2> DEFINE temp == IF n = Pieces
                     THEN [me.temp EXCEPT !.written = n, !.step = "sync"]
                     ELSE [me.temp EXCEPT !.written = n]
             next == [me EXCEPT !.temp = temp]
  <2>3. me.temp \in Temps  BY <1>1 DEF SealRecords
  <2>4. n \in Nat  BY <2>3, PiecesAssumption DEF Temps
  <2>5. /\ temp \in Temps /\ temp.text = me.temp.text /\ temp.written = n
        /\ temp.step = IF n = Pieces THEN "sync" ELSE "write"
    BY <2>1, <2>3, <2>4 DEF Temps
  <2> HIDE DEF temp
  <2>6. /\ next \in SealRecords /\ next.pc = me.pc /\ next.temp = temp
        /\ next.anchor = me.anchor
    BY <1>1, <2>5 DEF SealRecords
  <2>7. Seals(s, next)  BY <2>2 DEF temp
  <2> HIDE DEF next, me, commit, digest
  <2> QED
    BY <1>3, <1>4, <1>5, <2>1, <2>5, <2>6, <2>7, SealsKeepInv
<1>9. CASE SyncTemp(s)
  <2> DEFINE next == [me EXCEPT !.temp = Synced(me.temp)]
  <2>1. /\ me.temp.step = "sync" /\ UNCHANGED <<ledger, committed, sealStart>>
        /\ Seals(s, next)
    BY <1>9 DEF SyncTemp
  <2>2. me.temp \in Temps  BY <1>1 DEF SealRecords
  <2>3. /\ Synced(me.temp) \in Temps /\ Synced(me.temp).text = me.temp.text
        /\ Synced(me.temp).step = "rename" /\ Synced(me.temp).synced
        /\ Synced(me.temp).written = me.temp.written
    BY <2>2 DEF Temps, Synced
  <2>4. /\ next \in SealRecords /\ next.pc = me.pc
        /\ next.temp = Synced(me.temp) /\ next.anchor = me.anchor
    BY <1>1, <2>3 DEF SealRecords
  <2> HIDE DEF next, me, commit, digest
  <2> QED
    BY <1>3, <1>4, <1>5, <2>1, <2>3, <2>4, SealsKeepInv
<1>10. CASE RenameTemp(s)
  <2>1. /\ me.temp.step = "rename" /\ UNCHANGED <<committed, sealStart>>
        /\ ledger' = Renamed(ledger, me.temp)
        /\ Seals(s, [me EXCEPT !.pc = "flush", !.temp = NoTemp])
    BY <1>10 DEF RenameTemp
  <2>2. me.temp.text \in Ledgers
    BY <1>1, <1>4, <2>1 DEF SealRecords, Temps
  <2>3. ledger' \in [now : Ledgers, disk : SUBSET Ledgers]
    BY <1>3, <1>4, <2>1, <2>2 DEF Renamed, Text
  <2> QED  BY <1>1, <2>1, <2>3, WithoutTemp, SealsKeepInv
<1>11. CASE SyncDirectory(s)
  <2> DEFINE next == [me EXCEPT !.pc = "done"]
  <2>1. /\ me.pc = "flush" /\ UNCHANGED <<committed, sealStart>>
        /\ ledger' \in Flushed(ledger) /\ Seals(s, next)
    BY <1>11 DEF SyncDirectory, SealerAt
  <2>2. ledger' \in [now : Ledgers, disk : SUBSET Ledgers]
    BY <1>3, <2>1 DEF Flushed
  <2>3. next \in SealRecords /\ next.pc = "done" /\ next.temp.step = "none"
    BY <1>1, <1>4, <2>1 DEF SealRecords
  <2> HIDE DEF next
  <2> QED  BY <2>1, <2>2, <2>3, SealsKeepInv
<1>12. CASE WriteFails(s)
  <2>1. PICK pc \in {"refused", "dead"} :
          Seals(s, [me EXCEPT !.pc = pc, !.temp = NoTemp])
    BY <1>12 DEF WriteFails
  <2>2. UNCHANGED <<ledger, committed, sealStart>>  BY <1>12 DEF WriteFails
  <2> QED  BY <1>1, <1>3, <2>1, <2>2, WithoutTemp, SealsKeepInv
<1> QED  BY <1>6, <1>7, <1>8, <1>9, <1>10, <1>11, <1>12

LEMMA HandsKeepSealInv ==
  ASSUME SealInv, CommitLedger \/ EditLedger \/ PowerFails \/ UNCHANGED sealVars
  PROVE  SealInv'
<1>1. CASE CommitLedger \/ UNCHANGED sealVars
  <2>1. /\ UNCHANGED <<ledger, sealer, sealStart>>
        /\ committed' \in Ledgers
    BY <1>1 DEF CommitLedger, sealVars, SealInv, SealTypes
  <2> QED
    BY <2>1 DEF SealInv, SealTypes, ReadTakesSeal, TempsAreSynced,
       TempsKeepAnchor
<1>2. CASE EditLedger
  <2>1. /\ UNCHANGED <<committed, sealer>>
        /\ sealStart' = [sealStart EXCEPT !.edits = @ - 1]
        /\ \E c \in ReleaseCommits, d \in Digests \cup {Unsealed} :
             ledger' = NewFile([ledger.now EXCEPT ![c] = d])
    BY <1>2 DEF EditLedger
  <2>2. sealStart' \in Starts /\ sealStart'.seals = sealStart.seals
    BY <1>2, <2>1 DEF EditLedger, SealInv, SealTypes, Starts
  <2>3. ledger' \in [now : Ledgers, disk : SUBSET Ledgers]
    <3>1. ledger.now \in Ledgers  BY DEF SealInv, SealTypes
    <3>2. PICK c \in ReleaseCommits, d \in Digests \cup {Unsealed} :
            ledger' = NewFile([ledger.now EXCEPT ![c] = d])
      BY <2>1
    <3>3. [ledger.now EXCEPT ![c] = d] \in Ledgers  BY <3>1 DEF Ledgers
    <3> QED  BY <3>2, <3>3 DEF NewFile
  <2> QED
    BY <2>1, <2>2, <2>3 DEF SealInv, SealTypes, ReadTakesSeal, TempsAreSynced,
       TempsKeepAnchor
<1>3. CASE PowerFails
  <2>1. /\ UNCHANGED <<committed, sealStart>>
        /\ ledger' \in PowerLost(ledger)
        /\ sealer' = [s \in Sealers |->
                        IF sealer[s].pc = "start" THEN sealer[s]
                        ELSE [sealer[s] EXCEPT !.pc = "dead", !.temp = NoTemp]]
    BY <1>3 DEF PowerFails
  <2>2. ledger' \in [now : Ledgers, disk : SUBSET Ledgers]
    <3>1. PICK text \in ledger.disk : ledger' = NewFile(text)
      BY <2>1 DEF PowerLost
    <3>2. text \in Ledgers  BY DEF SealInv, SealTypes
    <3> QED  BY <3>1, <3>2 DEF NewFile
  <2>3. ASSUME NEW s \in Sealers
        PROVE  /\ sealer'[s] \in SealRecords
               /\ sealer'[s].pc \in {"start", "dead"}
               /\ sealer'[s].temp.step = "none"
    <3>1. sealer[s] \in SealRecords  BY DEF SealInv, SealTypes
    <3>2. sealer[s].pc = "start" => sealer[s].temp.step = "none"
      BY DEF SealInv, TempsAreSynced
    <3> QED  BY <2>1, <3>1, <3>2, WithoutTemp
  <2>4. SealTypes'
    BY <2>1, <2>2, <2>3 DEF SealInv, SealTypes
  <2> QED
    BY <2>3, <2>4 DEF SealInv, ReadTakesSeal, TempsAreSynced, TempsKeepAnchor
<1> QED  BY <1>1, <1>2, <1>3

LEMMA SealStep == SealInv /\ [SealNext]_sealVars => SealInv'
BY SealerKeepsInv, HandsKeepSealInv DEF SealNext

LEMMA SealStarting == SealInit => SealInv
<1> SUFFICES ASSUME SealInit  PROVE SealInv
  OBVIOUS
<1>1. NoEntries \in Ledgers  BY DEF NoEntries, Ledgers
<1>2. \A s \in Sealers :
        /\ sealer[s] \in SealRecords /\ sealer[s].pc = "start"
        /\ sealer[s].temp.step = "none"
  BY <1>1, NoTempFacts DEF SealInit, SealRecords
<1>3. SealTypes
  BY <1>1, <1>2, SealAssumption DEF SealInit, SealTypes, NewFile, Starts
<1> QED
  BY <1>2, <1>3 DEF SealInv, ReadTakesSeal, TempsAreSynced, TempsKeepAnchor

\* What happens to the ledger is what may happen to a file that is replaced as
\* a whole.
LEMMA SealStepsImplement ==
  ASSUME SealInv, [SealNext]_sealVars
  PROVE  [File!Replace \/ File!Settle \/ File!Put \/ File!Crash]_
           <<ledger.now, ledger.disk>>
<1>0. ledger \in [now : Ledgers, disk : SUBSET Ledgers]
        /\ ledger' \in [now : Ledgers, disk : SUBSET Ledgers]
  BY SealStep DEF SealInv, SealTypes
<1>1. ASSUME NEW s \in Sealers, RenameTemp(s)  PROVE File!Replace
  <2> DEFINE temp == sealer[s].temp
  <2>1. temp.step = "rename" /\ ledger' = Renamed(ledger, temp)
    BY <1>1 DEF RenameTemp
  <2>2. temp.written = Pieces /\ temp.synced
    BY <2>1 DEF SealInv, TempsAreSynced
  <2>3. /\ ledger'.now = temp.text
        /\ ledger'.disk = ledger.disk \cup {temp.text}
    BY <2>1, <2>2 DEF Renamed, Text
  <2> QED  BY <1>0, <2>3 DEF File!Replace
<1>2. ASSUME NEW s \in Sealers, SyncDirectory(s)
      PROVE  File!Settle \/ UNCHANGED <<ledger.now, ledger.disk>>
  <2>1. \/ ledger' = ledger
        \/ ledger' = [ledger EXCEPT !.disk = {ledger.now}
                                             \cup (ledger.disk \cap {Torn})]
    BY <1>2 DEF SyncDirectory, Flushed
  <2>2. ledger.disk \cap {Torn} = {}
    BY <1>0, SealAssumption
  <2> QED  BY <1>0, <2>1, <2>2 DEF File!Settle
<1>3. CASE EditLedger
  <2>1. ledger'.now \in Ledgers /\ ledger'.disk = {ledger'.now}
    BY <1>0, <1>3 DEF EditLedger, NewFile
  <2> QED  BY <2>1 DEF File!Put
<1>4. CASE PowerFails
  <2>1. ledger'.now \in ledger.disk /\ ledger'.disk = {ledger'.now}
    <3>1. PICK text \in ledger.disk : ledger' = NewFile(text)
      BY <1>4 DEF PowerFails, PowerLost
    <3> QED  BY <3>1 DEF NewFile
  <2> QED  BY <2>1 DEF File!Crash
<1>5. CASE UNCHANGED ledger  BY <1>5
<1>6. \/ \E s \in Sealers : RenameTemp(s) \/ SyncDirectory(s)
      \/ EditLedger \/ PowerFails \/ UNCHANGED ledger
  BY DEF SealNext, ReadLedger, CheckAnchor, WriteTemp, SyncTemp, WriteFails,
     CommitLedger, sealVars
<1> QED  BY <1>1, <1>2, <1>3, <1>4, <1>5, <1>6

\* Short writes, failing calls, interleaved seals and power failures add up to a
\* file that is replaced as a whole: no reader, before or after a crash, finds a
\* part of a ledger.
THEOREM SealsImplementDurableFile == SealSpec => ImplementsDurableFile
<1>1. SealInit => SealInv  BY SealStarting
<1>2. SealInv /\ [SealNext]_sealVars => SealInv'  BY SealStep
<1>3. SealInit => ledger.now \in Ledgers /\ ledger.disk = {ledger.now}
  BY DEF SealInit, NewFile, NoEntries, Ledgers
<1>4. SealInv /\ [SealNext]_sealVars =>
        [File!Replace \/ File!Settle \/ File!Put \/ File!Crash]_
          <<ledger.now, ledger.disk>>
  BY SealStepsImplement
<1> QED
  BY <1>1, <1>2, <1>3, <1>4, PTL DEF SealSpec, ImplementsDurableFile, File!Spec

\* A seal that puts its ledger in place puts back every entry that was committed
\* when it compared: for any number of seals at once, edits and lost machines.
THEOREM CommittedEntriesKept == SealSpec => SealsKeepCommitted
<1>1. SealInit => SealInv  BY SealStarting
<1>2. SealInv /\ [SealNext]_sealVars => SealInv'  BY SealStep
<1>3. SealInv /\ [SealNext]_sealVars =>
        [\A s \in Sealers :
           (sealer[s].temp.step = "rename" /\ sealer'[s].pc = "flush")
           => \A c \in ReleaseCommits :
                sealer[s].anchor[c] \in {Unsealed, ledger'.now[c]}]_sealVars
  <2> SUFFICES ASSUME SealInv, SealNext, NEW s \in Sealers,
                      sealer[s].temp.step = "rename", sealer'[s].pc = "flush",
                      NEW c \in ReleaseCommits
               PROVE  sealer[s].anchor[c] \in {Unsealed, ledger'.now[c]}
    OBVIOUS
  <2>1. sealer[s].pc = "write" /\ sealer[s].temp.written = Pieces
    BY DEF SealInv, TempsAreSynced
  <2>2. sealer[s].anchor[c] \in {Unsealed, sealer[s].temp.text[c]}
    BY DEF SealInv, TempsKeepAnchor
  <2>3. RenameTemp(s)
    <3>t. sealer \in [Sealers -> SealRecords]  BY DEF SealInv, SealTypes
    <3>1. ASSUME NEW t \in Sealers, t # s, NEW next, Seals(t, next)
          PROVE  FALSE
      <4>1. sealer'[s] = sealer[s]  BY <3>t, <3>1 DEF Seals
      <4> QED  BY <2>1, <4>1
    <3>2. \A t \in Sealers :
            (\/ ReadLedger(t) \/ CheckAnchor(t) \/ WriteTemp(t) \/ SyncTemp(t)
             \/ RenameTemp(t) \/ SyncDirectory(t) \/ WriteFails(t))
            => \E next : Seals(t, next)
      BY DEF ReadLedger, CheckAnchor, WriteTemp, SyncTemp, RenameTemp,
         SyncDirectory, WriteFails
    <3>3. ~ReadLedger(s) /\ ~CheckAnchor(s) /\ ~SyncDirectory(s)
      BY <2>1 DEF ReadLedger, CheckAnchor, SyncDirectory, SealerAt
    <3>4. ~WriteTemp(s) /\ ~SyncTemp(s)
      BY DEF WriteTemp, SyncTemp
    <3>5. ~WriteFails(s)
      <4> SUFFICES ASSUME NEW pc \in {"refused", "dead"},
                          Seals(s, [sealer[s] EXCEPT !.pc = pc, !.temp = NoTemp])
                   PROVE  FALSE
        BY DEF WriteFails
      <4>1. sealer'[s] = [sealer[s] EXCEPT !.pc = pc, !.temp = NoTemp]
        BY <3>t DEF Seals
      <4>2. sealer[s] \in SealRecords  BY <3>t
      <4>3. sealer'[s].pc = pc  BY <4>1, <4>2 DEF SealRecords
      <4> QED  BY <4>3
    <3>6. ~CommitLedger /\ ~EditLedger
      BY <2>1 DEF CommitLedger, EditLedger
    <3>7. ~PowerFails
      <4> SUFFICES ASSUME PowerFails  PROVE FALSE
        OBVIOUS
      <4>1. sealer'[s] = [sealer[s] EXCEPT !.pc = "dead", !.temp = NoTemp]
        BY <2>1 DEF PowerFails
      <4>2. sealer'[s].pc = "dead"  BY <3>t, <4>1, WithoutTemp
      <4> QED  BY <4>2
    <3> QED
      BY <3>1, <3>2, <3>3, <3>4, <3>5, <3>6, <3>7 DEF SealNext
  <2>4. ledger'.now = sealer[s].temp.text
    BY <2>1, <2>3 DEF RenameTemp, Renamed, Text
  <2> QED  BY <2>2, <2>4
<1> QED  BY <1>1, <1>2, <1>3, PTL DEF SealSpec, SealsKeepCommitted

-----------------------------------------------------------------------------
(***************************************************************************)
(* The skills export.  No directory of somebody else is in the place while *)
(* an export that took it for its own is about to replace it, so what is   *)
(* moved aside is an export; and while an export that has replaced the one *)
(* before still holds its backup, some export is in the place, or in the   *)
(* backup of one that has not replaced it.                                 *)
(***************************************************************************)

ExportRecords ==
  [pc : {"start", "pinned", "committed", "judged", "copying", "marked", "aside",
         "installed", "done", "failed", "dead"},
   commit : Nat, dirty : BOOLEAN, preserve : BOOLEAN, copied : Nat,
   krn : Trees, up : Trees]

ExportTypes ==
  /\ source \in [files : Trees, commits : Seq(Trees) \ {<<>>}]
  /\ upstream \in [files : Trees, pinned : BOOLEAN]
  /\ final \in ExportDirectories
  /\ backup \in [Exports -> ExportDirectories]
  /\ export \in [Exports -> ExportRecords]

Replacing(e) == export[e].pc \in {"copying", "marked", "aside"}

\* What is to be replaced is an export or nothing, and so is what was.
OnlyExportsMoved ==
  \A e \in Exports : /\ Replacing(e) => final.kind # "foreign"
                     /\ backup[e].kind # "foreign"

\* What a finished replacement no longer needs is not the last export.
BackupsAreSpare ==
  (\E e \in Exports : export[e].pc = "installed") =>
    \/ final.kind = "export"
    \/ \E e \in Exports : export[e].pc # "installed" /\ backup[e].kind = "export"

ExportInv == ExportTypes /\ OnlyExportsMoved /\ BackupsAreSpare

ExportsKept ==
  /\ HasExport => HasExport'
  /\ final = NotExport => final' = NotExport

LEMMA DirectoryFacts ==
  /\ NoFiles \in Trees
  /\ NoDirectory \in ExportDirectories /\ NoDirectory.kind = "none"
  /\ NotExport \in ExportDirectories /\ NotExport.kind = "foreign"
  /\ Waiting \in ExportRecords
<1>1. NoFiles \in Trees  BY DEF NoFiles, Trees, Missing
<1>2. NoDirectory \in ExportDirectories /\ NoDirectory.kind = "none"
  BY <1>1 DEF NoDirectory, ExportDirectories
<1>3. NotExport \in ExportDirectories /\ NotExport.kind = "foreign"
  BY <1>2 DEF NotExport, ExportDirectories
<1>4. Waiting \in ExportRecords  BY <1>1 DEF Waiting, ExportRecords
<1> QED  BY <1>1, <1>2, <1>3, <1>4

\* An export that only looks and copies.
LEMMA ExportGoesOn ==
  ASSUME ExportInv, NEW e \in Exports, NEW next \in ExportRecords,
         Moves(e, next), UNCHANGED <<source, upstream, final, backup>>,
         next.pc # "installed",
         next.pc \in {"copying", "marked", "aside"} => final.kind # "foreign"
  PROVE  ExportInv' /\ ExportsKept
<1>1. \A d \in Exports : export'[d] = IF d = e THEN next ELSE export[d]
  BY DEF Moves, ExportInv, ExportTypes
<1>2. ExportTypes'  BY <1>1 DEF Moves, ExportInv, ExportTypes
<1>3. OnlyExportsMoved'
  BY <1>1 DEF ExportInv, OnlyExportsMoved, Replacing
<1>4. BackupsAreSpare'
  BY <1>1 DEF ExportInv, BackupsAreSpare
<1> QED  BY <1>2, <1>3, <1>4 DEF ExportInv, ExportsKept, HasExport

LEMMA Refused ==
  ASSUME ExportInv, NEW e \in Exports, Refuse(e),
         UNCHANGED <<source, upstream, final, backup>>
  PROVE  ExportInv' /\ ExportsKept
<1>1. [Waiting EXCEPT !.pc = "failed"] \in ExportRecords
  BY DirectoryFacts DEF ExportRecords
<1>2. [Waiting EXCEPT !.pc = "failed"].pc = "failed"
  BY DirectoryFacts DEF ExportRecords
<1> QED  BY <1>1, <1>2, ExportGoesOn DEF Refuse

\* The steps of an export up to the renames.
LEMMA ExportLooks ==
  ASSUME ExportInv, NEW e \in Exports,
         \/ CheckUpstream(e) \/ HarnessCommit(e) \/ SourceStatus(e)
         \/ Destination(e) \/ CopyFile(e) \/ VerifyBlobs(e) \/ Dies(e)
  PROVE  ExportInv' /\ ExportsKept
<1> DEFINE me == export[e]
<1>1. me \in ExportRecords /\ final \in ExportDirectories
  BY DEF ExportInv, ExportTypes
<1>2. /\ source.files \in Trees /\ upstream.files \in Trees
      /\ Len(source.commits) \in Nat
  BY DEF ExportInv, ExportTypes
<1>3. UNCHANGED <<source, upstream, final, backup>>
  BY DEF CheckUpstream, HarnessCommit, SourceStatus, Destination, CopyFile,
     VerifyBlobs, Dies
<1>4. CASE Refuse(e)  BY <1>3, <1>4, Refused
<1>5. CASE CheckUpstream(e) /\ ~Refuse(e)
  <2> DEFINE next == [me EXCEPT !.pc = "pinned"]
  <2>1. Moves(e, next)  BY <1>5 DEF CheckUpstream
  <2>2. next \in ExportRecords /\ next.pc = "pinned"
    BY <1>1 DEF ExportRecords
  <2> HIDE DEF next
  <2> QED  BY <1>3, <2>1, <2>2, ExportGoesOn
<1>6. CASE HarnessCommit(e)
  <2> DEFINE next == [me EXCEPT !.pc = "committed",
                                !.commit = Len(source.commits)]
  <2>1. Moves(e, next)  BY <1>6 DEF HarnessCommit
  <2>2. next \in ExportRecords /\ next.pc = "committed"
    BY <1>1, <1>2 DEF ExportRecords
  <2> HIDE DEF next
  <2> QED  BY <1>3, <2>1, <2>2, ExportGoesOn
<1>7. CASE SourceStatus(e) /\ ~Refuse(e)
  <2> DEFINE dirty == Differs(source.files, SourceHead)
             next == [me EXCEPT !.pc = "judged", !.dirty = dirty]
  <2>1. Moves(e, next)  BY <1>7 DEF SourceStatus
  <2>2. dirty \in BOOLEAN  BY DEF Differs
  <2> HIDE DEF dirty
  <2>3. next \in ExportRecords /\ next.pc = "judged"
    BY <1>1, <2>2 DEF ExportRecords
  <2> HIDE DEF next
  <2> QED  BY <1>3, <2>1, <2>3, ExportGoesOn
<1>8. CASE Destination(e) /\ ~Refuse(e)
  <2> DEFINE next == [me EXCEPT !.pc = "copying",
                                !.preserve = final.kind = "export"]
  <2>1. Moves(e, next) /\ final.kind # "foreign"  BY <1>8 DEF Destination
  <2>2. next \in ExportRecords /\ next.pc = "copying"
    BY <1>1 DEF ExportRecords
  <2> HIDE DEF next
  <2> QED  BY <1>3, <2>1, <2>2, ExportGoesOn
<1>9. CASE CopyFile(e)
  <2> DEFINE n == me.copied
             krn == [me.krn EXCEPT ![n + 1] = source.files[n + 1]]
             up == [me.up EXCEPT ![n + 1 - FileCount] =
                      upstream.files[n + 1 - FileCount]]
             ours == [me EXCEPT !.copied = n + 1, !.krn = krn]
             theirs == [me EXCEPT !.copied = n + 1, !.up = up]
  <2>1. /\ Moves(e, IF n < FileCount THEN ours ELSE theirs)
        /\ me.pc = "copying" /\ n < 2 * FileCount
    BY <1>9 DEF CopyFile, ExportAt
  <2>2. n \in Nat /\ me.krn \in Trees /\ me.up \in Trees
    BY <1>1 DEF ExportRecords
  <2>3. n < FileCount => krn \in Trees
    <3> SUFFICES ASSUME n < FileCount  PROVE krn \in Trees
      OBVIOUS
    <3>1. n + 1 \in SkillFiles  BY <2>2, ExportAssumption DEF SkillFiles
    <3>2. source.files[n + 1] \in 0..2  BY <1>2, <3>1 DEF Trees
    <3> QED  BY <2>2, <3>2 DEF Trees
  <2>4. ~(n < FileCount) => up \in Trees
    <3> SUFFICES ASSUME ~(n < FileCount)  PROVE up \in Trees
      OBVIOUS
    <3>1. n + 1 - FileCount \in SkillFiles
      BY <2>1, <2>2, ExportAssumption DEF SkillFiles
    <3>2. upstream.files[n + 1 - FileCount] \in 0..2
      BY <1>2, <3>1 DEF Trees
    <3> QED  BY <2>2, <3>2 DEF Trees
  <2>n. n + 1 \in Nat  BY <2>2
  <2> HIDE DEF krn, up, n
  <2>5. n < FileCount => ours \in ExportRecords /\ ours.pc = "copying"
    BY <1>1, <2>1, <2>n, <2>3 DEF ExportRecords
  <2>6. ~(n < FileCount) => theirs \in ExportRecords /\ theirs.pc = "copying"
    BY <1>1, <2>1, <2>n, <2>4 DEF ExportRecords
  <2>7. final.kind # "foreign"
    BY <2>1 DEF ExportInv, OnlyExportsMoved, Replacing
  <2> HIDE DEF ours, theirs, me
  <2> QED  BY <1>3, <2>1, <2>5, <2>6, <2>7, ExportGoesOn
<1>10. CASE VerifyBlobs(e) /\ ~Refuse(e)
  <2> DEFINE next == [me EXCEPT !.pc = "marked", !.copied = 0]
  <2>1. Moves(e, next) /\ me.pc = "copying"
    BY <1>10 DEF VerifyBlobs, ExportAt
  <2>2. next \in ExportRecords /\ next.pc = "marked"
    BY <1>1 DEF ExportRecords
  <2>3. final.kind # "foreign"
    BY <2>1 DEF ExportInv, OnlyExportsMoved, Replacing
  <2> HIDE DEF next, me
  <2> QED  BY <1>3, <2>1, <2>2, <2>3, ExportGoesOn
<1>11. CASE Dies(e)
  <2> DEFINE next == [Waiting EXCEPT !.pc = "dead"]
  <2>1. Moves(e, next)  BY <1>11 DEF Dies
  <2>2. next \in ExportRecords /\ next.pc = "dead"
    BY DirectoryFacts DEF ExportRecords
  <2> HIDE DEF next
  <2> QED  BY <1>3, <2>1, <2>2, ExportGoesOn
<1> QED  BY <1>4, <1>5, <1>6, <1>7, <1>8, <1>9, <1>10, <1>11

\* The renames of an export, and what it does when one fails.
LEMMA ExportRenames ==
  ASSUME ExportInv, NEW e \in Exports,
         MoveAside(e) \/ Install(e) \/ RenameFails(e) \/ Cleanup(e)
  PROVE  ExportInv' /\ ExportsKept
<1> DEFINE me == export[e]
<1>1. /\ me \in ExportRecords /\ final \in ExportDirectories
      /\ backup \in [Exports -> ExportDirectories]
      /\ export \in [Exports -> ExportRecords]
  BY DEF ExportInv, ExportTypes
<1>2. /\ Replacing(e) => final.kind # "foreign"
      /\ \A d \in Exports : backup[d].kind # "foreign"
  BY DEF ExportInv, OnlyExportsMoved
<1>3. ASSUME NEW next \in ExportRecords, Moves(e, next), UNCHANGED source,
             UNCHANGED upstream, final' \in ExportDirectories,
             backup' \in [Exports -> ExportDirectories]
      PROVE  /\ ExportTypes'
             /\ \A d \in Exports : export'[d] = IF d = e THEN next ELSE export[d]
  BY <1>3 DEF ExportInv, ExportTypes, Moves
<1>4. CASE MoveAside(e)
  <2> DEFINE next == [me EXCEPT !.pc = "aside"]
  <2>1. /\ me.pc = "marked" /\ Moves(e, next) /\ UNCHANGED <<source, upstream>>
        /\ \/ UNCHANGED <<final, backup>>
           \/ /\ final.kind # "none" /\ final' = NoDirectory
              /\ backup' = [backup EXCEPT ![e] = final]
    BY <1>4 DEF MoveAside, ExportAt
  <2>2. next \in ExportRecords /\ next.pc = "aside"
    BY <1>1 DEF ExportRecords
  <2> HIDE DEF next
  <2>3. CASE UNCHANGED <<final, backup>>
    <3>1. final.kind # "foreign"  BY <1>2, <2>1 DEF Replacing
    <3> QED  BY <2>1, <2>2, <2>3, <3>1, ExportGoesOn
  <2>4. CASE /\ final.kind # "none" /\ final' = NoDirectory
             /\ backup' = [backup EXCEPT ![e] = final]
    <3>1. final.kind = "export"
      BY <1>1, <1>2, <2>1, <2>4 DEF Replacing, ExportDirectories
    <3>2. \A d \in Exports : backup'[d] = IF d = e THEN final ELSE backup[d]
      BY <1>1, <2>4
    <3>3. /\ ExportTypes'
          /\ \A d \in Exports : export'[d] = IF d = e THEN next ELSE export[d]
      BY <1>1, <1>3, <2>1, <2>2, <2>4, DirectoryFacts
    <3>4. final'.kind = "none"  BY <2>4, DirectoryFacts
    <3>5. OnlyExportsMoved'
      BY <1>2, <3>1, <3>2, <3>4 DEF OnlyExportsMoved, Replacing
    <3>6. export'[e].pc # "installed" /\ backup'[e].kind = "export"
      BY <2>2, <3>1, <3>2, <3>3
    <3>7. BackupsAreSpare' /\ HasExport'
      BY <3>6 DEF BackupsAreSpare, HasExport
    <3>8. final # NotExport  BY <3>1, DirectoryFacts
    <3> QED  BY <3>3, <3>5, <3>7, <3>8 DEF ExportInv, ExportsKept
  <2> QED  BY <2>1, <2>3, <2>4
<1>5. CASE Install(e)
  <2> DEFINE next == [me EXCEPT !.pc = "installed"]
  <2>1. /\ me.pc = "aside" /\ Moves(e, next) /\ UNCHANGED <<source, upstream, backup>>
        /\ final.kind = "none" /\ final' = Staged(e)
    BY <1>5 DEF Install, ExportAt
  <2>2. next \in ExportRecords /\ next.pc = "installed"
    BY <1>1 DEF ExportRecords
  <2>3. final' \in ExportDirectories /\ final'.kind = "export"
    BY <1>1, <2>1 DEF Staged, ExportDirectories, ExportRecords
  <2> HIDE DEF next
  <2>4. /\ ExportTypes'
        /\ \A d \in Exports : export'[d] = IF d = e THEN next ELSE export[d]
    BY <1>1, <1>3, <2>1, <2>2, <2>3
  <2>5. OnlyExportsMoved'
    BY <1>2, <2>1, <2>3 DEF OnlyExportsMoved
  <2>6. BackupsAreSpare' /\ HasExport'
    BY <2>3 DEF BackupsAreSpare, HasExport
  <2>7. final # NotExport  BY <2>1, DirectoryFacts
  <2> QED  BY <2>4, <2>5, <2>6, <2>7 DEF ExportInv, ExportsKept
<1>6. CASE RenameFails(e)
  <2> DEFINE next == [Waiting EXCEPT !.pc = "failed"]
  <2>1. /\ me.pc \in {"marked", "aside"} /\ Moves(e, next)
        /\ UNCHANGED <<source, upstream>>
        /\ final' = IF final.kind = "none" /\ backup[e].kind # "none"
                    THEN backup[e] ELSE final
        /\ backup' = [backup EXCEPT ![e] = NoDirectory]
    BY <1>6 DEF RenameFails, UndoSwap, Refuse, ExportAt
  <2>2. next \in ExportRecords /\ next.pc = "failed"
    BY DirectoryFacts DEF ExportRecords
  <2> HIDE DEF next
  <2>3. final' \in ExportDirectories
    BY <1>1, <2>1
  <2>4. \A d \in Exports : backup'[d] = IF d = e THEN NoDirectory ELSE backup[d]
    BY <1>1, <2>1
  <2>5. /\ ExportTypes'
        /\ \A d \in Exports : export'[d] = IF d = e THEN next ELSE export[d]
    BY <1>1, <1>3, <2>1, <2>2, <2>3, DirectoryFacts
  <2>6. final.kind # "foreign"  BY <1>2, <2>1 DEF Replacing
  <2>7. /\ final'.kind # "foreign"
        /\ final.kind = "export" => final'.kind = "export"
        /\ backup[e].kind = "export" => final'.kind = "export"
    BY <1>1, <1>2, <2>1, <2>6 DEF ExportDirectories
  <2>8. OnlyExportsMoved'
    BY <1>2, <2>4, <2>7, DirectoryFacts DEF OnlyExportsMoved
  <2>9. BackupsAreSpare'
    BY <2>1, <2>2, <2>4, <2>5, <2>7 DEF ExportInv, BackupsAreSpare
  <2>10. HasExport => HasExport'
    BY <2>4, <2>7 DEF HasExport
  <2>11. final # NotExport  BY <2>6, DirectoryFacts
  <2> QED  BY <2>5, <2>8, <2>9, <2>10, <2>11 DEF ExportInv, ExportsKept
<1>7. CASE Cleanup(e)
  <2> DEFINE next == [Waiting EXCEPT !.pc = "done"]
  <2>1. /\ me.pc = "installed" /\ Moves(e, next)
        /\ UNCHANGED <<source, upstream, final>>
        /\ backup' \in {backup, [backup EXCEPT ![e] = NoDirectory]}
    BY <1>7 DEF Cleanup, ExportAt
  <2>2. next \in ExportRecords /\ next.pc = "done"
    BY DirectoryFacts DEF ExportRecords
  <2> HIDE DEF next
  <2>3. \A d \in Exports : backup'[d] = backup[d]
                             \/ (d = e /\ backup'[d] = NoDirectory)
    BY <1>1, <2>1
  <2>4. /\ ExportTypes'
        /\ \A d \in Exports : export'[d] = IF d = e THEN next ELSE export[d]
    BY <1>1, <1>3, <2>1, <2>2, DirectoryFacts
  <2>5. OnlyExportsMoved'
    BY <1>2, <2>1, <2>2, <2>3, <2>4, DirectoryFacts
    DEF ExportInv, OnlyExportsMoved, Replacing
  <2>6. final.kind = "export" \/
          \E d \in Exports : export[d].pc # "installed" /\ backup[d].kind = "export"
    BY <2>1 DEF ExportInv, BackupsAreSpare
  <2>7. final'.kind = "export" \/
          \E d \in Exports : export'[d].pc # "installed" /\ backup'[d].kind = "export"
    BY <2>1, <2>3, <2>4, <2>6
  <2>8. BackupsAreSpare' /\ HasExport'
    BY <2>7 DEF BackupsAreSpare, HasExport
  <2> QED  BY <2>1, <2>4, <2>5, <2>8 DEF ExportInv, ExportsKept
<1> QED  BY <1>4, <1>5, <1>6, <1>7

\* What people do with the checkouts and the directory.
LEMMA HandsKeepExportInv ==
  ASSUME ExportInv,
         \/ EditSource \/ CommitSource \/ EditUpstream \/ EditExport
         \/ PlaceForeign \/ UNCHANGED exportVars
  PROVE  ExportInv' /\ ExportsKept
<1>1. /\ source \in [files : Trees, commits : Seq(Trees) \ {<<>>}]
      /\ upstream \in [files : Trees, pinned : BOOLEAN]
      /\ final \in ExportDirectories
  BY DEF ExportInv, ExportTypes
<1>2. ASSUME NEW tree \in Trees, NEW f \in SkillFiles, NEW v \in 0..2
      PROVE  [tree EXCEPT ![f] = v] \in Trees
  BY DEF Trees
<1>3. ASSUME UNCHANGED <<backup, export>>,
             source' \in [files : Trees, commits : Seq(Trees) \ {<<>>}],
             upstream' \in [files : Trees, pinned : BOOLEAN],
             final' \in ExportDirectories, final'.kind = final.kind,
             final = NotExport => final' = NotExport
      PROVE  ExportInv' /\ ExportsKept
  BY <1>3 DEF ExportInv, ExportTypes, OnlyExportsMoved, Replacing,
     BackupsAreSpare, ExportsKept, HasExport
<1>4. CASE EditSource
  <2>1. PICK f \in SkillFiles, v \in 0..2 :
          source' = [source EXCEPT !.files = [source.files EXCEPT ![f] = v]]
    BY <1>4 DEF EditSource
  <2>2. [source.files EXCEPT ![f] = v] \in Trees  BY <1>1, <1>2
  <2>3. source' \in [files : Trees, commits : Seq(Trees) \ {<<>>}]
    BY <1>1, <2>1, <2>2
  <2> QED  BY <1>1, <1>3, <1>4, <2>3 DEF EditSource
<1>5. CASE CommitSource
  <2>1. source' = [source EXCEPT !.commits = Append(source.commits, source.files)]
    BY <1>5 DEF CommitSource
  <2>2. Append(source.commits, source.files) \in Seq(Trees) \ {<<>>}
    BY <1>1
  <2>3. source' \in [files : Trees, commits : Seq(Trees) \ {<<>>}]
    BY <1>1, <2>1, <2>2
  <2> QED  BY <1>1, <1>3, <1>5, <2>3 DEF CommitSource
<1>6. CASE EditUpstream
  <2>1. \/ \E f \in SkillFiles, v \in 0..2 :
             upstream' = [upstream EXCEPT !.files = [upstream.files EXCEPT ![f] = v]]
        \/ upstream' = [upstream EXCEPT !.pinned = ~upstream.pinned]
    BY <1>6 DEF EditUpstream
  <2>2. upstream' \in [files : Trees, pinned : BOOLEAN]
    <3>1. ASSUME NEW f \in SkillFiles, NEW v \in 0..2,
                 upstream' = [upstream EXCEPT !.files = [upstream.files EXCEPT ![f] = v]]
          PROVE  upstream' \in [files : Trees, pinned : BOOLEAN]
      <4>1. [upstream.files EXCEPT ![f] = v] \in Trees  BY <1>1, <1>2
      <4> QED  BY <1>1, <3>1, <4>1
    <3> QED  BY <1>1, <2>1, <3>1
  <2> QED  BY <1>1, <1>3, <1>6, <2>2 DEF EditUpstream
<1>7. CASE EditExport
  <2>1. final.kind = "export" /\ UNCHANGED <<source, upstream, backup, export>>
    BY <1>7 DEF EditExport
  <2>2. PICK f \in SkillFiles, v \in 0..2 :
          \/ final' = [final EXCEPT !.krn = [final.krn EXCEPT ![f] = v]]
          \/ final' = [final EXCEPT !.up = [final.up EXCEPT ![f] = v]]
    BY <1>7 DEF EditExport
  <2>3. [final.krn EXCEPT ![f] = v] \in Trees /\ [final.up EXCEPT ![f] = v] \in Trees
    BY <1>1, <1>2 DEF ExportDirectories
  <2>4. final' \in ExportDirectories /\ final'.kind = "export"
    BY <1>1, <2>1, <2>2, <2>3 DEF ExportDirectories
  <2> QED  BY <1>1, <1>3, <2>1, <2>4, DirectoryFacts
<1>8. CASE PlaceForeign
  <2>1. /\ final.kind = "none" /\ final' = NotExport
        /\ UNCHANGED <<source, upstream, backup, export>>
        /\ \A e \in Exports : ~Replacing(e)
    BY <1>8 DEF PlaceForeign, Replacing
  <2>2. ExportTypes'  BY <2>1, DirectoryFacts DEF ExportInv, ExportTypes
  <2>3. OnlyExportsMoved'
    BY <2>1 DEF ExportInv, OnlyExportsMoved, Replacing
  <2>4. BackupsAreSpare'
    BY <2>1 DEF ExportInv, BackupsAreSpare
  <2>5. ExportsKept  BY <2>1, DirectoryFacts DEF ExportsKept, HasExport
  <2> QED  BY <2>2, <2>3, <2>4, <2>5 DEF ExportInv
<1>9. CASE UNCHANGED exportVars
  BY <1>1, <1>3, <1>9 DEF exportVars
<1> QED  BY <1>4, <1>5, <1>6, <1>7, <1>8, <1>9

LEMMA ExportStep ==
  ExportInv /\ [ExportNext]_exportVars => ExportInv' /\ ExportsKept
BY ExportLooks, ExportRenames, HandsKeepExportInv DEF ExportNext

LEMMA ExportStarting == ExportInit => ExportInv
<1> SUFFICES ASSUME ExportInit  PROVE ExportInv
  OBVIOUS
<1>1. [f \in SkillFiles |-> 1] \in Trees  BY DEF Trees
<1>2. /\ source \in [files : Trees, commits : Seq(Trees) \ {<<>>}]
      /\ SourceHead \in Trees
  BY <1>1 DEF ExportInit, SourceHead
<1>3. upstream \in [files : Trees, pinned : BOOLEAN]
  BY ExportAssumption DEF ExportInit
<1>4. final \in ExportDirectories /\ final.kind # "foreign"
  <2> DEFINE made == [NoDirectory EXCEPT !.kind = "export", !.commit = 1,
                                         !.krn = SourceHead, !.up = Pin,
                                         !.digests = <<SourceHead, Pin>>]
  <2>1. final \in {NoDirectory, made}  BY DEF ExportInit
  <2>2. made \in ExportDirectories /\ made.kind = "export"
    BY <1>2, DirectoryFacts, ExportAssumption DEF ExportDirectories
  <2> HIDE DEF made
  <2> QED  BY <2>1, <2>2, DirectoryFacts
<1>5. \A e \in Exports : /\ backup[e] = NoDirectory
                         /\ export[e] \in ExportRecords
                         /\ export[e].pc \in {"start", "done"}
  BY DirectoryFacts DEF ExportInit, ExportRecords
<1>6. ExportTypes
  BY <1>2, <1>3, <1>4, <1>5, DirectoryFacts DEF ExportTypes, ExportInit
<1> QED
  BY <1>4, <1>5, <1>6, DirectoryFacts
  DEF ExportInv, OnlyExportsMoved, Replacing, BackupsAreSpare

\* However exports interleave, fail and die, and whatever people do in between,
\* there is an export once there was one, and what is no export stays.
THEOREM ExportsNeverVanish == ExportSpec => DirectoriesKept
<1>1. ExportInit => ExportInv  BY ExportStarting
<1>2. ExportInv /\ [ExportNext]_exportVars => ExportInv'  BY ExportStep
<1>3. ExportInv /\ [ExportNext]_exportVars =>
        [/\ HasExport => HasExport'
         /\ final = NotExport => final' = NotExport]_exportVars
  BY ExportStep DEF ExportsKept
<1> QED  BY <1>1, <1>2, <1>3, PTL DEF ExportSpec, DirectoriesKept

\* The marker of an export names a commit of the source, and its digests are of
\* upstream files that were compared with the pinned blobs.
Vouched(d) ==
  d.kind = "export" =>
    /\ d.commit \in 1..Len(source.commits)
    /\ \A f \in SkillFiles : d.digests[2][f] \in {Missing, Pin[f]}

\* So it will be of the staging directory of an export under way.
VouchedFor(r) ==
  /\ r.pc \in {"committed", "judged", "copying", "marked", "aside"} =>
       r.commit \in 1..Len(source.commits)
  /\ r.pc \in {"marked", "aside"} => \A f \in SkillFiles : r.up[f] \in {Missing, Pin[f]}

MarkersTrue ==
  /\ Vouched(final)
  /\ \A e \in Exports : Vouched(backup[e]) /\ VouchedFor(export[e])

ReproduceInv == ExportInv /\ MarkersTrue

\* Commits are only added.
LEMMA CommitsStay ==
  ASSUME ExportInv, ExportInv', [ExportNext]_exportVars
  PROVE  /\ Len(source.commits) \in Nat /\ Len(source.commits)' \in Nat
         /\ Len(source.commits) <= Len(source.commits)'
         /\ 1 <= Len(source.commits)
<1>1. /\ source \in [files : Trees, commits : Seq(Trees) \ {<<>>}]
      /\ source' \in [files : Trees, commits : Seq(Trees) \ {<<>>}]
  BY DEF ExportInv, ExportTypes
<1>2. Len(source.commits) \in Nat /\ Len(source.commits)' \in Nat /\ 1 <= Len(source.commits)
  BY <1>1
<1>3. CASE CommitSource
  <2>1. source' = [source EXCEPT !.commits = Append(source.commits, source.files)]
    BY <1>3 DEF CommitSource
  <2>2. source'.commits = Append(source.commits, source.files)  BY <1>1, <2>1
  <2>3. Len(source.commits)' = Len(source.commits) + 1  BY <1>1, <2>2
  <2> QED  BY <1>2, <2>3
<1>4. CASE ~ CommitSource
  <2>1. source'.commits = source.commits
    <3>1. CASE EditSource
      <4>1. PICK f \in SkillFiles, v \in 0..2 :
              source' = [source EXCEPT !.files = [source.files EXCEPT ![f] = v]]
        BY <3>1 DEF EditSource
      <4> QED  BY <1>1, <4>1
    <3>2. CASE ~ EditSource
      <4>1. source' = source
        BY <1>4, <3>2 DEF ExportNext, exportVars, CheckUpstream, HarnessCommit, SourceStatus,
           Destination, CopyFile, VerifyBlobs, MoveAside, Install, RenameFails, UndoSwap,
           Cleanup, Dies, EditUpstream, EditExport, PlaceForeign
      <4> QED  BY <4>1
    <3> QED  BY <3>1, <3>2
  <2> QED  BY <1>2, <2>1
<1> QED  BY <1>2, <1>3, <1>4

\* The export of a step, before and after it.
LEMMA VouchingGoesOn ==
  ASSUME ReproduceInv, NEW e \in Exports, NEW next, Moves(e, next),
         UNCHANGED <<source, upstream, final, backup>>, VouchedFor(next)
  PROVE  MarkersTrue'
<1>1. \A d \in Exports : export'[d] = IF d = e THEN next ELSE export[d]
  BY DEF Moves, ReproduceInv, ExportInv, ExportTypes
<1>2. Vouched(final)' /\ \A d \in Exports : Vouched(backup[d])'
  BY DEF ReproduceInv, MarkersTrue, Vouched
<1>3. VouchedFor(next)'  BY DEF VouchedFor
<1>4. ASSUME NEW d \in Exports  PROVE VouchedFor(export[d])'
  BY <1>1 DEF ReproduceInv, MarkersTrue, VouchedFor
<1> QED  BY <1>2, <1>4 DEF MarkersTrue

LEMMA LooksVouch ==
  ASSUME ReproduceInv, NEW e \in Exports,
         \/ CheckUpstream(e) \/ HarnessCommit(e) \/ SourceStatus(e)
         \/ Destination(e) \/ CopyFile(e) \/ VerifyBlobs(e) \/ Dies(e)
  PROVE  MarkersTrue'
<1> DEFINE me == export[e]
           count == Len(source.commits)
<1>1. /\ me \in ExportRecords /\ VouchedFor(me)
      /\ count \in 1..count
  <2>1. source.commits \in Seq(Trees) \ {<<>>}  BY DEF ReproduceInv, ExportInv, ExportTypes
  <2>2. count \in 1..count  BY <2>1
  <2> QED  BY <2>2 DEF ReproduceInv, ExportInv, ExportTypes, MarkersTrue
<1>2. UNCHANGED <<source, upstream, final, backup>>
  BY DEF CheckUpstream, HarnessCommit, SourceStatus, Destination, CopyFile,
     VerifyBlobs, Dies
<1>3. ASSUME NEW next \in ExportRecords, Moves(e, next), VouchedFor(next)
      PROVE  MarkersTrue'
  BY <1>2, <1>3, VouchingGoesOn
<1>4. ASSUME NEW next \in ExportRecords, Moves(e, next),
             next.pc \notin {"committed", "judged", "copying", "marked", "aside"}
      PROVE  MarkersTrue'
  BY <1>3, <1>4 DEF VouchedFor
<1>5. ASSUME NEW next \in ExportRecords, Moves(e, next), next.commit = me.commit,
             next.pc \in {"judged", "copying"}, me.pc \in {"committed", "judged", "copying"}
      PROVE  MarkersTrue'
  BY <1>1, <1>3, <1>5 DEF VouchedFor
<1>6. CASE Refuse(e)
  <2> DEFINE next == [Waiting EXCEPT !.pc = "failed"]
  <2>1. next \in ExportRecords /\ next.pc = "failed"  BY DirectoryFacts DEF ExportRecords
  <2>2. Moves(e, next)  BY <1>6 DEF Refuse
  <2> HIDE DEF next
  <2> QED  BY <1>4, <2>1, <2>2
<1>7. CASE CheckUpstream(e) /\ ~Refuse(e)
  <2> DEFINE next == [me EXCEPT !.pc = "pinned"]
  <2>1. Moves(e, next)  BY <1>7 DEF CheckUpstream
  <2>2. next \in ExportRecords /\ next.pc = "pinned"  BY <1>1 DEF ExportRecords
  <2> HIDE DEF next
  <2> QED  BY <1>4, <2>1, <2>2
<1>8. CASE HarnessCommit(e)
  <2> DEFINE next == [me EXCEPT !.pc = "committed", !.commit = count]
  <2>1. Moves(e, next)  BY <1>8 DEF HarnessCommit
  <2>6. count \in Nat  BY <1>1
  <2> HIDE DEF count
  <2>2. next \in ExportRecords /\ next.pc = "committed" /\ next.commit = count
    BY <1>1, <2>6 DEF ExportRecords
  <2> USE DEF count
  <2> HIDE DEF next, me
  <2>3. next.commit \in 1..Len(source.commits)  BY <1>1, <2>2
  <2>4. next.pc \notin {"marked", "aside"}  BY <2>2
  <2>5. VouchedFor(next)  BY <2>3, <2>4 DEF VouchedFor
  <2> QED  BY <1>3, <2>1, <2>2, <2>5
<1>9. CASE SourceStatus(e) /\ ~Refuse(e)
  <2> DEFINE dirty == Differs(source.files, SourceHead)
             next == [me EXCEPT !.pc = "judged", !.dirty = dirty]
  <2>1. Moves(e, next) /\ me.pc = "committed"  BY <1>9 DEF SourceStatus, ExportAt
  <2>2. dirty \in BOOLEAN  BY DEF Differs
  <2> HIDE DEF dirty
  <2>3. next \in ExportRecords /\ next.pc = "judged" /\ next.commit = me.commit
    BY <1>1, <2>2 DEF ExportRecords
  <2> HIDE DEF next, me
  <2> QED  BY <1>5, <2>1, <2>3
<1>10. CASE Destination(e) /\ ~Refuse(e)
  <2> DEFINE next == [me EXCEPT !.pc = "copying", !.preserve = final.kind = "export"]
  <2>1. Moves(e, next) /\ me.pc = "judged"  BY <1>10 DEF Destination, ExportAt
  <2>2. next \in ExportRecords /\ next.pc = "copying" /\ next.commit = me.commit
    BY <1>1 DEF ExportRecords
  <2> HIDE DEF next, me
  <2> QED  BY <1>5, <2>1, <2>2
<1>11. CASE CopyFile(e)
  <2>1. \E next : /\ Moves(e, next) /\ next.pc = "copying" /\ next.commit = me.commit
    <3> DEFINE n == me.copied
               ours == [me EXCEPT !.copied = n + 1, !.krn[n + 1] = source.files[n + 1]]
               theirs == [me EXCEPT !.copied = n + 1,
                                    !.up[n + 1 - FileCount] = upstream.files[n + 1 - FileCount]]
    <3>1. Moves(e, IF n < FileCount THEN ours ELSE theirs) /\ me.pc = "copying"
      BY <1>11 DEF CopyFile, ExportAt
    <3> DEFINE krn == [me.krn EXCEPT ![n + 1] = source.files[n + 1]]
               up == [me.up EXCEPT ![n + 1 - FileCount] = upstream.files[n + 1 - FileCount]]
    <3>4. /\ ours = [me EXCEPT !.copied = n + 1, !.krn = krn]
          /\ theirs = [me EXCEPT !.copied = n + 1, !.up = up]
      OBVIOUS
    <3> HIDE DEF krn, up, n, ours, theirs
    <3>2. ours.pc = me.pc /\ ours.commit = me.commit  BY <1>1, <3>4 DEF ExportRecords
    <3>3. theirs.pc = me.pc /\ theirs.commit = me.commit  BY <1>1, <3>4 DEF ExportRecords
    <3> HIDE DEF me
    <3> QED  BY <3>1, <3>2, <3>3
  <2>2. PICK next : Moves(e, next) /\ next.pc = "copying" /\ next.commit = me.commit
    BY <2>1
  <2>3. me.pc = "copying"  BY <1>11 DEF CopyFile, ExportAt
  <2>4. VouchedFor(next)  BY <1>1, <2>2, <2>3 DEF VouchedFor
  <2> QED  BY <1>2, <2>2, <2>4, VouchingGoesOn
<1>12. CASE VerifyBlobs(e) /\ ~Refuse(e)
  <2> DEFINE next == [me EXCEPT !.pc = "marked", !.copied = 0]
  <2>1. /\ Moves(e, next) /\ me.pc = "copying"
        /\ \A f \in SkillFiles : me.up[f] \in {Missing, Pin[f]}
    BY <1>12 DEF VerifyBlobs, ExportAt
  <2>2. /\ next \in ExportRecords /\ next.pc = "marked" /\ next.commit = me.commit
        /\ next.up = me.up
    BY <1>1 DEF ExportRecords
  <2> HIDE DEF next, me
  <2>3. VouchedFor(next)  BY <1>1, <2>1, <2>2 DEF VouchedFor
  <2> QED  BY <1>3, <2>1, <2>2, <2>3
<1>13. CASE Dies(e)
  <2> DEFINE next == [Waiting EXCEPT !.pc = "dead"]
  <2>1. Moves(e, next)  BY <1>13 DEF Dies
  <2>2. next \in ExportRecords /\ next.pc = "dead"  BY DirectoryFacts DEF ExportRecords
  <2> HIDE DEF next
  <2> QED  BY <1>4, <2>1, <2>2
<1> QED  BY <1>6, <1>7, <1>8, <1>9, <1>10, <1>11, <1>12, <1>13

LEMMA RenamesVouch ==
  ASSUME ReproduceInv, NEW e \in Exports,
         MoveAside(e) \/ Install(e) \/ RenameFails(e) \/ Cleanup(e)
  PROVE  MarkersTrue'
<1> DEFINE me == export[e]
<1>1. /\ me \in ExportRecords /\ VouchedFor(me)
      /\ Vouched(final) /\ \A d \in Exports : Vouched(backup[d]) /\ VouchedFor(export[d])
      /\ backup \in [Exports -> ExportDirectories] /\ export \in [Exports -> ExportRecords]
  BY DEF ReproduceInv, ExportInv, ExportTypes, MarkersTrue
<1>2. Vouched(NoDirectory)  BY DirectoryFacts DEF Vouched
<1>3. UNCHANGED source  BY DEF MoveAside, Install, RenameFails, UndoSwap, Cleanup
<1>4. ASSUME NEW next, Moves(e, next), VouchedFor(next), Vouched(final'),
             \A d \in Exports : Vouched(backup'[d])
      PROVE  MarkersTrue'
  <2>1. \A d \in Exports : export'[d] = IF d = e THEN next ELSE export[d]
    BY <1>1, <1>4 DEF Moves
  <2>2. \A d \in Exports : VouchedFor(export'[d])  BY <1>1, <1>4, <2>1
  <2>3. /\ \A d \in Exports : VouchedFor(export[d])' /\ Vouched(backup[d])'
        /\ Vouched(final)'
    BY <1>3, <1>4, <2>2 DEF Vouched, VouchedFor
  <2> QED  BY <2>3 DEF MarkersTrue
<1>5. CASE MoveAside(e)
  <2> DEFINE next == [me EXCEPT !.pc = "aside"]
  <2>1. /\ me.pc = "marked" /\ Moves(e, next)
        /\ \/ UNCHANGED <<final, backup>>
           \/ final' = NoDirectory /\ backup' = [backup EXCEPT ![e] = final]
    BY <1>5 DEF MoveAside, ExportAt
  <2>2. next.pc = "aside" /\ next.commit = me.commit /\ next.up = me.up
    BY <1>1 DEF ExportRecords
  <2> HIDE DEF next, me
  <2>3. VouchedFor(next)  BY <1>1, <2>1, <2>2 DEF VouchedFor
  <2>4. Vouched(final') /\ \A d \in Exports : Vouched(backup'[d])
    BY <1>1, <1>2, <2>1
  <2> QED  BY <1>4, <2>1, <2>3, <2>4
<1>6. CASE Install(e)
  <2> DEFINE next == [me EXCEPT !.pc = "installed"]
  <2>1. me.pc = "aside" /\ Moves(e, next) /\ UNCHANGED backup /\ final' = Staged(e)
    BY <1>6 DEF Install, ExportAt
  <2>2. next.pc = "installed"  BY <1>1 DEF ExportRecords
  <2>3. Staged(e).commit = me.commit /\ Staged(e).digests = <<me.krn, me.up>>
    BY DEF Staged
  <2> HIDE DEF next, me
  <2>4. VouchedFor(next)  BY <2>2 DEF VouchedFor
  <2>5. Vouched(final')  BY <1>1, <2>1, <2>3 DEF Vouched, VouchedFor
  <2> QED  BY <1>1, <1>4, <2>1, <2>4, <2>5
<1>7. CASE RenameFails(e)
  <2> DEFINE next == [Waiting EXCEPT !.pc = "failed"]
  <2>1. /\ Moves(e, next) /\ (final' = backup[e] \/ final' = final)
        /\ backup' = [backup EXCEPT ![e] = NoDirectory]
    BY <1>7 DEF RenameFails, UndoSwap, Refuse
  <2>2. next.pc = "failed"  BY DirectoryFacts DEF ExportRecords
  <2> HIDE DEF next
  <2>3. VouchedFor(next)  BY <2>2 DEF VouchedFor
  <2>4. Vouched(final') /\ \A d \in Exports : Vouched(backup'[d])
    BY <1>1, <1>2, <2>1
  <2> QED  BY <1>4, <2>1, <2>3, <2>4
<1>8. CASE Cleanup(e)
  <2> DEFINE next == [Waiting EXCEPT !.pc = "done"]
  <2>1. /\ Moves(e, next) /\ final' = final
        /\ backup' \in {backup, [backup EXCEPT ![e] = NoDirectory]}
    BY <1>8 DEF Cleanup
  <2>2. next.pc = "done"  BY DirectoryFacts DEF ExportRecords
  <2> HIDE DEF next
  <2>3. VouchedFor(next)  BY <2>2 DEF VouchedFor
  <2>4. Vouched(final') /\ \A d \in Exports : Vouched(backup'[d])
    BY <1>1, <1>2, <2>1
  <2> QED  BY <1>4, <2>1, <2>3, <2>4
<1> QED  BY <1>5, <1>6, <1>7, <1>8

LEMMA HandsVouch ==
  ASSUME ReproduceInv, ExportInv',
         \/ EditSource \/ CommitSource \/ EditUpstream \/ EditExport
         \/ PlaceForeign \/ UNCHANGED exportVars
  PROVE  MarkersTrue'
<1>1. /\ Len(source.commits) \in Nat /\ Len(source.commits)' \in Nat
      /\ Len(source.commits) <= Len(source.commits)'
  BY CommitsStay DEF ReproduceInv, ExportNext
<1>2. UNCHANGED <<backup, export>>
  BY DEF EditSource, CommitSource, EditUpstream, EditExport, PlaceForeign, exportVars
<1>3. /\ final'.kind = "export" => final.kind = "export"
      /\ final'.kind = "export" => final'.commit = final.commit /\ final'.digests = final.digests
  <2>1. CASE EditExport
    <3>1. PICK f \in SkillFiles, v \in 0..2 :
            final' \in {[final EXCEPT !.krn[f] = v], [final EXCEPT !.up[f] = v]}
      BY <2>1 DEF EditExport
    <3>2. final \in ExportDirectories  BY DEF ReproduceInv, ExportInv, ExportTypes
    <3>3. CASE final' = [final EXCEPT !.krn[f] = v]  BY <3>2, <3>3 DEF ExportDirectories
    <3>4. CASE final' = [final EXCEPT !.up[f] = v]  BY <3>2, <3>4 DEF ExportDirectories
    <3> QED  BY <3>1, <3>3, <3>4
  <2>2. CASE PlaceForeign  BY <2>2, DirectoryFacts DEF PlaceForeign
  <2>3. CASE UNCHANGED final  BY <2>3
  <2> QED  BY <2>1, <2>2, <2>3 DEF EditSource, CommitSource, EditUpstream, exportVars
<1>4. 1..Len(source.commits) \subseteq 1..Len(source.commits)'  BY <1>1
<1>5. Vouched(final)'  BY <1>3, <1>4 DEF ReproduceInv, MarkersTrue, Vouched
<1>6. \A e \in Exports : Vouched(backup[e])' /\ VouchedFor(export[e])'
  BY <1>2, <1>4 DEF ReproduceInv, MarkersTrue, Vouched, VouchedFor
<1> QED  BY <1>5, <1>6 DEF MarkersTrue

LEMMA VouchingStarts == ExportInit => MarkersTrue
<1> SUFFICES ASSUME ExportInit  PROVE MarkersTrue
  OBVIOUS
<1> DEFINE made == [NoDirectory EXCEPT !.kind = "export", !.commit = 1,
                      !.krn = SourceHead, !.up = Pin, !.digests = <<SourceHead, Pin>>]
<1>1. source.commits = <<[f \in SkillFiles |-> 1]>>  BY DEF ExportInit
<1>2. Len(source.commits) = 1  BY <1>1
<1>3. made.commit = 1 /\ made.digests[2] = Pin  BY DEF NoDirectory
<1>4. \A f \in SkillFiles : Pin[f] \in {Missing, Pin[f]}  OBVIOUS
<1>5. final = NoDirectory \/ final = made  BY DEF ExportInit
<1> HIDE DEF made
<1>6. Vouched(final)  BY <1>2, <1>3, <1>4, <1>5, DirectoryFacts DEF Vouched
<1>7. \A e \in Exports : backup[e] = NoDirectory /\ export[e].pc \in {"start", "done"}
  <2>1. \A pc : [Waiting EXCEPT !.pc = pc].pc = pc  BY DirectoryFacts DEF ExportRecords
  <2> QED  BY <2>1 DEF ExportInit
<1>8. \A e \in Exports : Vouched(backup[e]) /\ VouchedFor(export[e])
  BY <1>7, DirectoryFacts DEF Vouched, VouchedFor
<1> QED  BY <1>6, <1>8 DEF MarkersTrue

LEMMA VouchingStep == ReproduceInv /\ [ExportNext]_exportVars => ReproduceInv'
<1> SUFFICES ASSUME ReproduceInv, [ExportNext]_exportVars  PROVE ReproduceInv'
  OBVIOUS
<1>1. ExportInv'  BY ExportStep DEF ReproduceInv
<1>2. MarkersTrue'  BY <1>1, LooksVouch, RenamesVouch, HandsVouch DEF ExportNext
<1> QED  BY <1>1, <1>2 DEF ReproduceInv

\* An export that checks out holds what the pinned upstream commit and, unless it is
\* marked dirty, the commit of its marker hold, whatever was edited or committed
\* while it was made, and however many exports ran, failed or died.
THEOREM CheckedExportsAreTrue == ExportSpec => []CheckedExportsReproduce
<1>1. ReproduceInv => CheckedExportsReproduce
  <2> SUFFICES ASSUME ReproduceInv, ChecksOut  PROVE CheckedExportsReproduce
    BY DEF CheckedExportsReproduce
  <2>1. final.commit \in 1..Len(source.commits)
        /\ \A f \in SkillFiles : final.up[f] \in {Missing, Pin[f]}
    BY DEF ReproduceInv, MarkersTrue, Vouched, ChecksOut
  <2>2. DOMAIN source.commits = 1..Len(source.commits)
    BY DEF ReproduceInv, ExportInv, ExportTypes
  <2>3. ~ final.dirty => \A f \in SkillFiles :
                           final.krn[f] \in {Missing, source.commits[final.commit][f]}
    BY <2>1, <2>2 DEF ChecksOut
  <2> QED  BY <2>1, <2>2, <2>3 DEF CheckedExportsReproduce
<1>2. ExportInit => ReproduceInv  BY ExportStarting, VouchingStarts DEF ReproduceInv
<1> QED  BY <1>1, <1>2, VouchingStep, PTL DEF ExportSpec

-----------------------------------------------------------------------------
(***************************************************************************)
(* The catalog's configuration.  Every look and every read of an apply is  *)
(* of the file it first read, or the look fails; nobody writes into that   *)
(* file after the last read, so it holds what was read; and nobody but     *)
(* another apply puts a file there after the last look.                    *)
(***************************************************************************)

ConfigFiles == [text : ConfigTexts, by : Appliers \cup {NoText}]

ApplierRecords ==
  [pc : {"load", "first", "temp", "backup", "rename", "done", "failed", "dead"},
   look : {"before", "open", "after", "compare"},
   seen : Nat, opened : Nat, identity : Nat,
   read : ConfigTexts \cup {NoText}, original : ConfigTexts \cup {NoText},
   backup : ConfigTexts \cup {NoText}]

ConfigTypes ==
  /\ files \in Seq(ConfigFiles)
  /\ path \in 0..Len(files)
  /\ applier \in [Appliers -> ApplierRecords]

\* What an apply knows of the files there were: the file it looked at, the file
\* it opened and the one its first read was of are one file.
OneFileSeen(me, there) ==
  /\ me.look = "open" =>
       /\ me.seen \in 1..Len(there)
       /\ me.identity # 0 => me.seen = me.identity
  /\ me.look \in {"after", "compare"} =>
       /\ me.opened \in 1..Len(there)
       /\ me.identity # 0 => me.opened = me.identity
       /\ me.read \in ConfigTexts
  /\ me.pc \in {"first", "temp", "backup", "rename"} => me.original \in ConfigTexts
  /\ me.pc \in {"temp", "backup", "rename"} => me.identity \in 1..Len(there)

\* The text of the plan is in the backup.
BackedUp(a, me, saved) ==
  me.pc \in {"backup", "rename"} =>
    me.backup = me.original /\ <<a, me.original>> \in saved

\* The file first read holds what was read last.
LastReadHolds(me, there) ==
  /\ me.pc = "rename" \/ (me.pc = "backup" /\ me.look \in {"after", "compare"})
     => there[me.identity].text = me.read
  /\ me.pc = "rename" => me.read = me.original

\* It is still at the path, or another apply has put its own there.
LastLookHolds(a, me, at, there) ==
  me.pc = "rename" \/ (me.pc = "backup" /\ me.look = "compare") =>
    at = me.identity \/ (at # 0 /\ there[at].by \in Appliers \ {a})

Follows(a, me, at, there, saved) ==
  /\ OneFileSeen(me, there)
  /\ BackedUp(a, me, saved)
  /\ LastReadHolds(me, there)
  /\ LastLookHolds(a, me, at, there)

ConfigInv ==
  /\ ConfigTypes
  /\ \A a \in Appliers : Follows(a, applier[a], path, files, copies)

\* A call of an apply that leaves the configuration as it is.
LEMMA ApplierGoesOn ==
  ASSUME ConfigInv, NEW a \in Appliers, NEW next \in ApplierRecords,
         Applies(a, next), UNCHANGED <<path, files>>,
         \A b \in Appliers \ {a} : \A text :
           <<b, text>> \in copies => <<b, text>> \in copies',
         Follows(a, next, path, files, copies')
  PROVE  ConfigInv'
<1>1. \A b \in Appliers : applier'[b] = IF b = a THEN next ELSE applier[b]
  BY DEF Applies, ConfigInv, ConfigTypes
<1>2. ConfigTypes'  BY <1>1 DEF Applies, ConfigInv, ConfigTypes
<1>3. ASSUME NEW b \in Appliers, b # a
      PROVE  Follows(b, applier[b], path, files, copies')
  BY <1>3 DEF ConfigInv, Follows, BackedUp
<1> QED  BY <1>1, <1>2, <1>3 DEF ConfigInv

\* A file is put at the path: none, or one of this apply's or another's.
LEMMA FollowsPlaced ==
  ASSUME NEW a \in Appliers, NEW me \in ApplierRecords, NEW at, NEW saved,
         NEW there \in Seq(ConfigFiles), NEW file \in ConfigFiles,
         Follows(a, me, at, there, saved),
         me.pc = "rename" \/ (me.pc = "backup" /\ me.look = "compare")
           => file.by \in Appliers \ {a}
  PROVE  Follows(a, me, Len(there) + 1, Append(there, file), saved)
<1> DEFINE longer == Append(there, file)
<1>1. /\ Len(longer) = Len(there) + 1 /\ Len(there) \in Nat
      /\ \A n \in 1..Len(there) : longer[n] = there[n]
      /\ longer[Len(there) + 1] = file
  OBVIOUS
<1> HIDE DEF longer
<1>2. OneFileSeen(me, longer)
  BY <1>1 DEF Follows, OneFileSeen
<1>3. BackedUp(a, me, saved)  BY DEF Follows
<1>4. LastReadHolds(me, longer)
  BY <1>1 DEF Follows, OneFileSeen, LastReadHolds
<1>5. LastLookHolds(a, me, Len(there) + 1, longer)
  BY <1>1 DEF LastLookHolds
<1> QED  BY <1>2, <1>3, <1>4, <1>5 DEF Follows, longer

\* Somebody puts a file at the path, or takes it away.
LEMMA PlacedKeepsInv ==
  ASSUME ConfigInv, NEW text \in ConfigTexts, NEW by \in Appliers \cup {NoText},
         PlaceText(text, by), UNCHANGED <<copies, applier>>,
         \A a \in Appliers : HasLooked(a) => by \in Appliers \ {a}
  PROVE  ConfigInv'
<1> DEFINE file == [text |-> text, by |-> by]
<1>1. file \in ConfigFiles /\ file.by = by  BY DEF ConfigFiles
<1>2. files' = Append(files, file) /\ path' = Len(files) + 1
  BY DEF PlaceText
<1> HIDE DEF file
<1>3. ConfigTypes'
  <2>1. files \in Seq(ConfigFiles)  BY DEF ConfigInv, ConfigTypes
  <2>2. Append(files, file) \in Seq(ConfigFiles)
        /\ Len(Append(files, file)) = Len(files) + 1 /\ Len(files) \in Nat
    BY <1>1, <2>1
  <2> QED  BY <1>2, <2>2 DEF ConfigInv, ConfigTypes
<1>4. ASSUME NEW a \in Appliers
      PROVE  Follows(a, applier[a], path', files', copies)
  <2>1. /\ applier[a] \in ApplierRecords /\ files \in Seq(ConfigFiles)
        /\ Follows(a, applier[a], path, files, copies)
    BY DEF ConfigInv, ConfigTypes
  <2>2. applier[a].pc = "rename"
          \/ (applier[a].pc = "backup" /\ applier[a].look = "compare")
        => file.by \in Appliers \ {a}
    BY <1>1 DEF HasLooked, ApplierAt
  <2> QED  BY <1>1, <1>2, <2>1, <2>2, FollowsPlaced
<1> QED  BY <1>3, <1>4 DEF ConfigInv

LEMMA NewApplierFacts ==
  ASSUME NEW pc \in {"done", "failed", "dead"}
  PROVE  LET next == [NewApplier EXCEPT !.pc = pc] IN
         /\ next \in ApplierRecords
         /\ \A a, at, there, saved : Follows(a, next, at, there, saved)
<1> DEFINE next == [NewApplier EXCEPT !.pc = pc]
<1>1. next \in ApplierRecords /\ next.pc = pc /\ next.look = "before"
  BY DEF NewApplier, ApplierRecords
<1> HIDE DEF next
<1>2. \A a, at, there, saved : Follows(a, next, at, there, saved)
  BY <1>1 DEF Follows, OneFileSeen, BackedUp, LastReadHolds, LastLookHolds
<1> QED  BY <1>1, <1>2 DEF next

LEMMA FailsKeepsInv ==
  ASSUME ConfigInv, NEW a \in Appliers, NEW held, ApplyFails(a, held),
         UNCHANGED <<path, files>>
  PROVE  ConfigInv'
BY NewApplierFacts, ApplierGoesOn DEF ApplyFails

\* An apply reads.
LEMMA ReadsKeepInv ==
  ASSUME ConfigInv, NEW a \in Appliers,
         LookBefore(a) \/ OpenAndRead(a) \/ LookAfter(a)
  PROVE  ConfigInv'
<1> DEFINE me == applier[a]
<1>1. /\ me \in ApplierRecords /\ files \in Seq(ConfigFiles)
      /\ path \in 0..Len(files) /\ Len(files) \in Nat /\ path \in Nat
  BY DEF ConfigInv, ConfigTypes
<1>2. /\ OneFileSeen(me, files) /\ BackedUp(a, me, copies)
      /\ LastReadHolds(me, files) /\ LastLookHolds(a, me, path, files)
  BY DEF ConfigInv, Follows
<1>3. UNCHANGED <<path, files>>  BY DEF LookBefore, OpenAndRead, LookAfter
<1>4. CASE ApplyFails(a, me.backup)  BY <1>3, <1>4, FailsKeepsInv
<1>5. CASE LookBefore(a) /\ ~ApplyFails(a, me.backup)
  <2> DEFINE next == [me EXCEPT !.look = "open", !.seen = path]
  <2>1. /\ Applies(a, next) /\ UNCHANGED copies /\ me.pc \in Reads
        /\ path # 0 /\ me.identity # 0 => path = me.identity
    BY <1>5 DEF LookBefore, LooksWrong
  <2>2. /\ next \in ApplierRecords /\ next.pc = me.pc /\ next.look = "open"
        /\ next.seen = path /\ next.identity = me.identity
        /\ next.original = me.original /\ next.backup = me.backup
    BY <1>1 DEF ApplierRecords
  <2>3. path \in 1..Len(files) /\ me.pc # "rename"
    BY <1>1, <1>5, <2>1 DEF Reads, LookBefore, LooksWrong
  <2>p. me.identity # 0 => path = me.identity
    BY <1>5 DEF LookBefore, LooksWrong
  <2> HIDE DEF next, me
  <2>4. OneFileSeen(next, files)
    BY <1>2, <2>2, <2>3, <2>p DEF OneFileSeen
  <2>5. BackedUp(a, next, copies)  BY <1>2, <2>2 DEF BackedUp
  <2>6. LastReadHolds(next, files) /\ LastLookHolds(a, next, path, files)
    BY <2>2, <2>3 DEF LastReadHolds, LastLookHolds
  <2> QED  BY <1>3, <2>1, <2>2, <2>4, <2>5, <2>6, ApplierGoesOn DEF Follows
<1>6. CASE OpenAndRead(a) /\ ~ApplyFails(a, me.backup)
  <2> DEFINE next == [me EXCEPT !.look = "after", !.opened = path,
                                !.read = files[path].text]
  <2>1. /\ Applies(a, next) /\ UNCHANGED copies /\ me.pc \in Reads
        /\ me.look = "open"
    BY <1>6 DEF OpenAndRead
  <2>2. path # 0 /\ (me.seen # 0 => path = me.seen)
    BY <1>6 DEF OpenAndRead, LooksWrong
  <2>3. path \in 1..Len(files) /\ me.pc # "rename" /\ path \in Nat
    BY <1>1, <2>1, <2>2 DEF Reads
  <2>4. files[path].text \in ConfigTexts
    <3>1. files[path] \in ConfigFiles  BY <1>1, <2>3
    <3> QED  BY <3>1 DEF ConfigFiles
  <2>5. /\ next \in ApplierRecords /\ next.pc = me.pc /\ next.look = "after"
        /\ next.opened = path /\ next.identity = me.identity
        /\ next.read = files[path].text
        /\ next.original = me.original /\ next.backup = me.backup
    BY <1>1, <2>3, <2>4 DEF ApplierRecords
  <2> HIDE DEF next, me
  <2>6. me.seen \in 1..Len(files) /\ (me.identity # 0 => me.seen = me.identity)
    BY <1>2, <2>1 DEF OneFileSeen
  <2>7. me.identity # 0 => path = me.identity
    BY <1>1, <2>2, <2>6
  <2>8. OneFileSeen(next, files)
    BY <1>2, <2>3, <2>4, <2>5, <2>7 DEF OneFileSeen
  <2>9. BackedUp(a, next, copies)  BY <1>2, <2>5 DEF BackedUp
  <2>10. me.pc = "backup" => path = me.identity
    BY <1>1, <1>2, <2>7 DEF OneFileSeen
  <2>11. LastReadHolds(next, files) /\ LastLookHolds(a, next, path, files)
    BY <2>3, <2>5, <2>10 DEF LastReadHolds, LastLookHolds
  <2> QED  BY <1>3, <2>1, <2>5, <2>8, <2>9, <2>11, ApplierGoesOn DEF Follows
<1>7. CASE LookAfter(a) /\ ~ApplyFails(a, me.backup)
  <2> DEFINE next == [me EXCEPT !.look = "compare"]
  <2>1. /\ Applies(a, next) /\ UNCHANGED copies /\ me.pc \in Reads
        /\ me.look = "after"
    BY <1>7 DEF LookAfter
  <2>2. me.opened # 0 => path = me.opened
    BY <1>7 DEF LookAfter, LooksWrong
  <2>3. me.pc # "rename"  BY <2>1 DEF Reads
  <2>4. /\ next \in ApplierRecords /\ next.pc = me.pc /\ next.look = "compare"
        /\ next.opened = me.opened /\ next.identity = me.identity
        /\ next.read = me.read
        /\ next.original = me.original /\ next.backup = me.backup
    BY <1>1 DEF ApplierRecords
  <2> HIDE DEF next, me
  <2>5. OneFileSeen(next, files)
    BY <1>2, <2>1, <2>4 DEF OneFileSeen
  <2>6. BackedUp(a, next, copies)  BY <1>2, <2>4 DEF BackedUp
  <2>7. me.pc = "backup" => path = me.identity
    BY <1>1, <1>2, <2>1, <2>2 DEF OneFileSeen
  <2>8. LastReadHolds(next, files) /\ LastLookHolds(a, next, path, files)
    BY <1>2, <2>1, <2>3, <2>4, <2>7 DEF LastReadHolds, LastLookHolds
  <2> QED  BY <1>3, <2>1, <2>4, <2>5, <2>6, <2>8, ApplierGoesOn DEF Follows
<1> QED  BY <1>4, <1>5, <1>6, <1>7

\* An apply compares, and writes beside the configuration.
LEMMA ComparesKeepInv ==
  ASSUME ConfigInv, NEW a \in Appliers,
         \/ Plan(a) \/ WritePlanned(a) \/ WriteBackup(a) \/ LastCompare(a)
         \/ CallFails(a) \/ ApplyDies(a)
  PROVE  ConfigInv'
<1> DEFINE me == applier[a]
<1>1. me \in ApplierRecords  BY DEF ConfigInv, ConfigTypes
<1>2. /\ OneFileSeen(me, files) /\ BackedUp(a, me, copies)
      /\ LastReadHolds(me, files) /\ LastLookHolds(a, me, path, files)
  BY DEF ConfigInv, Follows
<1>3. UNCHANGED <<path, files>>
  BY DEF Plan, WritePlanned, WriteBackup, LastCompare, CallFails, ApplyDies
<1>4. CASE \E held : ApplyFails(a, held)  BY <1>3, <1>4, FailsKeepsInv
<1>5. CASE \E pc \in {"done", "dead"} :
             Applies(a, [NewApplier EXCEPT !.pc = pc]) /\ UNCHANGED copies
  BY <1>3, <1>5, NewApplierFacts, ApplierGoesOn
<1>6. CASE Plan(a)
  <2> DEFINE next == [me EXCEPT !.pc = "first", !.look = "before",
                                !.original = me.read]
  <2>1. Applies(a, next) /\ UNCHANGED copies /\ me.look = "compare"
    BY <1>6 DEF Plan
  <2>2. /\ next \in ApplierRecords /\ next.pc = "first" /\ next.look = "before"
        /\ next.original = me.read
    BY <1>1 DEF ApplierRecords
  <2> HIDE DEF next, me
  <2>3. OneFileSeen(next, files)
    BY <1>2, <2>1, <2>2 DEF OneFileSeen
  <2>4. Follows(a, next, path, files, copies)
    BY <2>2, <2>3 DEF Follows, BackedUp, LastReadHolds, LastLookHolds
  <2> QED  BY <1>3, <2>1, <2>2, <2>4, ApplierGoesOn
<1>7. CASE /\ ApplierAt(a, "first") /\ me.look = "compare" /\ UNCHANGED copies
           /\ Applies(a, [me EXCEPT !.pc = "temp", !.look = "before",
                                    !.identity = me.opened])
  <2> DEFINE next == [me EXCEPT !.pc = "temp", !.look = "before",
                                !.identity = me.opened]
  <2>1. /\ next \in ApplierRecords /\ next.pc = "temp" /\ next.look = "before"
        /\ next.identity = me.opened /\ next.original = me.original
    BY <1>1 DEF ApplierRecords
  <2>2. Applies(a, next) /\ me.pc = "first"  BY <1>7 DEF ApplierAt
  <2> HIDE DEF next
  <2>3. OneFileSeen(next, files)
    BY <1>2, <1>7, <2>1, <2>2 DEF OneFileSeen
  <2>4. Follows(a, next, path, files, copies)
    BY <2>1, <2>3 DEF Follows, BackedUp, LastReadHolds, LastLookHolds
  <2> QED  BY <1>3, <1>7, <2>1, <2>2, <2>4, ApplierGoesOn
<1>8. CASE WriteBackup(a) /\ AsPlanned(a)
  <2> DEFINE next == [me EXCEPT !.pc = "backup", !.look = "before",
                                !.backup = me.original]
  <2>1. /\ Applies(a, next) /\ copies' = copies \cup {<<a, me.original>>}
        /\ me.pc = "temp"
    BY <1>8 DEF WriteBackup, ApplierAt
  <2>2. /\ next \in ApplierRecords /\ next.pc = "backup" /\ next.look = "before"
        /\ next.identity = me.identity /\ next.original = me.original
        /\ next.backup = me.original
    BY <1>1 DEF ApplierRecords
  <2> HIDE DEF next, me
  <2>3. OneFileSeen(next, files)
    BY <1>2, <2>1, <2>2 DEF OneFileSeen
  <2>4. Follows(a, next, path, files, copies')
    BY <2>1, <2>2, <2>3 DEF Follows, BackedUp, LastReadHolds, LastLookHolds
  <2> QED  BY <1>3, <2>1, <2>2, <2>4, ApplierGoesOn
<1>9. CASE LastCompare(a) /\ AsPlanned(a)
  <2> DEFINE next == [me EXCEPT !.pc = "rename"]
  <2>1. /\ Applies(a, next) /\ UNCHANGED copies
        /\ me.pc = "backup" /\ me.look = "compare" /\ me.read = me.original
    BY <1>9 DEF LastCompare, ApplierAt, AsPlanned
  <2>2. /\ next \in ApplierRecords /\ next.pc = "rename" /\ next.look = me.look
        /\ next.identity = me.identity /\ next.original = me.original
        /\ next.backup = me.backup /\ next.read = me.read
        /\ next.opened = me.opened
    BY <1>1 DEF ApplierRecords
  <2> HIDE DEF next, me
  <2>3. OneFileSeen(next, files)
    BY <1>2, <2>1, <2>2 DEF OneFileSeen
  <2>4. BackedUp(a, next, copies)  BY <1>2, <2>1, <2>2 DEF BackedUp
  <2>5. LastReadHolds(next, files) /\ LastLookHolds(a, next, path, files)
    BY <1>2, <2>1, <2>2 DEF LastReadHolds, LastLookHolds
  <2> QED
    BY <1>3, <2>1, <2>2, <2>3, <2>4, <2>5, ApplierGoesOn DEF Follows
<1>10. \/ Plan(a)
       \/ WriteBackup(a) /\ AsPlanned(a)
       \/ LastCompare(a) /\ AsPlanned(a)
       \/ \E held : ApplyFails(a, held)
       \/ \E pc \in {"done", "dead"} :
            Applies(a, [NewApplier EXCEPT !.pc = pc]) /\ UNCHANGED copies
       \/ /\ ApplierAt(a, "first") /\ me.look = "compare" /\ UNCHANGED copies
          /\ Applies(a, [me EXCEPT !.pc = "temp", !.look = "before",
                                   !.identity = me.opened])
  <2>1. CASE Plan(a)  BY <2>1
  <2>2. CASE WritePlanned(a)
    <3> DEFINE done == [NewApplier EXCEPT !.pc = "done"]
               temp == [me EXCEPT !.pc = "temp", !.look = "before",
                                  !.identity = me.opened]
    <3>1. /\ ApplierAt(a, "first") /\ me.look = "compare"
          /\ \/ ApplyFails(a, NoText)
             \/ /\ Applies(a, IF PlanOf[me.original] = me.original
                              THEN done ELSE temp)
                /\ UNCHANGED copies
      BY <2>2, Zenon DEF WritePlanned
    <3>2. \/ ApplyFails(a, NoText)
          \/ (Applies(a, done) \/ Applies(a, temp)) /\ UNCHANGED copies
      <4> HIDE DEF done, temp, me
      <4> QED  BY <3>1
    <3> QED  BY <3>1, <3>2, Zenon
  <2>3. CASE WriteBackup(a)  BY <2>3, Zenon DEF WriteBackup
  <2>4. CASE LastCompare(a)  BY <2>4, Zenon DEF LastCompare
  <2>5. CASE CallFails(a)  BY <2>5, Zenon DEF CallFails
  <2>6. CASE ApplyDies(a)  BY <2>6, Zenon DEF ApplyDies
  <2> QED  BY <2>1, <2>2, <2>3, <2>4, <2>5, <2>6
<1> QED  BY <1>4, <1>5, <1>6, <1>7, <1>8, <1>9, <1>10

LEMMA RenameKeepsInv ==
  ASSUME ConfigInv, NEW a \in Appliers, Rename(a)
  PROVE  ConfigInv'
<1> DEFINE text == PlanOf[applier[a].original]
           file == [text |-> text, by |-> a]
           next == [NewApplier EXCEPT !.pc = "done"]
<1>1. /\ applier[a].pc = "rename" /\ PlaceText(text, a) /\ Applies(a, next)
      /\ UNCHANGED copies
  BY DEF Rename, ApplierAt
<1>2. /\ next \in ApplierRecords
      /\ \A b, at, there, saved : Follows(b, next, at, there, saved)
  BY NewApplierFacts
<1> HIDE DEF next
<1>3. /\ \A b \in Appliers : applier'[b] = IF b = a THEN next ELSE applier[b]
      /\ applier' \in [Appliers -> ApplierRecords]
  BY <1>1, <1>2 DEF Applies, ConfigInv, ConfigTypes
<1>4. applier[a].original \in ConfigTexts
  BY <1>1 DEF ConfigInv, Follows, OneFileSeen
<1>5. file \in ConfigFiles /\ file.by = a
  BY <1>4, ConfigAssumption DEF ConfigFiles
<1>6. files' = Append(files, file) /\ path' = Len(files) + 1
  BY <1>1 DEF PlaceText
<1> HIDE DEF file
<1>7. ConfigTypes'
  <2>1. files \in Seq(ConfigFiles)  BY DEF ConfigInv, ConfigTypes
  <2>2. Append(files, file) \in Seq(ConfigFiles)
        /\ Len(Append(files, file)) = Len(files) + 1 /\ Len(files) \in Nat
    BY <1>5, <2>1
  <2> QED  BY <1>3, <1>6, <2>2 DEF ConfigTypes
<1>8. ASSUME NEW b \in Appliers, b # a
      PROVE  Follows(b, applier[b], path', files', copies)
  <2>1. /\ applier[b] \in ApplierRecords /\ files \in Seq(ConfigFiles)
        /\ Follows(b, applier[b], path, files, copies)
    BY DEF ConfigInv, ConfigTypes
  <2> QED  BY <1>5, <1>6, <1>8, <2>1, FollowsPlaced
<1> QED  BY <1>1, <1>2, <1>3, <1>7, <1>8 DEF ConfigInv

\* Another program writes into the file at the path.
LEMMA WriteInPlaceKeepsInv ==
  ASSUME ConfigInv, WriteInPlace, UNCHANGED <<copies, applier>>
  PROVE  ConfigInv'
<1>1. PICK text \in ConfigTexts : files' = [files EXCEPT ![path].text = text]
  BY DEF WriteInPlace
<1>2. path # 0 /\ UNCHANGED path /\ \A a \in Appliers : ~HasRead(a)
  BY DEF WriteInPlace
<1>3. files \in Seq(ConfigFiles) /\ path \in 1..Len(files) /\ Len(files) \in Nat
  BY <1>2 DEF ConfigInv, ConfigTypes
<1>4. files[path] \in ConfigFiles  BY <1>3
<1>5. [files[path] EXCEPT !.text = text] \in ConfigFiles
  BY <1>4 DEF ConfigFiles
<1>6. files' = [files EXCEPT ![path] = [files[path] EXCEPT !.text = text]]
  BY <1>1
<1>7. files' \in Seq(ConfigFiles) /\ Len(files') = Len(files)
  BY <1>3, <1>5, <1>6
<1>8. ConfigTypes'
  BY <1>2, <1>3, <1>7 DEF ConfigInv, ConfigTypes
<1>9. ASSUME NEW a \in Appliers
      PROVE  Follows(a, applier[a], path, files', copies)
  <2> DEFINE me == applier[a]
  <2>1. /\ OneFileSeen(me, files) /\ BackedUp(a, me, copies)
    BY DEF ConfigInv, Follows
  <2>2. /\ me.pc # "rename"
        /\ ~(me.pc = "backup" /\ me.look \in {"after", "compare"})
    BY <1>2 DEF HasRead, ApplierAt
  <2> HIDE DEF me
  <2>3. OneFileSeen(me, files')  BY <1>7, <2>1 DEF OneFileSeen
  <2>4. LastReadHolds(me, files') /\ LastLookHolds(a, me, path, files')
    BY <2>2 DEF LastReadHolds, LastLookHolds
  <2> QED  BY <2>1, <2>3, <2>4 DEF Follows, me
<1> QED  BY <1>2, <1>8, <1>9 DEF ConfigInv

LEMMA ConfigStep == ConfigInv /\ [ConfigNext]_configVars => ConfigInv'
<1> SUFFICES ASSUME ConfigInv, [ConfigNext]_configVars  PROVE ConfigInv'
  OBVIOUS
<1>1. CASE UNCHANGED configVars
  <2>1. UNCHANGED <<path, files, copies, applier>>  BY <1>1 DEF configVars
  <2> QED  BY <2>1 DEF ConfigInv, ConfigTypes
<1>2. CASE OtherWrites
  <2>1. UNCHANGED <<copies, applier>> /\ (WriteInPlace \/ Replace)
    BY <1>2 DEF OtherWrites
  <2>2. CASE WriteInPlace  BY <2>1, <2>2, WriteInPlaceKeepsInv
  <2>3. CASE \E text \in ConfigTexts : Replace /\ PlaceText(text, NoText)
    <3>1. \A a \in Appliers : ~HasLooked(a)  BY <2>3 DEF Replace
    <3> QED  BY <2>1, <2>3, <3>1, PlacedKeepsInv
  <2>4. CASE Replace /\ path' = 0 /\ UNCHANGED files
    <3>1. \A a \in Appliers : ~HasLooked(a)  BY <2>4 DEF Replace
    <3>2. ASSUME NEW a \in Appliers
          PROVE  Follows(a, applier[a], 0, files, copies)
      BY <3>1 DEF ConfigInv, Follows, LastLookHolds, HasLooked, ApplierAt
    <3>3. ConfigTypes'  BY <2>1, <2>4 DEF ConfigInv, ConfigTypes
    <3> QED  BY <2>1, <2>4, <3>2, <3>3 DEF ConfigInv
  <2> QED  BY <2>1, <2>2, <2>3, <2>4 DEF Replace
<1>3. ASSUME NEW a \in Appliers,
             \/ LookBefore(a) \/ OpenAndRead(a) \/ LookAfter(a) \/ Plan(a)
             \/ WritePlanned(a) \/ WriteBackup(a) \/ LastCompare(a) \/ Rename(a)
             \/ CallFails(a) \/ ApplyDies(a)
      PROVE  ConfigInv'
  BY <1>3, ReadsKeepInv, ComparesKeepInv, RenameKeepsInv
<1> QED  BY <1>1, <1>2, <1>3 DEF ConfigNext

LEMMA ConfigStarting == ConfigInit => ConfigInv
<1> SUFFICES ASSUME ConfigInit  PROVE ConfigInv
  OBVIOUS
<1>1. PICK text \in ConfigTexts : files = <<[text |-> text, by |-> NoText]>>
  BY DEF ConfigInit
<1>2. files \in Seq(ConfigFiles) /\ Len(files) = 1
  BY <1>1 DEF ConfigFiles
<1>3. /\ NewApplier \in ApplierRecords /\ NewApplier.pc = "load"
      /\ NewApplier.look = "before"
  BY DEF NewApplier, ApplierRecords
<1>4. \A a \in Appliers : /\ applier[a] \in ApplierRecords
                          /\ applier[a].pc \in {"load", "done"}
                          /\ applier[a].look = "before"
  <2>1. PICK start \in ConfigStarts :
          applier = [a \in Appliers |-> IF a \in start.running THEN NewApplier
                                        ELSE [NewApplier EXCEPT !.pc = "done"]]
    BY DEF ConfigInit
  <2> QED  BY <1>3, <2>1 DEF ApplierRecords
<1>5. ConfigTypes
  <2>1. DOMAIN applier = Appliers /\ applier = [a \in Appliers |-> applier[a]]
    BY DEF ConfigInit
  <2> QED  BY <1>2, <1>4, <2>1 DEF ConfigTypes, ConfigInit
<1> QED
  BY <1>4, <1>5 DEF ConfigInv, Follows, OneFileSeen, BackedUp, LastReadHolds,
     LastLookHolds

\* Whoever else writes the configuration up to the window the protocol leaves
\* open, an apply replaces only the text that is in its plan and in its backup,
\* or another apply's.
THEOREM AppliesReplaceWhatTheyPlanned == ConfigSpec => OnlyThePlannedReplaced
<1>1. ConfigInit => ConfigInv  BY ConfigStarting
<1>2. ConfigInv /\ [ConfigNext]_configVars => ConfigInv'  BY ConfigStep
<1>3. ConfigInv /\ [ConfigNext]_configVars =>
        [\A a \in Appliers :
           (applier[a].pc = "rename" /\ path' # path) =>
             \/ /\ path = applier[a].identity
                /\ files[path].text = applier[a].original
                /\ <<a, applier[a].original>> \in copies
             \/ path # 0 /\ files[path].by \in Appliers \ {a}]_configVars
  BY DEF ConfigInv, Follows, BackedUp, LastReadHolds, LastLookHolds
<1> QED
  BY <1>1, <1>2, <1>3, PTL DEF ConfigSpec, OnlyThePlannedReplaced

-----------------------------------------------------------------------------
(***************************************************************************)
(* The set-up of a repository.  The queue a setup found selected or has    *)
(* selected stays so, and is there, kept out of git, before the setup may  *)
(* write instructions that name it.  Of setups run one after the other,    *)
(* the one that holds what it read holds every word people wrote, and only *)
(* while it has truncated the file are these words not there.              *)
(***************************************************************************)

SetupRecords ==
  [pc : {"start", "queue", "agents", "lessons", "open", "read", "migrate",
         "archive", "filling", "store", "write", "cut", "managed", "done",
         "failed", "dead"},
   text : AgentsFiles, selected : BOOLEAN]

SetupTypes ==
  /\ agents \in AgentsFiles
  /\ archive \in {"none", "partial", "whole"}
  /\ setup \in [Setups -> SetupRecords]
  /\ said \in [words : SUBSET (Sentences \cup {Template}), lessons : BOOLEAN]
  /\ setupStart \in [tracker : [Setups -> Trackers], together : BOOLEAN,
                     changes : Nat]

Busy(me) == me.pc \notin {"start", "done", "failed", "dead"}

Holding(me) == me.pc \in {"read", "migrate", "archive", "filling", "store",
                          "write", "cut"}

\* What a setup for a tracker has done for the queue.
QueueComes(me, tracker, queue, hidden) ==
  /\ me.selected => queue = "selected"
  /\ me.pc \in {"read", "migrate", "archive", "filling", "store"} => tracker = "local"
  /\ me.pc \in {"migrate", "archive", "filling", "store"} => hidden
  /\ me.pc \in {"write", "cut"} /\ tracker = "local" => hidden /\ queue = "selected"
  /\ Holding(me) => me.text.there /\ me.text.block = tracker

\* What a setup that runs alone has of the words people wrote.
HoldsWords(me, file, words) ==
  /\ Holding(me) => words \subseteq me.text.words
  /\ me.pc = "cut" => file.cut

BlockInv ==
  /\ \A s \in Setups : QueueComes(setup[s], setupStart.tracker[s], localQueue, excluded)
  /\ QueueBehindBlock

WordsInv ==
  /\ said.lessons => lessons = "written"
  /\ ~agents.there => agents.words = {}
  /\ ~setupStart.together =>
       /\ \A s, t \in Setups : Busy(setup[s]) /\ Busy(setup[t]) => s = t
       /\ \A s \in Setups : HoldsWords(setup[s], agents, said.words)
       /\ \/ \E s \in Setups : setup[s].pc = "cut"
          \/ said.words \subseteq agents.words

SetupInv == SetupTypes /\ BlockInv /\ WordsInv

LEMMA SetupInvSuffices == SetupInv => SetupKeepsFaith
<1> SUFFICES ASSUME SetupInv  PROVE SetupKeepsFaith
  OBVIOUS
<1>1. QueueBehindBlock  BY DEF SetupInv, BlockInv
<1>2. WordsKept  BY DEF SetupInv, WordsInv, WordsKept, HoldsWords
<1> QED  BY <1>1, <1>2 DEF SetupKeepsFaith

\* A setup that runs alone, and is under way, is the only one.
LEMMA BusyAlone ==
  ASSUME SetupInv, NEW s \in Setups, ~setupStart.together, Busy(setup[s])
  PROVE  \A t \in Setups \ {s} : ~Busy(setup[t])
BY DEF SetupInv, WordsInv

\* A step of a setup.
LEMMA SetupGoesOn ==
  ASSUME SetupInv, NEW s \in Setups, NEW next \in SetupRecords,
         setup' = [setup EXCEPT ![s] = next], UNCHANGED setupStart,
         agents' \in AgentsFiles, archive' \in {"none", "partial", "whole"},
         said' \in [words : SUBSET (Sentences \cup {Template}), lessons : BOOLEAN],
         localQueue = "selected" => localQueue' = "selected",
         excluded => excluded',
         QueueComes(next, setupStart.tracker[s], localQueue', excluded'),
         agents'.block = "local" => localQueue' = "selected" /\ excluded',
         said'.lessons => lessons' = "written",
         ~agents'.there => agents'.words = {},
         ~setupStart.together =>
           /\ \A t \in Setups \ {s} : ~Busy(setup[t])
           /\ HoldsWords(next, agents', said'.words)
           /\ next.pc = "cut" \/ said'.words \subseteq agents'.words
  PROVE  SetupInv'
<1>1. \A t \in Setups : setup'[t] = IF t = s THEN next ELSE setup[t]
  BY DEF SetupInv, SetupTypes
<1>2. SetupTypes'  BY <1>1 DEF SetupInv, SetupTypes
<1>3. BlockInv'
  <2>1. ASSUME NEW t \in Setups
        PROVE  QueueComes(setup'[t], setupStart.tracker[t], localQueue', excluded')
    BY <1>1 DEF SetupInv, BlockInv, QueueComes
  <2> QED  BY <2>1 DEF BlockInv, QueueBehindBlock
<1>4. WordsInv'
  <2> SUFFICES ASSUME ~setupStart.together
               PROVE  /\ \A r, t \in Setups : Busy(setup'[r]) /\ Busy(setup'[t]) => r = t
                      /\ \A t \in Setups : HoldsWords(setup'[t], agents', said'.words)
                      /\ \/ \E t \in Setups : setup'[t].pc = "cut"
                         \/ said'.words \subseteq agents'.words
    BY DEF WordsInv
  <2>1. \A t \in Setups \ {s} : ~Busy(setup'[t])  BY <1>1
  <2>2. ASSUME NEW t \in Setups
        PROVE  HoldsWords(setup'[t], agents', said'.words)
    BY <1>1 DEF Busy, HoldsWords, Holding
  <2> QED  BY <1>1, <2>1, <2>2
<1> QED  BY <1>2, <1>3, <1>4 DEF SetupInv

\* A setup that only looks, or goes on: what it works on is as it was.
LEMMA SetupLooks ==
  ASSUME SetupInv, NEW s \in Setups, NEW next \in SetupRecords,
         setup' = [setup EXCEPT ![s] = next],
         UNCHANGED <<agents, said, lessons, localQueue, setupStart>>,
         archive' \in {"none", "partial", "whole"},
         excluded => excluded',
         QueueComes(next, setupStart.tracker[s], localQueue, excluded'),
         ~setupStart.together =>
           /\ \A t \in Setups \ {s} : ~Busy(setup[t])
           /\ HoldsWords(next, agents, said.words),
         next.pc = "cut" \/ setup[s].pc # "cut"
  PROVE  SetupInv'
<1>1. agents \in AgentsFiles
      /\ said \in [words : SUBSET (Sentences \cup {Template}), lessons : BOOLEAN]
  BY DEF SetupInv, SetupTypes
<1>2. /\ agents.block = "local" => localQueue = "selected" /\ excluded
      /\ said.lessons => lessons = "written"
      /\ ~agents.there => agents.words = {}
  BY DEF SetupInv, BlockInv, QueueBehindBlock, WordsInv
<1>3. ASSUME ~setupStart.together
      PROVE  next.pc = "cut" \/ said.words \subseteq agents.words
  <2>1. \A t \in Setups \ {s} : setup[t].pc # "cut"  BY <1>3 DEF Busy
  <2> QED  BY <1>3, <2>1 DEF SetupInv, WordsInv
<1> QED  BY <1>1, <1>2, <1>3, SetupGoesOn

LEMMA SetupGoesFacts ==
  ASSUME SetupInv, NEW s \in Setups, NEW pc, SetupGoes(s, pc)
  PROVE  LET next == [setup[s] EXCEPT !.pc = pc] IN
         /\ setup' = [setup EXCEPT ![s] = next]
         /\ next.pc = pc /\ next.text = setup[s].text
         /\ next.selected = setup[s].selected
         /\ pc \in {"start", "queue", "agents", "lessons", "open", "read", "migrate",
                    "archive", "filling", "store", "write", "cut", "managed", "done",
                    "failed", "dead"} => next \in SetupRecords
<1>1. setup[s] \in SetupRecords  BY DEF SetupInv, SetupTypes
<1> QED  BY <1>1 DEF SetupGoes, SetupRecords

\* What holds of a setup under way.
LEMMA SetupFacts ==
  ASSUME SetupInv, NEW s \in Setups
  PROVE  /\ setup[s] \in SetupRecords /\ agents \in AgentsFiles
         /\ archive \in {"none", "partial", "whole"}
         /\ said \in [words : SUBSET (Sentences \cup {Template}), lessons : BOOLEAN]
         /\ QueueComes(setup[s], setupStart.tracker[s], localQueue, excluded)
         /\ agents.block = "local" => localQueue = "selected" /\ excluded
         /\ said.lessons => lessons = "written"
         /\ ~agents.there => agents.words = {}
         /\ ~setupStart.together => HoldsWords(setup[s], agents, said.words)
         /\ ~setupStart.together /\ setup[s].pc # "cut" /\ Busy(setup[s])
              => said.words \subseteq agents.words
<1>1. ASSUME ~setupStart.together, setup[s].pc # "cut", Busy(setup[s])
      PROVE  said.words \subseteq agents.words
  <2>1. \A t \in Setups : setup[t].pc # "cut"
    BY <1>1, BusyAlone DEF Busy
  <2> QED  BY <1>1, <2>1 DEF SetupInv, WordsInv
<1> QED
  BY <1>1 DEF SetupInv, SetupTypes, BlockInv, QueueBehindBlock, WordsInv

\* The checks, and what a setup does for the queue.
LEMMA ChecksKeepSetupInv ==
  ASSUME SetupInv, NEW s \in Setups,
         \/ CheckManaged(s) \/ CheckQueue(s) \/ ReadInstruction(s) \/ Exclude(s)
         \/ Migrate(s) \/ Archive(s) \/ FillArchive(s) \/ WriteManaged(s)
  PROVE  SetupInv'
<1> DEFINE me == setup[s]
           tracker == setupStart.tracker[s]
<1>1. /\ me \in SetupRecords /\ agents \in AgentsFiles
      /\ archive \in {"none", "partial", "whole"}
      /\ QueueComes(me, tracker, localQueue, excluded)
      /\ ~setupStart.together => HoldsWords(me, agents, said.words)
      /\ ~setupStart.together /\ me.pc # "cut" /\ Busy(me)
           => said.words \subseteq agents.words
  BY SetupFacts
<1>2. ~setupStart.together /\ Busy(me) => \A t \in Setups \ {s} : ~Busy(setup[t])
  BY BusyAlone
\* Going on without the words and the queue, or with what is held.
<1>3. ASSUME NEW pc \in {"queue", "agents", "done", "failed", "archive", "filling",
                         "store", "migrate", "write"},
             SetupGoes(s, pc), me.pc # "cut",
             UNCHANGED <<agents, said, lessons, localQueue, setupStart>>,
             archive' \in {"none", "partial", "whole"},
             excluded => excluded',
             ~setupStart.together => \A t \in Setups \ {s} : ~Busy(setup[t]),
             pc \in {"archive", "filling", "store", "migrate", "write"} =>
               me.pc \in {"read", "migrate", "archive", "filling", "store"},
             pc \in {"archive", "filling", "store", "migrate"} => excluded',
             pc = "write" => excluded' /\ localQueue = "selected"
      PROVE  SetupInv'
  <2> DEFINE next == [me EXCEPT !.pc = pc]
  <2>1. /\ setup' = [setup EXCEPT ![s] = next] /\ next \in SetupRecords
        /\ next.pc = pc /\ next.text = me.text /\ next.selected = me.selected
    BY <1>3, SetupGoesFacts
  <2> HIDE DEF next, me, tracker
  <2>2. QueueComes(next, tracker, localQueue, excluded')
    BY <1>1, <1>3, <2>1 DEF QueueComes, Holding
  <2>3. ~setupStart.together => HoldsWords(next, agents, said.words)
    BY <1>1, <1>3, <2>1 DEF HoldsWords, Holding
  <2> QED  BY <1>3, <2>1, <2>2, <2>3, SetupLooks DEF me, tracker
<1>4. CASE CheckManaged(s)
  <2>1. /\ me.pc = "start" /\ UNCHANGED <<agents, repoVars, setupStart>>
        /\ setupStart.together \/ \A t \in Setups : ~Busy(setup[t])
        /\ \E pc \in {"failed", "queue", "agents"} : SetupGoes(s, pc)
    BY <1>4 DEF CheckManaged, SetupAt, Busy
  <2> QED  BY <1>1, <1>3, <2>1 DEF repoVars
<1>5. CASE CheckQueue(s)
  <2> DEFINE found == localQueue = "selected"
             pc == IF localQueue \in {"invalid", "unselected"} \/ tickets
                   THEN "failed" ELSE "agents"
             next == [me EXCEPT !.pc = pc, !.selected = found]
  <2>1. /\ me.pc = "queue" /\ UNCHANGED <<agents, repoVars, setupStart>>
        /\ setup' = [setup EXCEPT ![s].pc = pc, ![s].selected = found]
    BY <1>5 DEF CheckQueue, SetupAt
  <2>2. found \in BOOLEAN /\ pc \in {"failed", "agents"}  OBVIOUS
  <2>3. setup \in [Setups -> SetupRecords]  BY DEF SetupInv, SetupTypes
  <2> HIDE DEF pc
  <2>4. /\ setup' = [setup EXCEPT ![s] = next] /\ next \in SetupRecords
        /\ next.pc = pc /\ next.selected = found
    BY <1>1, <2>1, <2>2, <2>3 DEF SetupRecords
  <2> HIDE DEF next, me, tracker
  <2>5. QueueComes(next, tracker, localQueue, excluded)
    BY <2>2, <2>4 DEF QueueComes, Holding
  <2>6. HoldsWords(next, agents, said.words)
    BY <2>2, <2>4 DEF HoldsWords, Holding
  <2>7. Busy(me)  BY <2>1 DEF Busy
  <2> QED
    BY <1>1, <1>2, <2>1, <2>4, <2>5, <2>6, <2>7, SetupLooks
    DEF repoVars, me, tracker
<1>6. CASE ReadInstruction(s)
  <2>1. /\ me.pc = "open" /\ UNCHANGED <<agents, repoVars, setupStart>>
    BY <1>6 DEF ReadInstruction, SetupAt
  <2>2. Busy(me)  BY <2>1 DEF Busy
  <2>3. CASE setup' = [setup EXCEPT ![s].pc = "failed"]
    BY <1>1, <1>2, <1>3, <2>1, <2>2, <2>3 DEF repoVars, SetupGoes
  <2>4. CASE /\ agents.there
             /\ setup' = [setup EXCEPT
                  ![s].pc = IF Local(s) THEN "read" ELSE "write",
                  ![s].text = Replaced(s, [agents EXCEPT !.cut = FALSE])]
    <3> DEFINE text == Replaced(s, [agents EXCEPT !.cut = FALSE])
               pc == IF Local(s) THEN "read" ELSE "write"
               next == [me EXCEPT !.pc = pc, !.text = text]
    <3>1. tracker \in Trackers
      BY DEF SetupInv, SetupTypes
    <3>2. /\ text \in AgentsFiles /\ text.words = agents.words
          /\ text.there /\ text.block = tracker
      BY <1>1, <2>4, <3>1 DEF Replaced, AgentsFiles
    <3>3. pc = IF tracker = "local" THEN "read" ELSE "write"
      BY DEF Local
    <3> HIDE DEF text, pc
    <3>4. setup \in [Setups -> SetupRecords]  BY DEF SetupInv, SetupTypes
    <3>5. setup' = [setup EXCEPT ![s] = next]
      BY <2>4, <3>4 DEF text, pc
    <3>6. /\ next \in SetupRecords /\ next.pc = pc /\ next.text = text
          /\ next.selected = me.selected
      BY <1>1, <3>2, <3>3 DEF SetupRecords
    <3> HIDE DEF next, me, tracker
    <3>7. QueueComes(next, tracker, localQueue, excluded)
      BY <1>1, <3>2, <3>3, <3>6 DEF QueueComes
    <3>8. ~setupStart.together => HoldsWords(next, agents, said.words)
      BY <1>1, <2>1, <2>2, <3>2, <3>3, <3>6 DEF HoldsWords
    <3> QED
      BY <1>1, <1>2, <2>1, <2>2, <3>5, <3>6, <3>7, <3>8, SetupLooks
      DEF repoVars, me, tracker
  <2> QED  BY <1>6, <2>3, <2>4 DEF ReadInstruction
<1>7. CASE Exclude(s)
  <2>1. /\ me.pc = "read" /\ excluded'
        /\ UNCHANGED <<agents, said, lessons, localQueue, archive, setupStart>>
        /\ SetupGoes(s, IF me.selected THEN "write" ELSE "migrate")
    BY <1>7 DEF Exclude, SetupAt
  <2>2. me.selected => localQueue = "selected"  BY <1>1 DEF QueueComes
  <2>3. Busy(me)  BY <2>1 DEF Busy
  <2>4. \/ SetupGoes(s, "write") /\ localQueue = "selected"
        \/ SetupGoes(s, "migrate")
    BY <2>1, <2>2
  <2> HIDE DEF me, tracker
  <2> QED  BY <1>1, <1>2, <1>3, <2>1, <2>3, <2>4
<1>8. CASE Migrate(s)
  <2>1. /\ me.pc = "migrate"
        /\ UNCHANGED <<agents, said, lessons, localQueue, archive, excluded, setupStart>>
        /\ \/ SetupGoes(s, "failed") \/ SetupGoes(s, "archive")
           \/ SetupGoes(s, "write") /\ localQueue = "selected"
    BY <1>8 DEF Migrate, SetupAt
  <2>2. Busy(me) /\ excluded  BY <1>1, <2>1 DEF Busy, QueueComes
  <2> HIDE DEF me, tracker
  <2> QED  BY <1>1, <1>2, <1>3, <2>1, <2>2
<1>9. CASE Archive(s)
  <2>1. /\ me.pc = "archive"
        /\ UNCHANGED <<agents, said, lessons, localQueue, excluded, setupStart>>
        /\ archive' \in {"none", "partial", "whole"}
        /\ \E pc \in {"filling", "store", "failed"} : SetupGoes(s, pc)
    BY <1>1, <1>9 DEF Archive, SetupAt
  <2>2. Busy(me) /\ excluded  BY <1>1, <2>1 DEF Busy, QueueComes
  <2> HIDE DEF me, tracker
  <2> QED  BY <1>1, <1>2, <1>3, <2>1, <2>2
<1>10. CASE FillArchive(s)
  <2>1. /\ me.pc = "filling" /\ archive' = "whole" /\ SetupGoes(s, "store")
        /\ UNCHANGED <<agents, said, lessons, localQueue, excluded, setupStart>>
    BY <1>10 DEF FillArchive, SetupAt
  <2>2. Busy(me) /\ excluded  BY <1>1, <2>1 DEF Busy, QueueComes
  <2> HIDE DEF me, tracker
  <2> QED  BY <1>1, <1>2, <1>3, <2>1, <2>2
<1>11. CASE WriteManaged(s)
  <2>1. /\ me.pc = "managed" /\ SetupGoes(s, "done")
        /\ UNCHANGED <<agents, said, lessons, localQueue, archive, excluded, setupStart>>
    BY <1>11 DEF WriteManaged, SetupAt
  <2>2. Busy(me)  BY <2>1 DEF Busy
  <2> HIDE DEF me, tracker
  <2> QED  BY <1>1, <1>2, <1>3, <2>1, <2>2
<1> QED  BY <1>4, <1>5, <1>6, <1>7, <1>8, <1>9, <1>10, <1>11

\* What a setup writes.
LEMMA WritesKeepSetupInv ==
  ASSUME SetupInv, NEW s \in Setups,
         \/ BootstrapAgents(s) \/ BootstrapLessons(s) \/ SelectQueue(s)
         \/ Truncate(s) \/ WriteInstruction(s) \/ SetupDies(s)
  PROVE  SetupInv'
<1> DEFINE me == setup[s]
           tracker == setupStart.tracker[s]
           at(pc) == [me EXCEPT !.pc = pc]
<1>1. /\ me \in SetupRecords /\ agents \in AgentsFiles
      /\ archive \in {"none", "partial", "whole"}
      /\ said \in [words : SUBSET (Sentences \cup {Template}), lessons : BOOLEAN]
      /\ QueueComes(me, tracker, localQueue, excluded)
      /\ agents.block = "local" => localQueue = "selected" /\ excluded
      /\ said.lessons => lessons = "written"
      /\ ~agents.there => agents.words = {}
      /\ ~setupStart.together => HoldsWords(me, agents, said.words)
      /\ ~setupStart.together /\ me.pc # "cut" /\ Busy(me)
           => said.words \subseteq agents.words
  BY SetupFacts
<1>2. ~setupStart.together /\ Busy(me) => \A t \in Setups \ {s} : ~Busy(setup[t])
  BY BusyAlone
<1>3. ASSUME NEW pc \in {"lessons", "open", "write", "cut", "managed", "dead"},
             SetupGoes(s, pc)
      PROVE  /\ setup' = [setup EXCEPT ![s] = at(pc)] /\ at(pc) \in SetupRecords
             /\ at(pc).pc = pc /\ at(pc).text = me.text
             /\ at(pc).selected = me.selected
  BY <1>3, SetupGoesFacts
<1>4. NoAgents \in AgentsFiles /\ NoAgents.block = "nothing" /\ NoAgents.words = {}
  BY DEF NoAgents, AgentsFiles
<1> HIDE DEF at
<1>5. CASE BootstrapAgents(s)
  <2> DEFINE new == [NoAgents EXCEPT !.there = TRUE, !.words = {Template}]
             next == at("lessons")
  <2>1. /\ me.pc = "agents" /\ SetupGoes(s, "lessons")
        /\ agents' = IF agents.there THEN agents ELSE new
        /\ UNCHANGED <<said, lessons, localQueue, excluded, archive, setupStart>>
    BY <1>5 DEF BootstrapAgents, SetupAt, repoVars
  <2>2. new \in AgentsFiles /\ new.there /\ new.block = "nothing"
    BY DEF NoAgents, AgentsFiles
  <2>3. Busy(me)  BY <2>1 DEF Busy
  <2> HIDE DEF new
  <2>4. /\ agents' \in AgentsFiles
        /\ agents'.block = "local" => localQueue = "selected" /\ excluded
        /\ agents'.there
        /\ agents.words \subseteq agents'.words
    BY <1>1, <2>1, <2>2
  <2>5. /\ setup' = [setup EXCEPT ![s] = next] /\ next \in SetupRecords
        /\ next.pc = "lessons" /\ next.selected = me.selected
    BY <1>3, <2>1
  <2> HIDE DEF next, me, tracker
  <2>6. QueueComes(next, tracker, localQueue, excluded)
    BY <1>1, <2>5 DEF QueueComes, Holding
  <2>7. HoldsWords(next, agents', said.words)
    BY <2>5 DEF HoldsWords, Holding
  <2> QED
    BY <1>1, <1>2, <2>1, <2>3, <2>4, <2>5, <2>6, <2>7, SetupGoesOn DEF me, tracker
<1>6. CASE BootstrapLessons(s)
  <2> DEFINE next == at("open")
  <2>1. /\ me.pc = "lessons" /\ SetupGoes(s, "open")
        /\ lessons = "written" => lessons' = "written"
        /\ UNCHANGED <<agents, said, localQueue, excluded, archive, setupStart>>
    BY <1>6 DEF BootstrapLessons, SetupAt
  <2>2. Busy(me)  BY <2>1 DEF Busy
  <2>3. /\ setup' = [setup EXCEPT ![s] = next] /\ next \in SetupRecords
        /\ next.pc = "open" /\ next.selected = me.selected
    BY <1>3, <2>1
  <2> HIDE DEF next, me, tracker
  <2>4. QueueComes(next, tracker, localQueue, excluded)
    BY <1>1, <2>3 DEF QueueComes, Holding
  <2>5. HoldsWords(next, agents, said.words)
    BY <2>3 DEF HoldsWords, Holding
  <2>6. said'.lessons => lessons' = "written"  BY <1>1, <2>1
  <2>7. said.words \subseteq agents.words \/ setupStart.together
    BY <1>1, <2>1, <2>2 DEF me
  <2> QED
    BY <1>1, <1>2, <2>1, <2>2, <2>3, <2>4, <2>5, <2>6, <2>7, SetupGoesOn
    DEF me, tracker
<1>7. CASE SelectQueue(s)
  <2> DEFINE next == at("write")
  <2>1. /\ me.pc = "store" /\ SetupGoes(s, "write") /\ localQueue' = "selected"
        /\ UNCHANGED <<agents, said, lessons, excluded, archive, setupStart>>
    BY <1>7 DEF SelectQueue, SetupAt
  <2>2. Busy(me)  BY <2>1 DEF Busy
  <2>3. /\ setup' = [setup EXCEPT ![s] = next] /\ next \in SetupRecords
        /\ next.pc = "write" /\ next.text = me.text
        /\ next.selected = me.selected
    BY <1>3, <2>1
  <2>4. ~setupStart.together => said.words \subseteq agents.words
    BY <1>1, <2>1, <2>2
  <2> HIDE DEF next, me, tracker
  <2>5. QueueComes(next, tracker, localQueue', excluded)
    BY <1>1, <2>1, <2>3 DEF QueueComes, Holding
  <2>6. ~setupStart.together => HoldsWords(next, agents, said.words)
    BY <1>1, <2>1, <2>3 DEF HoldsWords, Holding
  <2>7. agents.block = "local" => localQueue' = "selected" /\ excluded
    BY <1>1, <2>1
  <2> QED
    BY <1>1, <1>2, <2>1, <2>2, <2>3, <2>4, <2>5, <2>6, <2>7, SetupGoesOn
    DEF me, tracker
<1>8. CASE Truncate(s)
  <2> DEFINE new == [NoAgents EXCEPT !.there = TRUE, !.cut = TRUE]
             next == at("cut")
  <2>1. /\ me.pc = "write" /\ SetupGoes(s, "cut") /\ agents' = new
        /\ UNCHANGED <<said, lessons, localQueue, excluded, archive, setupStart>>
    BY <1>8 DEF Truncate, SetupAt, repoVars
  <2>2. Busy(me)  BY <2>1 DEF Busy
  <2>3. new \in AgentsFiles /\ new.there /\ new.cut /\ new.block = "nothing"
    BY DEF NoAgents, AgentsFiles
  <2> HIDE DEF new
  <2>4. /\ setup' = [setup EXCEPT ![s] = next] /\ next \in SetupRecords
        /\ next.pc = "cut" /\ next.text = me.text
        /\ next.selected = me.selected
    BY <1>3, <2>1
  <2> HIDE DEF next, me, tracker
  <2>5. QueueComes(next, tracker, localQueue, excluded)
    BY <1>1, <2>1, <2>4 DEF QueueComes, Holding
  <2>6. ~setupStart.together => HoldsWords(next, agents', said.words)
    BY <1>1, <2>1, <2>3, <2>4 DEF HoldsWords, Holding
  <2> QED
    BY <1>1, <1>2, <2>1, <2>2, <2>3, <2>4, <2>5, <2>6, SetupGoesOn
    DEF me, tracker
<1>9. CASE WriteInstruction(s)
  <2> DEFINE next == at("managed")
  <2>1. /\ me.pc = "cut" /\ SetupGoes(s, "managed") /\ agents' = me.text
        /\ UNCHANGED <<said, lessons, localQueue, excluded, archive, setupStart>>
    BY <1>9 DEF WriteInstruction, SetupAt, repoVars
  <2>2. Busy(me)  BY <2>1 DEF Busy
  <2>3. me.text \in AgentsFiles  BY <1>1 DEF SetupRecords
  <2>4. /\ setup' = [setup EXCEPT ![s] = next] /\ next \in SetupRecords
        /\ next.pc = "managed" /\ next.selected = me.selected
    BY <1>3, <2>1
  <2> HIDE DEF next, me, tracker
  <2>5. QueueComes(next, tracker, localQueue, excluded)
    BY <1>1, <2>4 DEF QueueComes, Holding
  <2>6. HoldsWords(next, agents', said.words)
    BY <2>4 DEF HoldsWords, Holding
  <2>7. agents'.block = "local" => localQueue = "selected" /\ excluded
    BY <1>1, <2>1 DEF QueueComes, Holding
  <2>8. ~setupStart.together => said.words \subseteq agents'.words
    BY <1>1, <2>1 DEF HoldsWords, Holding
  <2>9. agents'.there  BY <1>1, <2>1 DEF QueueComes, Holding
  <2> QED
    BY <1>1, <1>2, <2>1, <2>2, <2>3, <2>4, <2>5, <2>6, <2>7, <2>8, <2>9, SetupGoesOn
    DEF me, tracker
<1>10. CASE SetupDies(s)
  <2> DEFINE next == at("dead")
  <2>1. /\ Busy(me) /\ SetupGoes(s, "dead")
        /\ said' = IF me.pc = "cut" THEN [said EXCEPT !.words = {}] ELSE said
        /\ UNCHANGED <<agents, lessons, localQueue, excluded, archive, setupStart>>
    BY <1>10 DEF SetupDies, SetupAt, Busy
  <2>2. /\ said' \in [words : SUBSET (Sentences \cup {Template}), lessons : BOOLEAN]
        /\ said'.lessons = said.lessons
        /\ me.pc = "cut" => said'.words = {}
        /\ me.pc # "cut" => said' = said
    BY <1>1, <2>1
  <2>3. /\ setup' = [setup EXCEPT ![s] = next] /\ next \in SetupRecords
        /\ next.pc = "dead" /\ next.selected = me.selected
    BY <1>3, <2>1
  <2> HIDE DEF next, me, tracker
  <2>4. QueueComes(next, tracker, localQueue, excluded)
    BY <1>1, <2>3 DEF QueueComes, Holding
  <2>5. HoldsWords(next, agents, said'.words)
    BY <2>3 DEF HoldsWords, Holding
  <2>6. ~setupStart.together => said'.words \subseteq agents.words
    BY <1>1, <2>1, <2>2
  <2> QED
    BY <1>1, <1>2, <2>1, <2>2, <2>3, <2>4, <2>5, <2>6, SetupGoesOn
    DEF me, tracker
<1> QED  BY <1>5, <1>6, <1>7, <1>8, <1>9, <1>10

\* What people do.
LEMMA HandsKeepSetupInv ==
  ASSUME SetupInv, EditAgents \/ ChangeRepository \/ UNCHANGED setupVars
  PROVE  SetupInv'
<1>1. CASE UNCHANGED setupVars
  <2>1. UNCHANGED <<agents, archive, setup, said, setupStart, lessons, localQueue,
                    excluded>>
    BY <1>1 DEF setupVars
  <2> QED
    BY <2>1 DEF SetupInv, SetupTypes, BlockInv, QueueBehindBlock, WordsInv
<1>2. setupStart \in [tracker : [Setups -> Trackers], together : BOOLEAN,
                      changes : Nat]
  BY DEF SetupInv, SetupTypes
<1>3. ASSUME ByHand
      PROVE  /\ UNCHANGED <<excluded, archive, setup>>
             /\ setupStart' \in [tracker : [Setups -> Trackers],
                                 together : BOOLEAN, changes : Nat]
             /\ setupStart'.tracker = setupStart.tracker
             /\ setupStart'.together = setupStart.together
  <2>1. /\ UNCHANGED <<excluded, archive, setup>> /\ setupStart.changes > 0
        /\ setupStart' = [setupStart EXCEPT !.changes = setupStart.changes - 1]
    BY <1>3 DEF ByHand
  <2> QED  BY <1>2, <2>1
<1>4. CASE EditAgents
  <2>1. /\ ByHand /\ UNCHANGED <<lessons, localQueue>> /\ agents.there
        /\ \A s \in Setups : ~Holding(setup[s])
    BY <1>4 DEF EditAgents, Editing, Holding
  <2>2. /\ agents \in AgentsFiles
        /\ said \in [words : SUBSET (Sentences \cup {Template}), lessons : BOOLEAN]
    BY DEF SetupInv, SetupTypes
  <2>3. /\ agents' \in AgentsFiles /\ agents'.there /\ agents'.block = agents.block
        /\ said' \in [words : SUBSET (Sentences \cup {Template}), lessons : BOOLEAN]
        /\ said'.lessons = said.lessons
        /\ said.words \subseteq agents.words => said'.words \subseteq agents'.words
    <3>1. CASE \E w \in Sentences :
                 /\ agents' = [agents EXCEPT !.words = agents.words \cup {w}]
                 /\ said' = [said EXCEPT !.words = said.words \cup {w}]
      <4>1. PICK w \in Sentences :
              /\ agents' = [agents EXCEPT !.words = agents.words \cup {w}]
              /\ said' = [said EXCEPT !.words = said.words \cup {w}]
        BY <3>1
      <4>2. /\ agents' \in AgentsFiles /\ agents'.there
            /\ agents'.block = agents.block
            /\ agents'.words = agents.words \cup {w}
        BY <2>1, <2>2, <4>1 DEF AgentsFiles
      <4>3. /\ said' \in [words : SUBSET (Sentences \cup {Template}),
                          lessons : BOOLEAN]
            /\ said'.lessons = said.lessons
            /\ said'.words = said.words \cup {w}
        BY <2>2, <4>1
      <4> QED  BY <4>2, <4>3
    <3>2. CASE agents' = [agents EXCEPT !.marks = "bad"] /\ UNCHANGED said
      BY <2>1, <2>2, <3>2 DEF AgentsFiles
    <3> QED  BY <1>4, <3>1, <3>2 DEF EditAgents
  <2>4. SetupTypes'  BY <1>3, <2>1, <2>3 DEF SetupInv, SetupTypes
  <2>5. BlockInv'
    BY <1>3, <2>1, <2>3 DEF SetupInv, BlockInv, QueueBehindBlock
  <2>6. \A s \in Setups : setup[s].pc # "cut"  BY <2>1 DEF Holding
  <2>7. WordsInv'
    <3>1. \A s \in Setups : HoldsWords(setup[s], agents', said'.words)
      BY <2>1 DEF HoldsWords, Holding
    <3> QED
      BY <1>3, <2>1, <2>3, <2>6, <3>1 DEF SetupInv, WordsInv
  <2> QED  BY <2>4, <2>5, <2>7 DEF SetupInv
<1>5. CASE ChangeRepository
  <2>1. /\ ByHand /\ UNCHANGED agents
        /\ localQueue = "selected" => localQueue' = "selected"
        /\ \/ UNCHANGED <<lessons, said>>
           \/ lessons' = "written" /\ said' = [said EXCEPT !.lessons = TRUE]
    BY <1>5 DEF ChangeRepository
  <2>2. said \in [words : SUBSET (Sentences \cup {Template}), lessons : BOOLEAN]
    BY DEF SetupInv, SetupTypes
  <2>3. /\ said' \in [words : SUBSET (Sentences \cup {Template}), lessons : BOOLEAN]
        /\ said'.words = said.words
        /\ \/ UNCHANGED <<lessons, said>>
           \/ lessons' = "written"
    BY <2>1, <2>2
  <2>4. SetupTypes'  BY <1>3, <2>1, <2>3 DEF SetupInv, SetupTypes
  <2>5. BlockInv'
    BY <1>3, <2>1 DEF SetupInv, BlockInv, QueueBehindBlock, QueueComes
  <2>6. WordsInv'
    BY <1>3, <2>1, <2>3 DEF SetupInv, WordsInv
  <2> QED  BY <2>4, <2>5, <2>6 DEF SetupInv
<1> QED  BY <1>1, <1>4, <1>5

LEMMA SetupStep == SetupInv /\ [SetupNext]_setupVars => SetupInv'
BY ChecksKeepSetupInv, WritesKeepSetupInv, HandsKeepSetupInv DEF SetupNext

LEMMA SetupStarting == SetupInit => SetupInv
<1> SUFFICES ASSUME SetupInit  PROVE SetupInv
  OBVIOUS
<1> DEFINE old == [NoAgents EXCEPT !.there = TRUE, !.words = Sentences]
<1>1. NoAgents \in AgentsFiles /\ NoAgents.block = "nothing" /\ NoAgents.words = {}
  BY DEF NoAgents, AgentsFiles
<1>2. old \in AgentsFiles /\ old.there /\ old.block = "nothing"
  BY DEF NoAgents, AgentsFiles
<1>3. agents \in {NoAgents, old}  BY DEF SetupInit
<1> HIDE DEF old
<1>4. /\ agents \in AgentsFiles /\ agents.block = "nothing"
      /\ ~agents.there => agents.words = {}
  BY <1>1, <1>2, <1>3
<1>5. agents.words \in SUBSET (Sentences \cup {Template})
  BY <1>4 DEF AgentsFiles
<1>6. \A s \in Setups : setup[s].pc = "start" /\ ~setup[s].selected
  BY DEF SetupInit
<1>7. SetupTypes
  BY <1>1, <1>4, <1>5, SetupAssumption DEF SetupInit, SetupTypes, SetupRecords
<1>8. BlockInv
  BY <1>4, <1>6 DEF BlockInv, QueueBehindBlock, QueueComes, Holding
<1>9. WordsInv
  BY <1>4, <1>6 DEF SetupInit, WordsInv, Busy, HoldsWords, Holding
<1> QED  BY <1>7, <1>8, <1>9 DEF SetupInv

\* Wherever setups die, and whatever other setups and people do meanwhile, no
\* instructions name a queue that is not selected, and nothing people wrote is
\* lost but by a setup that dies in its write.
THEOREM SetupsKeepFaith == SetupSpec => []SetupKeepsFaith
<1>1. SetupInit => SetupInv  BY SetupStarting
<1>2. SetupInv /\ [SetupNext]_setupVars => SetupInv'  BY SetupStep
<1>3. SetupInv => SetupKeepsFaith  BY SetupInvSuffices
<1> QED  BY <1>1, <1>2, <1>3, PTL DEF SetupSpec

-----------------------------------------------------------------------------
(***************************************************************************)
(* The import of the Markdown queue.  An archive whose files were read at  *)
(* different moments, twice and with the same result, is what the files    *)
(* were between the two preparations: unless a file got back what it had   *)
(* held before, which no number of looks can tell.  And a lock that is in  *)
(* both archives was there when the second preparation read its ticket.    *)
(***************************************************************************)

\* No edit gives a file what it has held since the import began.
NothingComesBack ==
  /\ \A p \in TicketPaths : disk'.tickets[p] # disk.tickets[p] =>
       \A once \in moments : once.tickets[p] # disk'.tickets[p]
  /\ \A i \in Ids : disk'.locks[i] # disk.locks[i] =>
       \A once \in moments : once.locks[i] # disk'.locks[i]

\* What a preparation may find wrong.
ImportRules ==
  {"claim-conflict", "duplicate-ticket-id", "claimed-without-owner", "orphan-claim-lock",
   "source-path-set-changed", "source-claim-set-changed", "source-changed-during-import"}

Preparations ==
  [archive : QueueFiles,
   tasks : SUBSET [id : Ids, path : TicketPaths, status : STRING,
                   claim : LegacyClaims \cup {NoFile}],
   rules : SUBSET ImportRules,
   conflicts : SUBSET [id : Ids, path : TicketPaths, ticket : Nat, lock : Nat]]

Late == {"same paths", "same locks", "same ticket", "same lock", "prepared"}

Readings ==
  [mode : {"report", "import", "verify"},
   at : {"tickets", "ticket", "claim", "locks", "lock"} \cup Late,
   first : Preparations, made : Preparations,
   paths : SUBSET TicketPaths, lockPaths : SUBSET Ids,
   left : SUBSET TicketPaths, locksLeft : SUBSET Ids]

\* Is no task made yet of a ticket that is read, or to be read?
Unmade(r, p) == r.at = "tickets" \/ (r.at \in {"ticket", "claim"} /\ p \in r.left)

\* The tickets that were found are in the archive, but for those to be read;
\* and so are the locks.
InOrder(r) ==
  /\ r.at \in {"ticket", "claim"} => r.left # {} /\ r.left \subseteq r.paths
  /\ \A p \in TicketPaths :
       r.made.archive.tickets[p] # NoFile <=>
         /\ r.at # "tickets" /\ p \in r.paths
         /\ ~Unmade(r, p) \/ (r.at = "claim" /\ p = Lowest(r.left))
  /\ \A i \in Ids :
       /\ r.at \in Late \/ (r.at = "lock" /\ i \notin r.locksLeft)
       /\ i \in r.lockPaths
       => r.made.archive.locks[i] # NoFile

\* One task of every ticket, and no two have one id.
TasksMade(r) ==
  LET asRead == r.made.archive.tickets IN
  /\ \A p \in TicketPaths : asRead[p] # NoFile /\ ~Unmade(r, p) =>
       Task(p, asRead[p]) \in r.made.tasks
  /\ \A task \in r.made.tasks :
       /\ asRead[task.path] # NoFile /\ ~Unmade(r, task.path)
       /\ task = Task(task.path, asRead[task.path])
  /\ \A task, other \in r.made.tasks : task.id = other.id => task = other

\* The conflicts are of archived files, and a lock has a task.
ClaimsRead(r) ==
  LET filed == r.made.archive IN
  /\ \A c \in r.made.conflicts :
       /\ filed.tickets[c.path] # NoFile /\ filed.locks[c.id] # NoFile
       /\ ~Unmade(r, c.path)
       /\ c = Conflict(c.path, filed.tickets[c.path], filed.locks[c.id])
  /\ \A i \in Ids : filed.locks[i] # NoFile =>
       \E task \in r.made.tasks : task.id = i

\* What has been seen of a file: its content, or that it is not there.
TicketSeen(r, p) ==
  \/ r.made.archive.tickets[p] # NoFile
  \/ r.at # "tickets" /\ p \notin r.paths

LockSeen(r, i) ==
  \/ r.made.archive.locks[i] # NoFile
  \/ r.at \in Late \cup {"lock"} /\ i \notin r.lockPaths

WasThere(r, all) ==
  /\ \A p \in TicketPaths : TicketSeen(r, p) =>
       \E once \in all : once.tickets[p] = r.made.archive.tickets[p]
  /\ \A i \in Ids : LockSeen(r, i) =>
       \E once \in all : once.locks[i] = r.made.archive.locks[i]

FirstWasThere(r, all) ==
  /\ \A p \in TicketPaths :
       \E once \in all : once.tickets[p] = r.first.archive.tickets[p]
  /\ \A i \in Ids : \E once \in all : once.locks[i] = r.first.archive.locks[i]

\* The second preparation has found what the lock of the first archive says of a
\* task, or will not archive this lock.
ConflictsSeen(r, now) ==
  \A task \in r.made.tasks :
    LET lock == r.first.archive.locks[task.id]
        both == combineClaim(task.claim, lock)
    IN lock # NoFile =>
         \/ now.locks[task.id] # lock /\ r.made.archive.locks[task.id] # lock
         \/ /\ ~both.conflict
            /\ both.ambiguous =>
                 Conflict(task.path, r.made.archive.tickets[task.path], lock)
                   \in r.made.conflicts

\* There was a moment with all that the second preparation finds again.
AtOneMoment(r, now, all) ==
  \E once \in all :
    /\ \A p \in TicketPaths :
         LET ticket == r.first.archive.tickets[p] IN
         \/ now.tickets[p] = ticket
         \/ TicketSeen(r, p) /\ r.made.archive.tickets[p] = ticket
         => once.tickets[p] = ticket
    /\ \A i \in Ids :
         LET lock == r.first.archive.locks[i] IN
         \/ now.locks[i] = lock
         \/ LockSeen(r, i) /\ r.made.archive.locks[i] = lock
         => once.locks[i] = lock

\* A preparation that has found something wrong will not be imported.
Preparing(r, now, all) ==
  /\ r \in Readings
  /\ InOrder(r)
  /\ r.made.rules = {} => TasksMade(r) /\ ClaimsRead(r)
  /\ r.mode = "import" => WasThere(r, all)
  /\ r.mode = "verify" => /\ FirstWasThere(r, all)
                          /\ AtOneMoment(r, now, all)
                          /\ r.made.rules = {} => ConflictsSeen(r, now)

Decided(choices) ==
  /\ \A d \in choices : d.source \in {"ticket", "lock"}
  /\ \A d, e \in choices : d.conflict = e.conflict => d = e

ImportInv ==
  /\ disk \in QueueFiles /\ disk \in moments /\ moments \subseteq QueueFiles
  /\ editsLeft \in Nat
  /\ Decided(decisions)
  /\ \/ /\ reading.mode \in {"report", "import", "verify"}
        /\ Preparing(reading, disk, moments)
     \/ reading.mode \in {"failed", "imported"} /\ reading.at = "end"
  /\ ImportIsFaithful

-----------------------------------------------------------------------------
(* Helpers of the import. *)

\* The first of several files, in the order of their names.
LEMMA LowestIsOne ==
  ASSUME NEW S \in SUBSET TicketPaths, S # {}
  PROVE  Lowest(S) \in S
<1> DEFINE Before == OpToRel(<, Nat)
<1>1. \A x, y \in Nat : y < x => <<y, x>> \in Before  BY DEF OpToRel
<1>2. S \subseteq Nat  BY ImportAssumption
<1>3. IsWellFoundedOn(Before, Nat)  BY NatLessThanWellFounded
<1> HIDE DEF Before
<1>4. PICK p \in S : \A q \in S : ~(<<q, p>> \in Before)
  BY <1>2, <1>3, WFMin
<1>5. ASSUME NEW q \in S
      PROVE  p <= q
  <2>1. p \in Nat /\ q \in Nat  BY <1>2
  <2>2. ~(q < p)  BY <1>1, <1>4, <2>1
  <2> QED  BY <2>1, <2>2
<1> QED  BY <1>5 DEF Lowest

\* Before the first look at a file.
LEMMA BegunIsPrepared ==
  ASSUME NEW first \in Preparations, NEW mode \in {"report", "import", "verify"}
  PROVE  /\ Begun(mode, first) \in Readings
         /\ InOrder(Begun(mode, first))
         /\ TasksMade(Begun(mode, first)) /\ ClaimsRead(Begun(mode, first))
         /\ \A p \in TicketPaths : ~TicketSeen(Begun(mode, first), p)
         /\ \A i \in Ids : ~LockSeen(Begun(mode, first), i)
         /\ Begun(mode, first).made.tasks = {}
<1> DEFINE r == Begun(mode, first)
<1>1. NoQueueFiles \in QueueFiles  BY DEF NoQueueFiles, QueueFiles
<1>2. NothingMade \in Preparations  BY <1>1 DEF NothingMade, Preparations
<1>3. r = [mode |-> mode, at |-> "tickets", first |-> first, made |-> NothingMade,
           paths |-> {}, lockPaths |-> {}, left |-> {}, locksLeft |-> {}]
  BY DEF Begun
<1>4. r \in Readings  BY <1>2, <1>3 DEF Readings
<1>5. /\ r.at = "tickets" /\ r.made.tasks = {} /\ r.made.conflicts = {}
      /\ \A p \in TicketPaths : r.made.archive.tickets[p] = NoFile
      /\ \A i \in Ids : r.made.archive.locks[i] = NoFile
  BY <1>3 DEF NothingMade, NoQueueFiles
<1> HIDE DEF r
<1>6. InOrder(r)  BY <1>5 DEF InOrder, Late
<1>7. TasksMade(r)  BY <1>5 DEF TasksMade
<1>8. ClaimsRead(r)  BY <1>5 DEF ClaimsRead
<1>9. \A p \in TicketPaths : ~TicketSeen(r, p)  BY <1>5 DEF TicketSeen
<1>10. \A i \in Ids : ~LockSeen(r, i)  BY <1>5 DEF LockSeen, Late
<1> QED  BY <1>4, <1>5, <1>6, <1>7, <1>8, <1>9, <1>10 DEF r

LEMMA UnderWay ==
  ASSUME ImportInv, reading.at # "end"
  PROVE  /\ reading.mode \in {"report", "import", "verify"}
         /\ Preparing(reading, disk, moments)
         /\ disk \in QueueFiles /\ disk \in moments
BY DEF ImportInv

\* A look at the files either goes on or is an exception.
LEMMA LookKeeps ==
  ASSUME ImportInv, NEW then, Look(then),
         \/ /\ then.mode \in {"report", "import", "verify"}
            /\ Preparing(then, disk, moments)
         \/ then = Thrown
  PROVE  ImportInv'
<1>1. /\ reading' = then
      /\ UNCHANGED <<disk, editsLeft, moments, decisions>>
  BY DEF Look
<1>2. Thrown.mode = "failed" /\ Thrown.at = "end"
  BY DEF Thrown, Over, Begun
<1>3. reading'.mode # "imported"  BY <1>1, <1>2
<1>4. ImportIsFaithful'
  BY <1>3 DEF ImportIsFaithful, ArchivedAsItWas, ClaimsCarriedOver, SessionsDecided,
              Imported
<1>5. \/ /\ reading'.mode \in {"report", "import", "verify"}
         /\ Preparing(reading', disk', moments')
      \/ reading'.mode \in {"failed", "imported"} /\ reading'.at = "end"
  BY <1>1, <1>2
<1> QED  BY <1>1, <1>4, <1>5 DEF ImportInv

\* What both looks agree on is not moved by a look that only finds faults.
LEMMA LookingBackKeeps ==
  ASSUME NEW r, NEW now, NEW all, Preparing(r, now, all), r.at \in Late,
         NEW s \in Readings, s.at \in Late, s.mode = r.mode, s.first = r.first,
         s.paths = r.paths, s.lockPaths = r.lockPaths,
         NEW rules, s.made = [r.made EXCEPT !.rules = @ \cup rules]
  PROVE  Preparing(s, now, all)
<1>1. r \in Readings  BY DEF Preparing
<1>2. r.made \in Preparations  BY <1>1 DEF Readings
<1>3. /\ s.made.archive = r.made.archive /\ s.made.tasks = r.made.tasks
      /\ s.made.conflicts = r.made.conflicts
      /\ s.made.rules = {} => r.made.rules = {}
  BY <1>2 DEF Preparations
<1>4. /\ r.at \notin {"tickets", "ticket", "claim", "locks", "lock"}
      /\ s.at \notin {"tickets", "ticket", "claim", "locks", "lock"}
  BY DEF Late
<1>5. \A p : Unmade(r, p) = Unmade(s, p)  BY <1>4 DEF Unmade
<1>6. \A p : TicketSeen(r, p) = TicketSeen(s, p)  BY <1>3, <1>4 DEF TicketSeen
<1>7. \A i : LockSeen(r, i) = LockSeen(s, i)  BY <1>3 DEF LockSeen
<1>8. InOrder(s)  BY <1>3, <1>4, <1>5 DEF Preparing, InOrder
<1>9. TasksMade(r) => TasksMade(s)  BY <1>3, <1>5 DEF TasksMade
<1>10. ClaimsRead(r) => ClaimsRead(s)  BY <1>3, <1>5 DEF ClaimsRead
<1>11. WasThere(r, all) => WasThere(s, all)  BY <1>3, <1>6, <1>7 DEF WasThere
<1>12. FirstWasThere(r, all) => FirstWasThere(s, all)  BY DEF FirstWasThere
<1>13. ConflictsSeen(r, now) => ConflictsSeen(s, now)  BY <1>3 DEF ConflictsSeen
<1>14. AtOneMoment(r, now, all) => AtOneMoment(s, now, all)
  BY <1>3, <1>6, <1>7 DEF AtOneMoment
<1> QED
  BY <1>3, <1>8, <1>9, <1>10, <1>11, <1>12, <1>13, <1>14 DEF Preparing

LEMMA FoundIs ==
  ASSUME NEW r \in Readings, NEW rules \in SUBSET ImportRules
  PROVE  LET s == Found(r, rules) IN
         /\ s \in Readings
         /\ s.mode = r.mode /\ s.at = r.at /\ s.first = r.first /\ s.paths = r.paths
         /\ s.lockPaths = r.lockPaths /\ s.left = r.left /\ s.locksLeft = r.locksLeft
         /\ s.made = [r.made EXCEPT !.rules = @ \cup rules]
<1> DEFINE made == [r.made EXCEPT !.rules = @ \cup rules]
<1>1. made \in Preparations  BY DEF Readings, Preparations
<1>2. Found(r, rules) = [r EXCEPT !.made = made]  BY DEF Found, Readings
<1> HIDE DEF made
<1>3. /\ Found(r, rules) \in Readings
      /\ Found(r, rules).mode = r.mode /\ Found(r, rules).at = r.at
      /\ Found(r, rules).first = r.first /\ Found(r, rules).paths = r.paths
      /\ Found(r, rules).lockPaths = r.lockPaths /\ Found(r, rules).left = r.left
      /\ Found(r, rules).locksLeft = r.locksLeft /\ Found(r, rules).made = made
  BY <1>1, <1>2 DEF Readings
<1> QED  BY <1>3 DEF made

LEMMA SamePathsKeeps ==
  ASSUME ImportInv, SamePaths
  PROVE  ImportInv'
<1> DEFINE rules == Rule("source-path-set-changed", There(disk.tickets) # reading.paths)
           s == [Found(reading, rules) EXCEPT !.at = "same locks"]
<1>1. /\ reading.at = "same paths" /\ Look(s)
      /\ Preparing(reading, disk, moments) /\ reading \in Readings
      /\ reading.mode \in {"report", "import", "verify"}
  BY UnderWay DEF SamePaths, Preparing
<1>2. rules \in SUBSET ImportRules  BY DEF Rule, ImportRules
<1> HIDE DEF rules
<1>3. /\ s \in Readings /\ s.at = "same locks" /\ s.mode = reading.mode
      /\ s.first = reading.first /\ s.paths = reading.paths
      /\ s.lockPaths = reading.lockPaths
      /\ s.made = [reading.made EXCEPT !.rules = @ \cup rules]
  BY <1>1, <1>2, FoundIs DEF Readings, Late
<1> HIDE DEF s
<1>4. Preparing(s, disk, moments)  BY <1>1, <1>3, LookingBackKeeps DEF Late
<1> QED  BY <1>1, <1>3, <1>4, LookKeeps

LEMMA SameLocksKeeps ==
  ASSUME ImportInv, SameLocks
  PROVE  ImportInv'
<1> DEFINE rules == Rule("source-claim-set-changed", There(disk.locks) # reading.lockPaths)
           read == [Found(reading, rules)
                      EXCEPT !.left = There(reading.made.archive.tickets),
                             !.locksLeft = There(reading.made.archive.locks)]
           s == Onward(read, read.left, "same ticket",
                       IF read.locksLeft = {} THEN "prepared" ELSE "same lock")
<1>1. /\ reading.at = "same locks" /\ Look(s)
      /\ Preparing(reading, disk, moments) /\ reading \in Readings
      /\ reading.mode \in {"report", "import", "verify"}
  BY UnderWay DEF SameLocks, Preparing
<1>2. rules \in SUBSET ImportRules  BY DEF Rule, ImportRules
<1> HIDE DEF rules
<1>3. /\ There(reading.made.archive.tickets) \in SUBSET TicketPaths
      /\ There(reading.made.archive.locks) \in SUBSET Ids
  BY <1>1 DEF There, Readings, Preparations, QueueFiles
<1>4. /\ read \in Readings /\ read.mode = reading.mode
      /\ read.first = reading.first /\ read.paths = reading.paths
      /\ read.lockPaths = reading.lockPaths
      /\ read.made = [reading.made EXCEPT !.rules = @ \cup rules]
  BY <1>1, <1>2, <1>3, FoundIs DEF Readings
<1> HIDE DEF read
<1>5. /\ s \in Readings /\ s.at \in Late /\ s.mode = read.mode
      /\ s.first = read.first /\ s.paths = read.paths
      /\ s.lockPaths = read.lockPaths /\ s.made = read.made
  BY <1>4 DEF Onward, Readings, Late
<1> HIDE DEF s
<1>6. Preparing(s, disk, moments)
  BY <1>1, <1>4, <1>5, LookingBackKeeps, ZenonT(40) DEF Late
<1> QED  BY <1>1, <1>4, <1>5, <1>6, LookKeeps

LEMMA SameTicketKeeps ==
  ASSUME ImportInv, SameTicket
  PROVE  ImportInv'
<1> DEFINE p == Lowest(reading.left)
           rules == Rule("source-changed-during-import",
                         disk.tickets[p] # reading.made.archive.tickets[p])
           read == [Found(reading, rules) EXCEPT !.left = @ \ {p}]
           s == Onward(read, read.left, "same ticket",
                       IF read.locksLeft = {} THEN "prepared" ELSE "same lock")
<1>1. /\ reading.at = "same ticket" /\ Look(s)
      /\ Preparing(reading, disk, moments) /\ reading \in Readings
      /\ reading.mode \in {"report", "import", "verify"}
  BY UnderWay DEF SameTicket, Preparing
<1>2. rules \in SUBSET ImportRules  BY DEF Rule, ImportRules
<1> HIDE DEF rules, p
<1>3. /\ read \in Readings /\ read.mode = reading.mode
      /\ read.first = reading.first /\ read.paths = reading.paths
      /\ read.lockPaths = reading.lockPaths
      /\ read.made = [reading.made EXCEPT !.rules = @ \cup rules]
  BY <1>1, <1>2, FoundIs DEF Readings
<1> HIDE DEF read
<1>4. /\ s \in Readings /\ s.at \in Late /\ s.mode = read.mode
      /\ s.first = read.first /\ s.paths = read.paths
      /\ s.lockPaths = read.lockPaths /\ s.made = read.made
  BY <1>3 DEF Onward, Readings, Late
<1> HIDE DEF s
<1>5. Preparing(s, disk, moments)
  BY <1>1, <1>3, <1>4, LookingBackKeeps, ZenonT(40) DEF Late
<1> QED  BY <1>1, <1>3, <1>4, <1>5, LookKeeps

LEMMA SameLockKeeps ==
  ASSUME ImportInv, SameLock
  PROVE  ImportInv'
<1> DEFINE rules(i) == Rule("source-changed-during-import",
                            disk.locks[i] # reading.made.archive.locks[i])
           read(i) == [Found(reading, rules(i)) EXCEPT !.locksLeft = @ \ {i}]
           s(i) == Onward(read(i), read(i).locksLeft, "same lock", "prepared")
<1>1. /\ reading.at = "same lock"
      /\ Preparing(reading, disk, moments) /\ reading \in Readings
      /\ reading.mode \in {"report", "import", "verify"}
  BY UnderWay DEF SameLock, Preparing
<1>2. PICK i \in reading.locksLeft : Look(s(i))  BY DEF SameLock
<1>3. rules(i) \in SUBSET ImportRules  BY DEF Rule, ImportRules
<1> HIDE DEF rules
<1>4. /\ read(i) \in Readings /\ read(i).mode = reading.mode
      /\ read(i).first = reading.first /\ read(i).paths = reading.paths
      /\ read(i).lockPaths = reading.lockPaths
      /\ read(i).made = [reading.made EXCEPT !.rules = @ \cup rules(i)]
  BY <1>1, <1>3, FoundIs DEF Readings
<1> HIDE DEF read
<1>5. /\ s(i) \in Readings /\ s(i).at \in Late /\ s(i).mode = read(i).mode
      /\ s(i).first = read(i).first /\ s(i).paths = read(i).paths
      /\ s(i).lockPaths = read(i).lockPaths /\ s(i).made = read(i).made
  BY <1>4 DEF Onward, Readings, Late
<1> HIDE DEF s
<1>6. Preparing(s(i), disk, moments)
  BY <1>1, <1>4, <1>5, LookingBackKeeps, ZenonT(40) DEF Late
<1> QED  BY <1>1, <1>2, <1>4, <1>5, <1>6, LookKeeps

LEMMA ArchivedIs ==
  ASSUME NEW r \in Readings, NEW i \in Ids, NEW file \in LegacyClaims \cup {NoFile}
  PROVE  LET s == addArchiveEntry(r, i, file) IN
         /\ s \in Readings
         /\ s.mode = r.mode /\ s.at = r.at /\ s.first = r.first /\ s.paths = r.paths
         /\ s.lockPaths = r.lockPaths /\ s.left = r.left /\ s.locksLeft = r.locksLeft
         /\ s.made.tasks = r.made.tasks /\ s.made.conflicts = r.made.conflicts
         /\ s.made.rules = r.made.rules
         /\ s.made.archive.tickets = r.made.archive.tickets
         /\ file # NoFile => s.made.archive.locks[i] = file
         /\ \A j \in Ids : j # i \/ file = NoFile =>
              s.made.archive.locks[j] = r.made.archive.locks[j]
<1>1. CASE file = NoFile  BY <1>1 DEF addArchiveEntry
<1>2. CASE file # NoFile
  <2> DEFINE locks == [r.made.archive.locks EXCEPT ![i] = file]
             filed == [r.made.archive EXCEPT !.locks = locks]
             made == [r.made EXCEPT !.archive = filed]
  <2>1. r.made \in Preparations /\ r.made.archive \in QueueFiles
    BY DEF Readings, Preparations
  <2>2. /\ locks \in [Ids -> LegacyClaims \cup {NoFile}]
        /\ \A j \in Ids : locks[j] = IF j = i THEN file ELSE r.made.archive.locks[j]
    BY <2>1 DEF QueueFiles
  <2>3. addArchiveEntry(r, i, file) = [r EXCEPT !.made = made]
    BY <1>2, <2>1 DEF addArchiveEntry, Readings, Preparations, QueueFiles
  <2> HIDE DEF locks
  <2>4. /\ filed \in QueueFiles /\ filed.locks = locks
        /\ filed.tickets = r.made.archive.tickets
    BY <2>1, <2>2 DEF QueueFiles
  <2> HIDE DEF filed
  <2>5. /\ made \in Preparations /\ made.archive = filed /\ made.tasks = r.made.tasks
        /\ made.conflicts = r.made.conflicts /\ made.rules = r.made.rules
    BY <2>1, <2>4 DEF Preparations
  <2> HIDE DEF made
  <2>6. [r EXCEPT !.made = made] \in Readings  BY <2>5 DEF Readings
  <2> QED  BY <1>2, <2>2, <2>3, <2>4, <2>5, <2>6 DEF Readings
<1> QED  BY <1>1, <1>2

LEMMA discoverTicketFilesKeeps ==
  ASSUME ImportInv, discoverTicketFiles
  PROVE  ImportInv'
<1> DEFINE found == There(disk.tickets)
           read == [reading EXCEPT !.paths = found, !.left = found]
           s == Onward(read, found, "ticket", "locks")
<1>1. /\ reading.at = "tickets" /\ Look(s)
      /\ Preparing(reading, disk, moments) /\ reading \in Readings
      /\ reading.mode \in {"report", "import", "verify"}
      /\ disk \in QueueFiles /\ disk \in moments
  BY UnderWay DEF discoverTicketFiles, Preparing
<1>2. /\ found \in SUBSET TicketPaths
      /\ \A p \in TicketPaths : p \in found <=> disk.tickets[p] # NoFile
  BY <1>1 DEF There, QueueFiles
<1> HIDE DEF found
<1>3. /\ s \in Readings /\ s.mode = reading.mode /\ s.first = reading.first
      /\ s.at = IF found = {} THEN "locks" ELSE "ticket"
      /\ s.made = reading.made /\ s.paths = found /\ s.left = found
  BY <1>1, <1>2 DEF Onward, Readings
<1> HIDE DEF s
<1>4. \A p \in TicketPaths : reading.made.archive.tickets[p] = NoFile
  BY <1>1 DEF Preparing, InOrder
<1>5. InOrder(s)  BY <1>3, <1>4 DEF InOrder, Unmade, Late
<1>6. TasksMade(reading) => TasksMade(s) /\ reading.made.tasks = {}
  <2> HAVE TasksMade(reading)
  <2>1. reading.made.tasks = {}  BY <1>1 DEF TasksMade, Unmade
  <2> QED  BY <1>3, <1>4, <2>1 DEF TasksMade
<1>7. ClaimsRead(reading) => ClaimsRead(s)
  BY <1>1, <1>3, <1>4 DEF ClaimsRead, Readings, Preparations
<1>8. \A p \in TicketPaths :
        TicketSeen(s, p) => s.made.archive.tickets[p] = disk.tickets[p]
  BY <1>2, <1>3, <1>4 DEF TicketSeen
<1>9. \A i \in Ids : LockSeen(s, i) => LockSeen(reading, i)
  BY <1>3 DEF LockSeen, Late
<1>10. WasThere(reading, moments) => WasThere(s, moments)
  BY <1>1, <1>3, <1>8, <1>9 DEF WasThere
<1>11. FirstWasThere(reading, moments) => FirstWasThere(s, moments)
  BY <1>3 DEF FirstWasThere
<1>12. AtOneMoment(reading, disk, moments) => AtOneMoment(s, disk, moments)
  BY <1>3, <1>8, <1>9 DEF AtOneMoment
<1>13. reading.made.tasks = {} => ConflictsSeen(s, disk)
  BY <1>3 DEF ConflictsSeen
<1>14. Preparing(s, disk, moments)
  BY <1>1, <1>3, <1>5, <1>6, <1>7, <1>10, <1>11, <1>12, <1>13 DEF Preparing
<1> QED  BY <1>1, <1>3, <1>14, LookKeeps

LEMMA discoverClaimLockFilesKeeps ==
  ASSUME ImportInv, discoverClaimLockFiles
  PROVE  ImportInv'
<1> DEFINE found == There(disk.locks)
           read == [reading EXCEPT !.lockPaths = found, !.locksLeft = found]
           s == Onward(read, found, "lock", "same paths")
<1>1. /\ reading.at = "locks" /\ Look(s)
      /\ Preparing(reading, disk, moments) /\ reading \in Readings
      /\ reading.mode \in {"report", "import", "verify"}
      /\ disk \in QueueFiles /\ disk \in moments
  BY UnderWay DEF discoverClaimLockFiles, Preparing
<1>2. /\ found \in SUBSET Ids
      /\ \A i \in Ids : i \in found <=> disk.locks[i] # NoFile
  BY <1>1 DEF There, QueueFiles
<1> HIDE DEF found
<1>3. /\ s \in Readings /\ s.mode = reading.mode /\ s.first = reading.first
      /\ s.at = IF found = {} THEN "same paths" ELSE "lock"
      /\ s.made = reading.made /\ s.paths = reading.paths
      /\ s.lockPaths = found /\ s.locksLeft = found
  BY <1>1, <1>2 DEF Onward, Readings, Late
<1> HIDE DEF s
<1>4. \A p : ~Unmade(reading, p) /\ ~Unmade(s, p)  BY <1>1, <1>3 DEF Unmade
<1>5. InOrder(s)
  <2>1. InOrder(reading)  BY <1>1 DEF Preparing
  <2>2. s.at \notin {"tickets", "ticket", "claim"} /\ reading.at # "tickets"
    BY <1>1, <1>3
  <2>3. \A p \in TicketPaths : s.made.archive.tickets[p] # NoFile <=> p \in s.paths
    BY <1>1, <1>3, <1>4, <2>1, <2>2 DEF InOrder
  <2>4. \A i \in s.lockPaths : s.at = "lock" /\ i \in s.locksLeft  BY <1>3
  <2> QED  BY <1>4, <2>2, <2>3, <2>4 DEF InOrder, Late
<1>6. TasksMade(reading) => TasksMade(s)  BY <1>3, <1>4 DEF TasksMade
<1>7. ClaimsRead(reading) => ClaimsRead(s)  BY <1>3, <1>4 DEF ClaimsRead
<1>8. \A p \in TicketPaths : TicketSeen(s, p) => TicketSeen(reading, p)
  BY <1>1, <1>3 DEF TicketSeen
<1>9. \A i \in Ids : LockSeen(s, i) =>
        LockSeen(reading, i) \/ s.made.archive.locks[i] = disk.locks[i]
  BY <1>2, <1>3 DEF LockSeen
<1>10. WasThere(reading, moments) => WasThere(s, moments)
  <2> HAVE WasThere(reading, moments)
  <2>1. \A p \in TicketPaths : TicketSeen(s, p) =>
          \E once \in moments : once.tickets[p] = s.made.archive.tickets[p]
    BY <1>3, <1>8 DEF WasThere
  <2>2. ASSUME NEW i \in Ids, LockSeen(s, i)
        PROVE  \E once \in moments : once.locks[i] = s.made.archive.locks[i]
    <3>1. CASE LockSeen(reading, i)  BY <1>3, <3>1 DEF WasThere
    <3>2. CASE s.made.archive.locks[i] = disk.locks[i]  BY <1>1, <3>2
    <3> QED  BY <1>9, <2>2, <3>1, <3>2
  <2> QED  BY <2>1, <2>2 DEF WasThere
<1>11. FirstWasThere(reading, moments) => FirstWasThere(s, moments)
  BY <1>3 DEF FirstWasThere
<1>12. AtOneMoment(reading, disk, moments) => AtOneMoment(s, disk, moments)
  <2> HAVE AtOneMoment(reading, disk, moments)
  <2>1. s.first = reading.first /\ s.made = reading.made  BY <1>3
  <2>2. \A i \in Ids :
          \/ disk.locks[i] = s.first.archive.locks[i]
          \/ LockSeen(s, i) /\ s.made.archive.locks[i] = s.first.archive.locks[i]
          => \/ disk.locks[i] = reading.first.archive.locks[i]
             \/ /\ LockSeen(reading, i)
                /\ reading.made.archive.locks[i] = reading.first.archive.locks[i]
    BY <1>9, <2>1
  <2> QED  BY <1>8, <2>1, <2>2 DEF AtOneMoment
<1>13. ConflictsSeen(reading, disk) => ConflictsSeen(s, disk)
  BY <1>3 DEF ConflictsSeen
<1>14. Preparing(s, disk, moments)
  BY <1>1, <1>3, <1>5, <1>6, <1>7, <1>10, <1>11, <1>12, <1>13 DEF Preparing
<1> QED  BY <1>1, <1>3, <1>14, LookKeeps

LEMMA ReadLockKeeps ==
  ASSUME ImportInv, ReadLock
  PROVE  ImportInv'
<1> DEFINE asRead == reading.made.archive.tickets
           orphan(i) == \A p \in There(asRead) : asRead[p].id # i
           rules(i) == Rule("orphan-claim-lock", orphan(i))
           filed(i) == addArchiveEntry(Found(reading, rules(i)), i, disk.locks[i])
           read(i) == [filed(i) EXCEPT !.locksLeft = @ \ {i}]
           s(i) == Onward(read(i), read(i).locksLeft, "lock", "same paths")
<1>1. /\ reading.at = "lock"
      /\ Preparing(reading, disk, moments) /\ reading \in Readings
      /\ reading.mode \in {"report", "import", "verify"}
      /\ disk \in QueueFiles /\ disk \in moments
  BY UnderWay DEF ReadLock, Preparing
<1>2. PICK i \in reading.locksLeft :
        Look(IF disk.locks[i] = NoFile \/ Changed(reading, i, disk.locks[i])
             THEN Thrown ELSE s(i))
  BY DEF ReadLock
<1>3. i \in Ids /\ disk.locks[i] \in LegacyClaims \cup {NoFile}
  BY <1>1 DEF Readings, QueueFiles
<1>4. CASE disk.locks[i] = NoFile \/ Changed(reading, i, disk.locks[i])
  BY <1>2, <1>4, LookKeeps
<1>5. CASE ~(disk.locks[i] = NoFile \/ Changed(reading, i, disk.locks[i]))
  <2>1. rules(i) \in SUBSET ImportRules /\ (rules(i) = {} => ~orphan(i))  BY DEF Rule, ImportRules
  <2>2. /\ disk.locks[i] # NoFile
        /\ reading.made.archive.locks[i] \in {NoFile, disk.locks[i]}
    BY <1>5 DEF Changed
  <2> HIDE DEF rules
  <2>3. /\ Found(reading, rules(i)) \in Readings
        /\ Found(reading, rules(i)).made
             = [reading.made EXCEPT !.rules = @ \cup rules(i)]
        /\ Found(reading, rules(i)) = [reading EXCEPT !.made = Found(reading, rules(i)).made]
    BY <1>1, <2>1, FoundIs DEF Readings
  <2>4. /\ filed(i) \in Readings
        /\ filed(i).mode = reading.mode /\ filed(i).first = reading.first
        /\ filed(i).paths = reading.paths /\ filed(i).lockPaths = reading.lockPaths
        /\ filed(i).locksLeft = reading.locksLeft
        /\ filed(i).made.tasks = reading.made.tasks
        /\ filed(i).made.conflicts = reading.made.conflicts
        /\ filed(i).made.rules = reading.made.rules \cup rules(i)
        /\ filed(i).made.archive.tickets = asRead
        /\ \A j \in Ids : filed(i).made.archive.locks[j] =
             IF j = i THEN disk.locks[i] ELSE reading.made.archive.locks[j]
    BY <1>1, <1>3, <2>2, <2>3, ArchivedIs DEF Readings, Preparations
  <2> HIDE DEF filed
  <2>5. /\ s(i) \in Readings /\ s(i).mode = reading.mode
        /\ s(i).first = reading.first /\ s(i).paths = reading.paths
        /\ s(i).lockPaths = reading.lockPaths
        /\ s(i).locksLeft = reading.locksLeft \ {i}
        /\ s(i).at = IF reading.locksLeft \ {i} = {} THEN "same paths" ELSE "lock"
        /\ s(i).made = filed(i).made
    BY <2>4 DEF Onward, Readings, Late
  <2> DEFINE new == s(i)
             lock == disk.locks[i]
  <2>6. /\ new.made.tasks = reading.made.tasks
        /\ new.made.conflicts = reading.made.conflicts
        /\ new.made.rules = reading.made.rules \cup rules(i)
        /\ new.made.archive.tickets = asRead
        /\ \A j \in Ids : new.made.archive.locks[j] =
             IF j = i THEN lock ELSE reading.made.archive.locks[j]
    BY <2>4, <2>5
  <2> HIDE DEF s, new
  <2>7. new = s(i)  BY DEF new
  <2>8. \A p : ~Unmade(reading, p) /\ ~Unmade(new, p)
    BY <1>1, <2>5, <2>7 DEF Unmade
  <2>9. InOrder(new)
    <3>1. InOrder(reading)  BY <1>1 DEF Preparing
    <3>2. new.at \in {"same paths", "lock"} /\ new.paths = reading.paths
      BY <2>5, <2>7
    <3>3. \A p \in TicketPaths : new.made.archive.tickets[p] # NoFile <=>
            /\ new.at # "tickets" /\ p \in new.paths
            /\ ~Unmade(new, p) \/ (new.at = "claim" /\ p = Lowest(new.left))
      BY <1>1, <2>6, <2>8, <3>1, <3>2 DEF InOrder
    <3>4. ASSUME NEW j \in Ids, j \in new.lockPaths,
                 new.at \in Late \/ (new.at = "lock" /\ j \notin new.locksLeft)
          PROVE  new.made.archive.locks[j] # NoFile
      <4>1. j = i \/ j \notin reading.locksLeft
        BY <2>5, <2>7, <3>4 DEF Late
      <4>2. j \in reading.lockPaths  BY <2>5, <2>7, <3>4
      <4> QED  BY <1>1, <2>2, <2>6, <3>1, <4>1, <4>2 DEF InOrder
    <3> QED  BY <3>2, <3>3, <3>4 DEF InOrder
  <2>10. TasksMade(reading) => TasksMade(new)  BY <2>6, <2>8 DEF TasksMade
  <2>11. ASSUME new.made.rules = {}, TasksMade(reading), ClaimsRead(reading)
         PROVE  ClaimsRead(new)
    <3>1. ~orphan(i)  BY <2>1, <2>6, <2>11
    <3>2. PICK p \in There(asRead) : asRead[p].id = i  BY <3>1
    <3>3. p \in TicketPaths /\ asRead[p] # NoFile
      BY <1>1, <3>2 DEF There, Readings, Preparations, QueueFiles
    <3>4. Task(p, asRead[p]) \in reading.made.tasks
      BY <2>8, <2>11, <3>3 DEF TasksMade
    <3>5. \E task \in reading.made.tasks : task.id = i  BY <3>2, <3>4 DEF Task
    <3>6. \A c \in reading.made.conflicts :
            /\ c.id \in Ids
            /\ reading.made.archive.locks[c.id] # NoFile
            /\ new.made.archive.locks[c.id] = reading.made.archive.locks[c.id]
      BY <1>1, <2>2, <2>6, <2>11 DEF ClaimsRead, Readings, Preparations
    <3> QED  BY <2>6, <2>8, <2>11, <3>5, <3>6 DEF ClaimsRead
  <2>12. \A p \in TicketPaths : TicketSeen(new, p) => TicketSeen(reading, p)
    BY <1>1, <2>5, <2>6, <2>7 DEF TicketSeen
  <2>13. \A j \in Ids : LockSeen(new, j) =>
           \/ LockSeen(reading, j)
                /\ new.made.archive.locks[j] = reading.made.archive.locks[j]
           \/ new.made.archive.locks[j] = disk.locks[j]
    BY <1>1, <2>5, <2>6, <2>7 DEF LockSeen, Late
  <2>14. WasThere(reading, moments) => WasThere(new, moments)
    BY <1>1, <2>6, <2>12, <2>13 DEF WasThere
  <2>15. FirstWasThere(reading, moments) => FirstWasThere(new, moments)
    BY <2>5, <2>7 DEF FirstWasThere
  <2>16. AtOneMoment(reading, disk, moments) => AtOneMoment(new, disk, moments)
    <3>1. new.first = reading.first  BY <2>5, <2>7
    <3> QED  BY <2>6, <2>12, <2>13, <3>1 DEF AtOneMoment
  <2>17. ConflictsSeen(reading, disk) => ConflictsSeen(new, disk)
    <3>1. new.first = reading.first  BY <2>5, <2>7
    <3>2. \A task \in reading.made.tasks : task.id \in Ids
      BY <1>1 DEF Readings, Preparations
    <3>3. \A j \in Ids : \A was :
            disk.locks[j] # was /\ reading.made.archive.locks[j] # was
              => new.made.archive.locks[j] # was
      BY <2>6
    <3> QED  BY <2>6, <3>1, <3>2, <3>3 DEF ConflictsSeen
  <2>18. new.made.rules = {} => reading.made.rules = {}  BY <2>6
  <2>19. new \in Readings /\ new.mode = reading.mode  BY <2>5, <2>7
  <2>20. Preparing(new, disk, moments)
    BY <1>1, <2>9, <2>10, <2>11, <2>14, <2>15, <2>16, <2>17, <2>18, <2>19
       DEF Preparing
  <2> QED  BY <1>1, <1>2, <1>5, <2>7, <2>19, <2>20, LookKeeps
<1> QED  BY <1>4, <1>5

LEMMA ReadTicketKeeps ==
  ASSUME ImportInv, ReadTicket
  PROVE  ImportInv'
<1> DEFINE p == Lowest(reading.left)
           s == [reading EXCEPT !.made.archive.tickets[p] = disk.tickets[p],
                                !.at = "claim"]
<1>1. /\ reading.at = "ticket"
      /\ Look(IF disk.tickets[p] = NoFile THEN Thrown ELSE s)
      /\ Preparing(reading, disk, moments) /\ reading \in Readings
      /\ reading.mode \in {"report", "import", "verify"}
      /\ disk \in QueueFiles /\ disk \in moments /\ InOrder(reading)
  BY UnderWay DEF ReadTicket, Preparing
<1>2. p \in reading.left /\ p \in TicketPaths /\ p \in reading.paths
  BY <1>1, LowestIsOne DEF InOrder, Readings
<1>3. CASE disk.tickets[p] = NoFile  BY <1>1, <1>3, LookKeeps
<1>4. CASE disk.tickets[p] # NoFile
  <2> DEFINE asRead == reading.made.archive.tickets
             contents == [asRead EXCEPT ![p] = disk.tickets[p]]
             filed == [reading.made.archive EXCEPT !.tickets = contents]
             made == [reading.made EXCEPT !.archive = filed]
  <2>1. reading.made \in Preparations /\ reading.made.archive \in QueueFiles
    BY <1>1 DEF Readings, Preparations
  <2>2. /\ contents \in [TicketPaths -> LegacyTickets \cup {NoFile}]
        /\ \A q \in TicketPaths :
             contents[q] = IF q = p THEN disk.tickets[p] ELSE asRead[q]
    BY <1>1, <1>2, <2>1 DEF QueueFiles
  <2>3. s = [reading EXCEPT !.made = made, !.at = "claim"]
    BY <2>1 DEF QueueFiles, Preparations
  <2> HIDE DEF contents
  <2>4. /\ filed \in QueueFiles /\ filed.tickets = contents
        /\ filed.locks = reading.made.archive.locks
    BY <2>1, <2>2 DEF QueueFiles
  <2> HIDE DEF filed
  <2>5. /\ made \in Preparations /\ made.archive = filed
        /\ made.tasks = reading.made.tasks /\ made.rules = reading.made.rules
        /\ made.conflicts = reading.made.conflicts
    BY <2>1, <2>4 DEF Preparations
  <2> HIDE DEF made
  <2>6. /\ s \in Readings /\ s.mode = reading.mode /\ s.first = reading.first
        /\ s.paths = reading.paths /\ s.left = reading.left
        /\ s.lockPaths = reading.lockPaths /\ s.at = "claim" /\ s.made = made
    BY <1>1, <2>3, <2>5 DEF Readings
  <2>7. /\ s.made.tasks = reading.made.tasks /\ s.made.rules = reading.made.rules
        /\ s.made.conflicts = reading.made.conflicts
        /\ s.made.archive.locks = reading.made.archive.locks
        /\ \A q \in TicketPaths :
             s.made.archive.tickets[q] = IF q = p THEN disk.tickets[p] ELSE asRead[q]
    BY <2>2, <2>4, <2>5, <2>6
  <2> HIDE DEF s
  <2>8. \A q \in TicketPaths : Unmade(reading, q) = Unmade(s, q)
    BY <1>1, <2>6 DEF Unmade
  <2>9. Unmade(s, p)  BY <1>2, <2>6 DEF Unmade
  <2>10. Lowest(s.left) = p  BY <2>6
  <2>11. \A q \in TicketPaths : asRead[q] # NoFile <=>
            q \in reading.paths /\ ~Unmade(reading, q)
    BY <1>1 DEF InOrder
  <2> HIDE DEF p
  <2>12. InOrder(s)
    <3>1. /\ s.left # {} /\ s.left \subseteq s.paths
      BY <1>1, <2>6 DEF InOrder
    <3>2. \A q \in TicketPaths : s.made.archive.tickets[q] # NoFile <=>
            q \in s.paths /\ (~Unmade(s, q) \/ q = p)
      BY <1>2, <1>4, <2>6, <2>7, <2>8, <2>11
    <3> QED  BY <2>6, <2>10, <3>1, <3>2 DEF InOrder, Late
  <2>13. TasksMade(reading) => TasksMade(s) /\ \A task \in reading.made.tasks : task.path # p
    <3> HAVE TasksMade(reading)
    <3>1. \A task \in reading.made.tasks : task.path \in TicketPaths
      BY <2>1 DEF Preparations
    <3>2. \A task \in reading.made.tasks : task.path # p
      BY <2>8, <2>9, <3>1, <1>2 DEF TasksMade
    <3> QED  BY <2>7, <2>8, <2>9, <3>1, <3>2 DEF TasksMade
  <2>14. ClaimsRead(reading) => ClaimsRead(s)
    <3> HAVE ClaimsRead(reading)
    <3>1. \A c \in reading.made.conflicts : c.path \in TicketPaths
      BY <2>1 DEF Preparations
    <3>2. \A c \in reading.made.conflicts : c.path # p
      BY <1>2, <2>8, <2>9, <3>1 DEF ClaimsRead
    <3> QED  BY <2>7, <2>8, <3>1, <3>2 DEF ClaimsRead
  <2>15. \A q \in TicketPaths : TicketSeen(s, q) =>
           \/ TicketSeen(reading, q) /\ s.made.archive.tickets[q] = asRead[q]
           \/ s.made.archive.tickets[q] = disk.tickets[q]
    BY <1>1, <2>6, <2>7 DEF TicketSeen
  <2>16. \A i \in Ids : LockSeen(s, i) => LockSeen(reading, i)
    BY <2>6, <2>7 DEF LockSeen, Late
  <2>17. WasThere(reading, moments) => WasThere(s, moments)
    BY <1>1, <2>7, <2>15, <2>16 DEF WasThere
  <2>18. FirstWasThere(reading, moments) => FirstWasThere(s, moments)
    BY <2>6 DEF FirstWasThere
  <2>19. AtOneMoment(reading, disk, moments) => AtOneMoment(s, disk, moments)
    BY <2>6, <2>7, <2>15, <2>16 DEF AtOneMoment
  <2>20. ConflictsSeen(reading, disk) /\ (\A task \in reading.made.tasks : task.path # p)
           => ConflictsSeen(s, disk)
    <3>1. \A task \in reading.made.tasks : task.path \in TicketPaths
      BY <2>1 DEF Preparations
    <3> QED  BY <2>6, <2>7, <3>1 DEF ConflictsSeen
  <2>21. Preparing(s, disk, moments)
    BY <1>1, <2>6, <2>7, <2>12, <2>13, <2>14, <2>17, <2>18, <2>19, <2>20 DEF Preparing
  <2> QED  BY <1>1, <1>4, <2>6, <2>21, LookKeeps
<1> QED  BY <1>3, <1>4

LEMMA ReadClaimKeeps ==
  ASSUME ImportInv, ReadClaim
  PROVE  ImportInv'
<1> DEFINE p == Lowest(reading.left)
           asRead == reading.made.archive.tickets
           text == asRead[p]
           held == disk.locks[text.id]
           both == combineClaim(text.claim, held)
           known == \E task \in reading.made.tasks : task.id = text.id
           rules == Rule("claim-conflict", both.conflict)
                      \cup Rule("duplicate-ticket-id", known)
                      \cup Rule("claimed-without-owner",
                                /\ text.status = "claimed"
                                /\ text.claim = NoFile \/ both.conflict)
           filed == addArchiveEntry(Found(reading, rules), text.id, held)
           more == IF both.ambiguous THEN {Conflict(p, text, held)} ELSE {}
           read == [filed EXCEPT
                      !.made.tasks = IF known THEN @ ELSE @ \cup {Task(p, text)},
                      !.made.conflicts = @ \cup more,
                      !.left = @ \ {p}]
           s == Onward(read, read.left, "ticket", "locks")
<1>1. /\ reading.at = "claim"
      /\ Look(IF Changed(reading, text.id, held) THEN Thrown ELSE s)
      /\ Preparing(reading, disk, moments) /\ reading \in Readings
      /\ reading.mode \in {"report", "import", "verify"}
      /\ disk \in QueueFiles /\ disk \in moments /\ InOrder(reading)
  BY UnderWay DEF ReadClaim, Preparing
<1>2. p \in reading.left /\ p \in TicketPaths /\ p \in reading.paths
  BY <1>1, LowestIsOne DEF InOrder, Readings
<1>3. reading.made \in Preparations /\ reading.made.archive \in QueueFiles
  BY <1>1 DEF Readings, Preparations
<1>4. \A q \in TicketPaths : asRead[q] # NoFile <=>
         q \in reading.paths /\ (q \notin reading.left \/ q = p)
  BY <1>1 DEF InOrder, Unmade
<1>5. text \in LegacyTickets /\ text # NoFile
  BY <1>2, <1>3, <1>4 DEF QueueFiles
<1>6. /\ text.id \in Ids /\ held \in LegacyClaims \cup {NoFile}
      /\ text.claim \in LegacyClaims \cup {NoFile} /\ text.status \in STRING
  BY <1>1, <1>5 DEF LegacyTickets, QueueFiles
<1>7. CASE Changed(reading, text.id, held)  BY <1>1, <1>7, LookKeeps
<1>8. CASE ~Changed(reading, text.id, held)
  <2> DEFINE id == text.id
             tasks == IF known THEN reading.made.tasks
                               ELSE reading.made.tasks \cup {Task(p, text)}
             conflicts == reading.made.conflicts \cup more
             made == [filed.made EXCEPT !.tasks = tasks, !.conflicts = conflicts]
  <2>1. /\ rules \in SUBSET ImportRules
        /\ rules = {} => ~both.conflict /\ ~known
    <3>1. /\ Rule("claim-conflict", both.conflict) \in SUBSET ImportRules
          /\ Rule("claim-conflict", both.conflict) = {} => ~both.conflict
      BY DEF Rule, ImportRules
    <3>2. /\ Rule("duplicate-ticket-id", known) \in SUBSET ImportRules
          /\ Rule("duplicate-ticket-id", known) = {} => ~known
      BY DEF Rule, ImportRules
    <3>3. Rule("claimed-without-owner",
               /\ text.status = "claimed"
               /\ text.claim = NoFile \/ both.conflict) \in SUBSET ImportRules
      BY DEF Rule, ImportRules
    <3> QED  BY <3>1, <3>2, <3>3
  <2> HIDE DEF rules
  <2>2. held # NoFile => reading.made.archive.locks[id] \in {NoFile, held}
    BY <1>8 DEF Changed
  <2>3. both.ambiguous =>
          /\ ~both.conflict
          /\ text.claim # NoFile /\ held # NoFile
          /\ Conflict(p, text, held)
               \in [id : Ids, path : TicketPaths, ticket : Nat, lock : Nat]
    BY <1>2, <1>6 DEF combineClaim, Conflict, LegacyClaims
  <2> DEFINE read1 == Found(reading, rules)
  <2>4. /\ read1 \in Readings
        /\ read1.mode = reading.mode /\ read1.first = reading.first
        /\ read1.paths = reading.paths /\ read1.lockPaths = reading.lockPaths
        /\ read1.left = reading.left
        /\ read1.made = [reading.made EXCEPT !.rules = @ \cup rules]
    BY <1>1, <2>1, FoundIs
  <2>41. /\ read1.made.tasks = reading.made.tasks
         /\ read1.made.conflicts = reading.made.conflicts
         /\ read1.made.rules = reading.made.rules \cup rules
         /\ read1.made.archive = reading.made.archive
    BY <1>3, <2>4 DEF Preparations
  <2>42. filed = addArchiveEntry(read1, text.id, held)  OBVIOUS
  <2> HIDE DEF read1, filed
  <2>5. /\ filed \in Readings
        /\ filed.mode = reading.mode /\ filed.first = reading.first
        /\ filed.paths = reading.paths /\ filed.lockPaths = reading.lockPaths
        /\ filed.left = reading.left
        /\ filed.made.tasks = reading.made.tasks
        /\ filed.made.conflicts = reading.made.conflicts
        /\ filed.made.rules = reading.made.rules \cup rules
        /\ filed.made.archive.tickets = asRead
        /\ \A j \in Ids : filed.made.archive.locks[j] =
             IF j = id /\ held # NoFile THEN held ELSE reading.made.archive.locks[j]
    <3>1. id \in Ids /\ held \in LegacyClaims \cup {NoFile}  BY <1>6
    <3>2. filed = addArchiveEntry(read1, id, held)  BY <2>42
    <3>3. asRead = read1.made.archive.tickets  BY <2>41
    <3> HIDE DEF id, held, text, asRead
    <3>4. /\ filed \in Readings
          /\ filed.mode = read1.mode /\ filed.first = read1.first
          /\ filed.paths = read1.paths /\ filed.lockPaths = read1.lockPaths
          /\ filed.left = read1.left
      BY <2>4, <3>1, <3>2, ArchivedIs
    <3>5. /\ filed.made.tasks = read1.made.tasks
          /\ filed.made.conflicts = read1.made.conflicts
          /\ filed.made.rules = read1.made.rules
          /\ filed.made.archive.tickets = read1.made.archive.tickets
      BY <2>4, <3>1, <3>2, ArchivedIs
    <3>6. /\ held # NoFile => filed.made.archive.locks[id] = held
          /\ \A j \in Ids : j # id \/ held = NoFile =>
               filed.made.archive.locks[j] = read1.made.archive.locks[j]
      <4> DEFINE after == addArchiveEntry(read1, id, held)
      <4>1. read1 \in Readings  BY <2>4
      <4>2. held # NoFile => after.made.archive.locks[id] = held
        BY <3>1, <4>1, ArchivedIs
      <4>3. \A j \in Ids : j # id \/ held = NoFile =>
              after.made.archive.locks[j] = read1.made.archive.locks[j]
        BY <3>1, <4>1, ArchivedIs
      <4> HIDE DEF after
      <4>4. filed = after  BY <3>2 DEF after
      <4> QED  BY <4>2, <4>3, <4>4
    <3>7. \A j \in Ids : filed.made.archive.locks[j] =
            IF j = id /\ held # NoFile THEN held ELSE reading.made.archive.locks[j]
      <4>1. TAKE j \in Ids
      <4>2. CASE j = id /\ held # NoFile  BY <3>6, <4>2
      <4>3. CASE j # id \/ held = NoFile  BY <2>41, <3>6, <4>3
      <4> QED  BY <4>2, <4>3
    <3>8. filed.made.archive.tickets = asRead  BY <3>3, <3>5
    <3> QED  BY <2>4, <2>41, <3>4, <3>5, <3>7, <3>8
  <2>6. Task(p, text) \in [id : Ids, path : TicketPaths, status : STRING,
                           claim : LegacyClaims \cup {NoFile}]
    BY <1>2, <1>6 DEF Task
  <2> HIDE DEF known, both
  <2>7. /\ tasks \in SUBSET [id : Ids, path : TicketPaths, status : STRING,
                             claim : LegacyClaims \cup {NoFile}]
        /\ conflicts \in SUBSET [id : Ids, path : TicketPaths, ticket : Nat, lock : Nat]
    BY <1>3, <2>3, <2>6 DEF Preparations
  <2>8. read = [filed EXCEPT !.made = made, !.left = reading.left \ {p}]
    BY <2>5 DEF Readings, Preparations
  <2> HIDE DEF tasks, conflicts, read
  <2>9. /\ made \in Preparations /\ made.tasks = tasks /\ made.conflicts = conflicts
        /\ made.rules = filed.made.rules /\ made.archive = filed.made.archive
    BY <2>5, <2>7 DEF Readings, Preparations
  <2> HIDE DEF made
  <2>10. /\ read \in Readings /\ read.mode = reading.mode
         /\ read.first = reading.first /\ read.paths = reading.paths
         /\ read.lockPaths = reading.lockPaths
         /\ read.left = reading.left \ {p} /\ read.made = made
    <3>1. reading.left \ {p} \in SUBSET TicketPaths  BY <1>1 DEF Readings
    <3> HIDE DEF p
    <3> QED  BY <2>5, <2>8, <2>9, <3>1 DEF Readings
  <2>11. /\ s \in Readings /\ s.mode = reading.mode
         /\ s.first = reading.first /\ s.paths = reading.paths
         /\ s.lockPaths = reading.lockPaths /\ s.left = reading.left \ {p}
         /\ s.at = IF s.left = {} THEN "locks" ELSE "ticket"
         /\ s.made = made
    BY <2>10 DEF Onward, Readings
  <2>12. /\ s.made.tasks = tasks /\ s.made.conflicts = conflicts
         /\ s.made.rules = reading.made.rules \cup rules
         /\ s.made.archive.tickets = asRead
         /\ \A j \in Ids : s.made.archive.locks[j] =
              IF j = id /\ held # NoFile THEN held ELSE reading.made.archive.locks[j]
    BY <2>5, <2>9, <2>11
  <2> HIDE DEF s
  <2>13. \A q \in TicketPaths :
           /\ Unmade(reading, q) <=> q \in reading.left
           /\ Unmade(s, q) <=> q \in reading.left /\ q # p
    BY <1>1, <2>11 DEF Unmade
  <2>14. text = asRead[p]  OBVIOUS
  <2> HIDE DEF p, text, asRead, held, id
  <2>15. InOrder(s)
    <3>1. s.at \in {"ticket", "claim"} => s.left # {} /\ s.left \subseteq s.paths
      BY <1>1, <2>11 DEF InOrder
    <3>2. \A q \in TicketPaths : s.made.archive.tickets[q] # NoFile <=>
            q \in s.paths /\ ~Unmade(s, q)
      BY <1>4, <2>11, <2>12, <2>13
    <3>3. s.at \in {"locks", "ticket"}  BY <2>11
    <3> QED  BY <3>1, <3>2, <3>3 DEF InOrder, Late
  <2>16. s.made.rules = {} =>
           /\ ~known /\ reading.made.rules = {} /\ ~both.conflict
           /\ tasks = reading.made.tasks \cup {Task(p, text)}
    BY <2>1, <2>12 DEF tasks
  <2>17. /\ Task(p, text).id = id /\ Task(p, text).path = p
         /\ Task(p, text).claim = text.claim
    BY DEF Task, id
  <2>18. ASSUME s.made.rules = {}, TasksMade(reading)
         PROVE  TasksMade(s)
    <3>1. \A q \in TicketPaths : asRead[q] # NoFile /\ ~Unmade(s, q) =>
            Task(q, asRead[q]) \in tasks
      BY <2>13, <2>14, <2>16, <2>18 DEF TasksMade, asRead
    <3>2. \A task \in tasks :
            /\ asRead[task.path] # NoFile /\ ~Unmade(s, task.path)
            /\ task = Task(task.path, asRead[task.path])
      <4>1. TAKE task \in tasks
      <4>2. CASE task = Task(p, text)
        BY <1>2, <1>5, <2>13, <2>14, <2>17, <4>2
      <4>3. CASE task \in reading.made.tasks
        <5>1. task.path \in TicketPaths  BY <1>3, <4>3 DEF Preparations
        <5> QED  BY <2>13, <2>18, <4>3, <5>1 DEF TasksMade, asRead
      <4> QED  BY <2>16, <2>18, <4>2, <4>3
    <3>3. \A task, other \in tasks : task.id = other.id => task = other
      BY <2>16, <2>17, <2>18 DEF TasksMade, known, id
    <3> QED  BY <2>12, <3>1, <3>2, <3>3 DEF TasksMade
  <2>19. \A j \in Ids : reading.made.archive.locks[j] # NoFile =>
           s.made.archive.locks[j] = reading.made.archive.locks[j]
    BY <2>2, <2>12
  <2>20. ASSUME s.made.rules = {}, ClaimsRead(reading)
         PROVE  ClaimsRead(s)
    <3>1. ASSUME NEW c \in conflicts
          PROVE  /\ asRead[c.path] # NoFile /\ s.made.archive.locks[c.id] # NoFile
                 /\ ~Unmade(s, c.path)
                 /\ c = Conflict(c.path, asRead[c.path], s.made.archive.locks[c.id])
      <4>1. CASE c \in reading.made.conflicts
        <5>1. c.path \in TicketPaths /\ c.id \in Ids
          BY <1>3, <4>1 DEF Preparations
        <5> QED  BY <2>13, <2>19, <2>20, <4>1, <5>1 DEF ClaimsRead, asRead
      <4>2. CASE c \in more
        <5>1. both.ambiguous /\ c = Conflict(p, text, held)  BY <4>2
        <5>2. c.path = p /\ c.id = id  BY <5>1 DEF Conflict, id
        <5>3. held # NoFile  BY <2>3, <5>1
        <5>4. s.made.archive.locks[id] = held  BY <1>6, <2>12, <5>3 DEF id
        <5> QED  BY <1>2, <1>5, <2>13, <2>14, <5>1, <5>2, <5>3, <5>4
      <4> QED  BY <4>1, <4>2 DEF conflicts
    <3>2. \A i \in Ids : s.made.archive.locks[i] # NoFile =>
            \E task \in tasks : task.id = i
      BY <2>12, <2>16, <2>17, <2>20 DEF ClaimsRead
    <3> QED  BY <2>12, <3>1, <3>2 DEF ClaimsRead
  <2>21. \A q \in TicketPaths : TicketSeen(s, q) => TicketSeen(reading, q)
    BY <1>1, <2>11, <2>12 DEF TicketSeen, asRead
  <2>22. \A j \in Ids : LockSeen(s, j) =>
           \/ /\ LockSeen(reading, j)
              /\ s.made.archive.locks[j] = reading.made.archive.locks[j]
           \/ s.made.archive.locks[j] = disk.locks[j]
    BY <2>11, <2>12 DEF LockSeen, Late, held, id
  <2>23. WasThere(reading, moments) => WasThere(s, moments)
    BY <1>1, <2>12, <2>21, <2>22 DEF WasThere, asRead
  <2>24. FirstWasThere(reading, moments) => FirstWasThere(s, moments)
    BY <2>11 DEF FirstWasThere
  <2>25. AtOneMoment(reading, disk, moments) => AtOneMoment(s, disk, moments)
    BY <2>11, <2>12, <2>21, <2>22 DEF AtOneMoment, asRead
  <2>26. ASSUME s.made.rules = {}, TasksMade(reading), ClaimsRead(reading),
                ConflictsSeen(reading, disk)
         PROVE  ConflictsSeen(s, disk)
    <3> DEFINE was(j) == reading.first.archive.locks[j]
    <3>1. \A j \in Ids : disk.locks[j] # was(j) /\ reading.made.archive.locks[j] # was(j)
            => s.made.archive.locks[j] # was(j)
      BY <2>12 DEF held, id
    <3>2. ASSUME NEW task \in tasks, was(task.id) # NoFile
          PROVE  \/ /\ disk.locks[task.id] # was(task.id)
                    /\ s.made.archive.locks[task.id] # was(task.id)
                 \/ /\ ~combineClaim(task.claim, was(task.id)).conflict
                    /\ combineClaim(task.claim, was(task.id)).ambiguous =>
                         Conflict(task.path, asRead[task.path], was(task.id)) \in conflicts
      <4>1. CASE task \in reading.made.tasks
        <5>1. task.id \in Ids  BY <1>3, <4>1 DEF Preparations
        <5> QED  BY <2>26, <3>1, <3>2, <4>1, <5>1 DEF ConflictsSeen, conflicts, asRead
      <4>2. CASE task = Task(p, text)
        <5>1. task.id = id /\ task.path = p /\ task.claim = text.claim
          BY <2>17, <4>2
        <5>2. CASE held = was(id)
          BY <2>14, <2>16, <2>26, <5>1, <5>2 DEF conflicts, both
        <5>3. CASE held # was(id)
          <6>1. disk.locks[id] # was(id)  BY <5>3 DEF held, id
          <6>2. CASE held # NoFile
            BY <1>6, <2>12, <5>1, <5>3, <6>1, <6>2 DEF id
          <6>3. CASE held = NoFile
            <7>1. s.made.archive.locks[id] = reading.made.archive.locks[id]
              BY <1>6, <2>12, <6>3 DEF id
            <7>2. reading.made.archive.locks[id] = NoFile
              BY <1>6, <2>16, <2>26 DEF ClaimsRead, known, id
            <7> QED  BY <3>2, <5>1, <6>1, <7>1, <7>2
          <6> QED  BY <6>2, <6>3
        <5> QED  BY <5>2, <5>3
      <4> QED  BY <2>16, <2>26, <4>1, <4>2
    <3> QED  BY <2>11, <2>12, <3>2 DEF ConflictsSeen
  <2>27. Preparing(s, disk, moments)
    BY <1>1, <2>11, <2>15, <2>16, <2>18, <2>20, <2>23, <2>24, <2>25, <2>26 DEF Preparing
  <2> QED  BY <1>1, <1>8, <2>11, <2>27, LookKeeps DEF text, held, p, asRead
<1> QED  BY <1>7, <1>8

\* At the end of a preparation every file has been seen.
LEMMA AllSeen ==
  ASSUME NEW r, r \in Readings, InOrder(r), r.at = "prepared"
  PROVE  /\ \A p \in TicketPaths : TicketSeen(r, p) /\ ~Unmade(r, p)
         /\ \A i \in Ids : LockSeen(r, i)
BY DEF InOrder, Unmade, TicketSeen, LockSeen, Late

LEMMA ReportKeeps ==
  ASSUME ImportInv, Report
  PROVE  ImportInv'
<1> DEFINE r == Begun("import", NothingMade)
<1>1. /\ reading' = r /\ moments' = {disk} /\ UNCHANGED <<disk, editsLeft>>
      /\ disk \in QueueFiles
  BY UnderWay DEF Report
<1>2. NothingMade \in Preparations
  BY DEF NothingMade, NoQueueFiles, Preparations, QueueFiles
<1>3. Preparing(r, disk, {disk})
  <2>1. r.mode = "import"  BY DEF Begun
  <2>2. WasThere(r, {disk})  BY <1>2, BegunIsPrepared DEF WasThere
  <2> QED  BY <1>2, <2>1, <2>2, BegunIsPrepared DEF Preparing
<1>4. Decided(decisions')
  <2>1. PICK by \in [reading.made.conflicts -> {"ticket", "lock"}] :
          decisions' \in {{}, {[conflict |-> c, source |-> by[c]] : c \in DOMAIN by}}
    BY DEF Report
  <2> QED  BY <2>1 DEF Decided
<1>5. r.mode = "import"  BY DEF Begun
<1> HIDE DEF r
<1>6. Preparing(reading', disk', moments')  BY <1>1, <1>3
<1>7. ImportIsFaithful'
  BY <1>1, <1>5 DEF ImportIsFaithful, ArchivedAsItWas, ClaimsCarriedOver, SessionsDecided,
                    Imported
<1> QED  BY <1>1, <1>4, <1>5, <1>6, <1>7 DEF ImportInv

LEMMA PreparedKeeps ==
  ASSUME ImportInv, Prepared
  PROVE  ImportInv'
<1> DEFINE r == Begun("verify", reading.made)
<1>1. /\ reading.at = "prepared" /\ reading.mode = "import" /\ Look(r)
      /\ Preparing(reading, disk, moments) /\ reading \in Readings
      /\ InOrder(reading) /\ disk \in moments
  BY UnderWay DEF Prepared, Preparing
<1>2. reading.made \in Preparations  BY <1>1 DEF Readings
<1>3. /\ r.mode = "verify" /\ r.first = reading.made  BY DEF Begun
<1>4. /\ r \in Readings /\ InOrder(r) /\ TasksMade(r) /\ ClaimsRead(r)
      /\ \A p \in TicketPaths : ~TicketSeen(r, p)
      /\ \A i \in Ids : ~LockSeen(r, i)
      /\ r.made.tasks = {}
  BY <1>2, BegunIsPrepared
<1> HIDE DEF r
<1>5. WasThere(reading, moments)  BY <1>1 DEF Preparing
<1>6. FirstWasThere(r, moments)
  BY <1>1, <1>3, <1>5, AllSeen DEF FirstWasThere, WasThere
<1>7. AtOneMoment(r, disk, moments)  BY <1>1, <1>4 DEF AtOneMoment
<1>8. ConflictsSeen(r, disk)  BY <1>4 DEF ConflictsSeen
<1>9. Preparing(r, disk, moments)
  BY <1>3, <1>4, <1>6, <1>7, <1>8 DEF Preparing
<1> QED  BY <1>1, <1>3, <1>9, LookKeeps

\* Once the queue has what two preparations agree on, it is true to one moment.
LEMMA importedStateKeeps ==
  ASSUME ImportInv, importedState
  PROVE  ImportInv'
<1>1. /\ reading.at = "prepared" /\ reading.mode = "verify"
      /\ Preparing(reading, disk, moments) /\ reading \in Readings
      /\ InOrder(reading) /\ AtOneMoment(reading, disk, moments)
      /\ moments \subseteq QueueFiles /\ Decided(decisions)
  BY UnderWay DEF importedState, Preparing, ImportInv
<1> DEFINE made == reading.first
           done == [Over("imported") EXCEPT
                      !.made = [made EXCEPT !.tasks = resolveImportedClaimSessions(made)]]
           good == Agrees(reading) /\ Resolved(made)
<1>2. Look(IF good THEN done ELSE Thrown)  BY DEF importedState
<1>3. CASE ~good  BY <1>2, <1>3, LookKeeps
<1>4. CASE good
  <2>1. reading.made = made /\ made.rules = {} /\ Resolved(made)
    BY <1>4 DEF Agrees
  <2>2. /\ TasksMade(reading) /\ ClaimsRead(reading) /\ ConflictsSeen(reading, disk)
    BY <1>1, <2>1 DEF Preparing
  <2>3. made \in Preparations  BY <1>1 DEF Readings
  <2> HIDE DEF made
  <2> DEFINE filed == made.archive
             resolved == resolveImportedClaimSessions(made)
  <2>4. /\ done.mode = "imported" /\ done.at = "end"
        /\ done.made.archive = filed /\ done.made.tasks = resolved
    BY <2>3 DEF Over, Begun, Preparations
  <2>5. /\ reading' = done /\ UNCHANGED <<disk, editsLeft, moments, decisions>>
    BY <1>2, <1>4 DEF Look
  <2> HIDE DEF done
  <2>6. /\ filed \in QueueFiles
        /\ made.tasks \in SUBSET [id : Ids, path : TicketPaths, status : STRING,
                                  claim : LegacyClaims \cup {NoFile}]
        /\ made.conflicts \in SUBSET [id : Ids, path : TicketPaths,
                                      ticket : Nat, lock : Nat]
    BY <2>3 DEF Preparations
  <2> DEFINE chosen(t) == /\ t.status = "claimed"
                          /\ \E c \in made.conflicts : \E d \in Resolution(c) :
                               c.id = t.id /\ d.source = "lock"
             claimOf(t) == IF chosen(t)
                           THEN [t.claim EXCEPT !.session = filed.locks[t.id].session]
                           ELSE t.claim
             settled(t) == [t EXCEPT !.claim = claimOf(t)]
  <2>7. resolved = {settled(t) : t \in made.tasks}
    BY <2>6 DEF resolveImportedClaimSessions
  <2>8. ASSUME NEW t \in made.tasks
        PROVE  /\ settled(t).id = t.id /\ settled(t).path = t.path
               /\ settled(t).status = t.status /\ settled(t).claim = claimOf(t)
    BY <2>6
  <2>9. ASSUME NEW t \in made.tasks
        PROVE  /\ t.path \in TicketPaths /\ t.id \in Ids
               /\ filed.tickets[t.path] # NoFile
               /\ t.id = filed.tickets[t.path].id
               /\ t.claim = filed.tickets[t.path].claim
    <3>1. t = Task(t.path, filed.tickets[t.path]) /\ filed.tickets[t.path] # NoFile
      BY <2>1, <2>2 DEF TasksMade
    <3>2. t.path \in TicketPaths /\ t.id \in Ids  BY <2>6
    <3> QED  BY <3>1, <3>2 DEF Task
  <2> HIDE DEF claimOf, resolved
  <2>10. \A i \in Ids : filed.locks[i] # NoFile => \E t \in made.tasks : t.id = i
    BY <2>1, <2>2 DEF ClaimsRead
  <2>11. ASSUME NEW t \in made.tasks, filed.locks[t.id] # NoFile
         PROVE  /\ ~combineClaim(t.claim, filed.locks[t.id]).conflict
                /\ combineClaim(t.claim, filed.locks[t.id]).ambiguous =>
                     Conflict(t.path, filed.tickets[t.path], filed.locks[t.id])
                       \in made.conflicts
    BY <2>1, <2>2, <2>11 DEF ConflictsSeen, made
  <2>12. filed \in moments
    <3>1. PICK once \in moments :
            /\ \A p \in TicketPaths : once.tickets[p] = filed.tickets[p]
            /\ \A i \in Ids : once.locks[i] = filed.locks[i]
      BY <1>1, <2>1, AllSeen DEF AtOneMoment, made
    <3>2. once \in QueueFiles  BY <1>1
    <3>3. once.tickets = filed.tickets /\ once.locks = filed.locks
      BY <2>6, <3>1, <3>2 DEF QueueFiles
    <3>4. once = filed  BY <2>6, <3>2, <3>3 DEF QueueFiles
    <3> QED  BY <3>4
  <2>13. ArchivedAsItWas'
    <3>1. ASSUME NEW p \in There(filed.tickets)
          PROVE  \E task \in resolved : task.path = p /\ task.id = filed.tickets[p].id
      <4>1. p \in TicketPaths /\ filed.tickets[p] # NoFile
        BY <2>6 DEF There, QueueFiles
      <4>2. Task(p, filed.tickets[p]) \in made.tasks
        BY <1>1, <2>1, <2>2, <4>1, AllSeen DEF TasksMade
      <4>3. settled(Task(p, filed.tickets[p])) \in resolved  BY <2>7, <4>2
      <4>4. /\ Task(p, filed.tickets[p]).path = p
            /\ Task(p, filed.tickets[p]).id = filed.tickets[p].id
        BY DEF Task
      <4> QED  BY <2>8, <4>2, <4>3, <4>4
    <3>2. \A t, other \in made.tasks : t.id = other.id => t = other
      BY <2>1, <2>2 DEF TasksMade
    <3>3. ASSUME NEW task \in resolved, NEW other \in resolved, task.id = other.id
          PROVE  task = other
      <4>1. PICK t \in made.tasks : task = settled(t)  BY <2>7
      <4>2. PICK u \in made.tasks : other = settled(u)  BY <2>7
      <4>3. t.id = u.id  BY <2>8, <3>3, <4>1, <4>2
      <4>4. t = u  BY <3>2, <4>3
      <4> QED  BY <4>1, <4>2, <4>4
    <3> QED  BY <2>4, <2>5, <2>12, <3>1, <3>3 DEF ArchivedAsItWas
  <2>14. ClaimsCarriedOver'
    <3>1. ASSUME NEW i \in There(filed.locks)
          PROVE  \E task \in resolved :
                   /\ task.id = i /\ task.claim # NoFile
                   /\ task.claim.worker = filed.locks[i].worker
                   /\ task.claim.epoch = filed.locks[i].epoch
      <4>1. i \in Ids /\ filed.locks[i] # NoFile
        BY <2>6 DEF There, QueueFiles
      <4>2. PICK t \in made.tasks : t.id = i  BY <2>10, <4>1
      <4>3. /\ t.claim # NoFile /\ t.claim.worker = filed.locks[i].worker
            /\ t.claim.epoch = filed.locks[i].epoch
        BY <2>11, <4>1, <4>2 DEF combineClaim
      <4>4. t.claim \in LegacyClaims  BY <2>6, <4>3
      <4>5. /\ claimOf(t) \in [worker : LegacyWorkers, epoch : Nat,
                               session : {t.claim.session, filed.locks[t.id].session}]
            /\ claimOf(t).worker = t.claim.worker /\ claimOf(t).epoch = t.claim.epoch
        BY <4>4 DEF claimOf, LegacyClaims
      <4>6. claimOf(t) # NoFile
        <5>1. filed.locks[t.id] \in LegacyClaims
          BY <2>6, <4>1, <4>2 DEF QueueFiles
        <5>2. claimOf(t) \in LegacyClaims  BY <4>4, <4>5, <5>1 DEF LegacyClaims
        <5> QED  BY <5>2, ImportAssumption
      <4> QED  BY <2>7, <2>8, <4>2, <4>3, <4>5, <4>6
    <3> QED  BY <2>4, <2>5, <3>1 DEF ClaimsCarriedOver
  <2>15. SessionsDecided'
    <3> DEFINE decidedOn(id, p, status, claim) ==
                 \E d \in decisions :
                   /\ d.conflict = Conflict(p, filed.tickets[p], filed.locks[id])
                   /\ status = "claimed" =>
                        claim.session = IF d.source = "lock"
                                        THEN filed.locks[id].session
                                        ELSE filed.tickets[p].claim.session
    <3>1. ASSUME NEW t \in made.tasks,
                 filed.tickets[t.path].claim # NoFile, filed.locks[t.id] # NoFile,
                 filed.tickets[t.path].claim.session # filed.locks[t.id].session
          PROVE  decidedOn(t.id, t.path, t.status, claimOf(t))
      <4> DEFINE conflict == Conflict(t.path, filed.tickets[t.path], filed.locks[t.id])
      <4>1. t.claim = filed.tickets[t.path].claim  BY <2>9
      <4>2. combineClaim(t.claim, filed.locks[t.id]).ambiguous
        BY <2>11, <3>1, <4>1 DEF combineClaim
      <4>3. conflict \in made.conflicts  BY <2>11, <3>1, <4>2
      <4>4. PICK d \in decisions : d.conflict = conflict
        BY <2>1, <4>3 DEF Resolved, Resolution
      <4>5. conflict.id = t.id  BY <2>9 DEF Conflict
      <4>6. ASSUME NEW c \in made.conflicts, c.id = t.id
            PROVE  c = conflict
        <5>1. /\ c = Conflict(c.path, filed.tickets[c.path], filed.locks[c.id])
              /\ filed.tickets[c.path] # NoFile /\ ~Unmade(reading, c.path)
          BY <2>1, <2>2 DEF ClaimsRead
        <5>2. c.path \in TicketPaths  BY <2>6
        <5>3. Task(c.path, filed.tickets[c.path]) \in made.tasks
          BY <2>1, <2>2, <5>1, <5>2 DEF TasksMade
        <5>4. /\ Task(c.path, filed.tickets[c.path]).id = t.id
              /\ Task(c.path, filed.tickets[c.path]).path = c.path
          BY <4>6, <5>1 DEF Task, Conflict
        <5>5. Task(c.path, filed.tickets[c.path]) = t
          BY <2>1, <2>2, <5>3, <5>4 DEF TasksMade
        <5> QED  BY <4>6, <5>1, <5>4, <5>5
      <4>7. CASE t.status = "claimed"
        <5>1. chosen(t) <=> d.source = "lock"
          <6>1. ASSUME NEW c \in made.conflicts, NEW e \in Resolution(c), c.id = t.id
                PROVE  e.source = d.source
            BY <1>1, <4>4, <4>6, <6>1 DEF Resolution, Decided
          <6>2. d \in Resolution(conflict)  BY <4>4 DEF Resolution
          <6> HIDE DEF conflict
          <6> QED  BY <4>3, <4>5, <4>7, <6>1, <6>2
        <5>2. t.claim \in LegacyClaims  BY <2>6, <3>1, <4>1
        <5>3. claimOf(t).session = IF d.source = "lock" THEN filed.locks[t.id].session
                                                         ELSE t.claim.session
          <6> HIDE DEF chosen
          <6> QED  BY <5>1, <5>2 DEF claimOf, LegacyClaims
        <5> QED  BY <4>1, <4>4, <5>3
      <4>8. CASE t.status # "claimed"  BY <4>4, <4>8
      <4> QED  BY <4>7, <4>8
    <3>2. ASSUME NEW task \in resolved,
                 filed.tickets[task.path].claim # NoFile, filed.locks[task.id] # NoFile,
                 filed.tickets[task.path].claim.session # filed.locks[task.id].session
          PROVE  decidedOn(task.id, task.path, task.status, task.claim)
      <4>1. PICK t \in made.tasks : task = settled(t)  BY <2>7
      <4>2. /\ task.id = t.id /\ task.path = t.path
            /\ task.status = t.status /\ task.claim = claimOf(t)
        BY <2>8, <4>1
      <4> HIDE DEF settled, decidedOn
      <4> QED  BY <3>1, <3>2, <4>2
    <3>3. /\ reading'.made.archive = filed /\ reading'.made.tasks = resolved
          /\ decisions' = decisions
      BY <2>4, <2>5
    <3>4. \A task \in resolved :
            LET ticket == filed.tickets[task.path].claim
                lock == filed.locks[task.id]
            IN ticket # NoFile /\ lock # NoFile /\ ticket.session # lock.session =>
                 \E d \in decisions :
                   /\ d.conflict = Conflict(task.path, filed.tickets[task.path], lock)
                   /\ task.status = "claimed" =>
                        task.claim.session = IF d.source = "lock" THEN lock.session
                                             ELSE ticket.session
      BY <3>2
    <3> HIDE DEF decidedOn, settled, filed
    <3> QED  BY <3>3, <3>4 DEF SessionsDecided
  <2>16. ImportIsFaithful'  BY <2>13, <2>14, <2>15 DEF ImportIsFaithful
  <2> QED  BY <2>4, <2>5, <2>16 DEF ImportInv
<1> QED  BY <1>3, <1>4

-----------------------------------------------------------------------------
(* An edit between two looks. *)

LEMMA RewrittenKeeps ==
  ASSUME ImportInv, NEW now \in QueueFiles, Rewritten(now), NothingComesBack
  PROVE  ImportInv'
<1> DEFINE after == moments \cup {now}
<1>1. /\ reading.at # "end" /\ disk' = now /\ moments' = after
      /\ editsLeft > 0 /\ editsLeft' = editsLeft - 1 /\ editsLeft \in Nat
      /\ UNCHANGED <<reading, decisions>>
  BY DEF Rewritten, ImportInv
<1>2. /\ reading.mode \in {"report", "import", "verify"}
      /\ Preparing(reading, disk, moments) /\ reading \in Readings
  BY <1>1, UnderWay DEF Preparing
<1>3. /\ \A p \in TicketPaths : now.tickets[p] # disk.tickets[p] =>
           \A once \in moments : once.tickets[p] # now.tickets[p]
      /\ \A i \in Ids : now.locks[i] # disk.locks[i] =>
           \A once \in moments : once.locks[i] # now.locks[i]
  BY <1>1 DEF NothingComesBack
<1>4. WasThere(reading, moments) => WasThere(reading, after)  BY DEF WasThere
<1>5. FirstWasThere(reading, moments) => FirstWasThere(reading, after)
  BY DEF FirstWasThere
<1>6. FirstWasThere(reading, moments) =>
        /\ \A p \in TicketPaths : now.tickets[p] = reading.first.archive.tickets[p]
             => disk.tickets[p] = reading.first.archive.tickets[p]
        /\ \A i \in Ids : now.locks[i] = reading.first.archive.locks[i]
             => disk.locks[i] = reading.first.archive.locks[i]
  BY <1>3 DEF FirstWasThere
<1>7. FirstWasThere(reading, moments) /\ AtOneMoment(reading, disk, moments)
        => AtOneMoment(reading, now, after)
  BY <1>6 DEF AtOneMoment
<1>8. FirstWasThere(reading, moments) /\ ConflictsSeen(reading, disk)
        => ConflictsSeen(reading, now)
  <2>1. \A task \in reading.made.tasks : task.id \in Ids
    BY <1>2 DEF Readings, Preparations
  <2> QED  BY <1>6, <2>1 DEF ConflictsSeen
<1>9. Preparing(reading, now, after)
  BY <1>2, <1>4, <1>5, <1>7, <1>8 DEF Preparing
<1>10. Preparing(reading', disk', moments')  BY <1>1, <1>9
<1>11. /\ disk' \in QueueFiles /\ disk' \in moments' /\ moments' \subseteq QueueFiles
       /\ editsLeft' \in Nat /\ Decided(decisions')
  BY <1>1 DEF ImportInv
<1>12. ImportIsFaithful'
  BY <1>1, <1>2 DEF ImportIsFaithful, ArchivedAsItWas, ClaimsCarriedOver, SessionsDecided,
                    Imported
<1> QED  BY <1>1, <1>2, <1>10, <1>11, <1>12 DEF ImportInv

LEMMA FreshClaimsAre ==
  ASSUME editsLeft \in Nat
  PROVE  FreshClaims \subseteq LegacyClaims
BY DEF FreshClaims, LegacyClaims

LEMMA EditLockKeeps ==
  ASSUME ImportInv, EditLock, NothingComesBack
  PROVE  ImportInv'
<1>1. PICK i \in Ids, file \in {NoFile} \cup FreshClaims :
        Rewritten([disk EXCEPT !.locks[i] = file])
  BY DEF EditLock
<1>2. disk \in QueueFiles /\ file \in LegacyClaims \cup {NoFile}
  BY FreshClaimsAre DEF ImportInv
<1>3. [disk.locks EXCEPT ![i] = file] \in [Ids -> LegacyClaims \cup {NoFile}]
  BY <1>2 DEF QueueFiles
<1>4. [disk EXCEPT !.locks[i] = file] = [disk EXCEPT !.locks = [disk.locks EXCEPT ![i] = file]]
  BY <1>2 DEF QueueFiles
<1>5. [disk EXCEPT !.locks[i] = file] \in QueueFiles
  BY <1>2, <1>3, <1>4 DEF QueueFiles
<1> QED  BY <1>1, <1>5, RewrittenKeeps

LEMMA WithTicket ==
  ASSUME disk \in QueueFiles, NEW p \in TicketPaths, NEW text \in LegacyTickets \cup {NoFile}
  PROVE  [disk EXCEPT !.tickets[p] = text] \in QueueFiles
<1>1. [disk.tickets EXCEPT ![p] = text] \in [TicketPaths -> LegacyTickets \cup {NoFile}]
  BY DEF QueueFiles
<1>2. [disk EXCEPT !.tickets[p] = text]
        = [disk EXCEPT !.tickets = [disk.tickets EXCEPT ![p] = text]]
  BY DEF QueueFiles
<1> QED  BY <1>1, <1>2 DEF QueueFiles

LEMMA EditTicketKeeps ==
  ASSUME ImportInv, EditTicket, NothingComesBack
  PROVE  ImportInv'
<1>1. PICK p \in TicketPaths, edit \in TicketEdits :
        \E claim \in {NoFile} \cup (IF edit.claims THEN FreshClaims \cup {disk.locks[edit.id]}
                                     ELSE {}) :
          Rewritten([disk EXCEPT !.tickets[p] =
                       [id |-> edit.id, status |-> edit.status, claim |-> claim]])
  BY DEF EditTicket
<1>2. disk \in QueueFiles /\ edit.id \in Ids /\ edit.status \in STRING
  BY ImportAssumption DEF ImportInv
<1>3. PICK claim \in {NoFile} \cup FreshClaims \cup {disk.locks[edit.id]} :
        Rewritten([disk EXCEPT !.tickets[p] =
                     [id |-> edit.id, status |-> edit.status, claim |-> claim]])
  BY <1>1
<1>4. claim \in LegacyClaims \cup {NoFile}
  BY <1>2, FreshClaimsAre DEF ImportInv, QueueFiles
<1> DEFINE text == [id |-> edit.id, status |-> edit.status, claim |-> claim]
<1>5. text \in LegacyTickets  BY <1>2, <1>4 DEF LegacyTickets
<1> HIDE DEF text
<1>6. [disk EXCEPT !.tickets[p] = text] \in QueueFiles  BY <1>2, <1>5, WithTicket
<1>7. Rewritten([disk EXCEPT !.tickets[p] = text])  BY <1>3 DEF text
<1> QED  BY <1>6, <1>7, RewrittenKeeps

LEMMA RemoveTicketKeeps ==
  ASSUME ImportInv, RemoveTicket, NothingComesBack
  PROVE  ImportInv'
<1>1. PICK p \in TicketPaths : Rewritten([disk EXCEPT !.tickets[p] = NoFile])
  BY DEF RemoveTicket
<1>2. [disk EXCEPT !.tickets[p] = NoFile] \in QueueFiles
  BY WithTicket DEF ImportInv
<1> QED  BY <1>1, <1>2, RewrittenKeeps

-----------------------------------------------------------------------------

LEMMA ImportStarting ==
  ASSUME ImportInit
  PROVE  ImportInv
<1>1. PICK start \in ImportStarts :
        disk = start.disk /\ editsLeft = start.edits /\ moments = {start.disk}
  BY DEF ImportInit
<1>2. /\ disk \in QueueFiles /\ disk \in moments /\ moments \subseteq QueueFiles
      /\ editsLeft \in Nat
  BY <1>1, ImportAssumption
<1>3. Decided(decisions)  BY DEF ImportInit, Decided
<1>4. PICK mode \in {"report", "import"} : reading = Begun(mode, NothingMade)
  BY DEF ImportInit
<1>5. reading.mode = mode  BY <1>4 DEF Begun
<1>6. NothingMade \in Preparations
  BY DEF NothingMade, NoQueueFiles, Preparations, QueueFiles
<1>7. WasThere(reading, moments)  BY <1>4, <1>6, BegunIsPrepared DEF WasThere
<1>8. Preparing(reading, disk, moments)
  BY <1>4, <1>5, <1>6, <1>7, BegunIsPrepared DEF Preparing
<1>9. ImportIsFaithful
  BY <1>5 DEF ImportIsFaithful, ArchivedAsItWas, ClaimsCarriedOver, SessionsDecided,
              Imported
<1> QED  BY <1>2, <1>3, <1>5, <1>8, <1>9 DEF ImportInv

LEMMA ImportStep ==
  ASSUME ImportInv, [ImportNext]_importVars, [NothingComesBack]_importVars
  PROVE  ImportInv'
<1>1. CASE UNCHANGED importVars
  BY <1>1 DEF importVars, ImportInv, ImportIsFaithful, ArchivedAsItWas, ClaimsCarriedOver,
              SessionsDecided, Imported
<1>2. CASE ImportNext /\ NothingComesBack
  <2>1. CASE discoverTicketFiles  BY <2>1, discoverTicketFilesKeeps
  <2>2. CASE ReadTicket  BY <2>2, ReadTicketKeeps
  <2>3. CASE ReadClaim  BY <2>3, ReadClaimKeeps
  <2>4. CASE discoverClaimLockFiles  BY <2>4, discoverClaimLockFilesKeeps
  <2>5. CASE ReadLock  BY <2>5, ReadLockKeeps
  <2>6. CASE SamePaths  BY <2>6, SamePathsKeeps
  <2>7. CASE SameLocks  BY <2>7, SameLocksKeeps
  <2>8. CASE SameTicket  BY <2>8, SameTicketKeeps
  <2>9. CASE SameLock  BY <2>9, SameLockKeeps
  <2>10. CASE Report  BY <2>10, ReportKeeps
  <2>11. CASE Prepared  BY <2>11, PreparedKeeps
  <2>12. CASE importedState  BY <2>12, importedStateKeeps
  <2>13. CASE EditLock  BY <1>2, <2>13, EditLockKeeps
  <2>14. CASE EditTicket  BY <1>2, <2>14, EditTicketKeeps
  <2>15. CASE RemoveTicket  BY <1>2, <2>15, RemoveTicketKeeps
  <2> QED
    BY <1>2, <2>1, <2>2, <2>3, <2>4, <2>5, <2>6, <2>7, <2>8, <2>9, <2>10, <2>11, <2>12,
       <2>13, <2>14, <2>15 DEF ImportNext
<1> QED  BY <1>1, <1>2

\* Files that are read one by one while others write them give a queue that is
\* true to one moment of the import: the archive, the tasks, the claims and the
\* sessions that were decided on (migrateImportedQueue, importedState).  Unless a
\* file got back, between two looks, what it had held before.
THEOREM ImportsAreFaithful ==
  ImportSpec /\ [][NothingComesBack]_importVars => []ImportIsFaithful
<1>1. ImportInit => ImportInv  BY ImportStarting
<1>2. ImportInv /\ [ImportNext]_importVars /\ [NothingComesBack]_importVars => ImportInv'
  BY ImportStep
<1>3. ImportInv => ImportIsFaithful  BY DEF ImportInv
<1> QED  BY <1>1, <1>2, <1>3, PTL DEF ImportSpec

-----------------------------------------------------------------------------
(* Outcome capsules. *)

CapsuleTypeOK ==
  /\ named \in [{"capsule", "run"} -> [Names -> Kinds]]
  /\ texts \in [Contained -> Says \cup {NoState, Unreadable}]
  /\ around.head \in Nat
  /\ around = [head |-> around.head, tracked |-> around.tracked, evidence |-> around.evidence,
               unlistable |-> around.unlistable, ignored |-> around.ignored]
  /\ draft \in Says \cup {NoState}

LEMMA CapsulesStart == CapsuleInit => CapsuleTypeOK
  BY CapsuleAssumption DEF CapsuleInit, CapsuleTypeOK, Stores

LEMMA CompiledSays == CapsuleTypeOK => Compiled \in Says
<1> SUFFICES ASSUME CapsuleTypeOK  PROVE Compiled \in Says
  OBVIOUS
<1> DEFINE owes == {[run |-> r, state |-> "ACTIVE"] : r \in RunList}
           none == {}
<1>1. owes \in SUBSET [run : Names, state : {"ACTIVE", "CLEANUP_PENDING", "BLOCKED"}]
  BY DEF RunList
<1>2. around.head \in Int  BY DEF CapsuleTypeOK
<1>3. none \in SUBSET Candidates  OBVIOUS
<1>4. Compiled =
  [form |-> "whole", outcome |-> "ACTIVE", head |-> around.head, acceptance |-> "todo",
   owes |-> owes, candidates |-> none,
   prose |-> FALSE, restart |-> "ABSENT", review |-> "pending", participant |-> "none",
   next |-> TRUE]
  BY DEF Compiled
<1> HIDE DEF owes, none
<1> QED  BY <1>1, <1>2, <1>3, <1>4 DEF Says, OutcomeStates

LEMMA CapsulesTyped == CapsuleTypeOK /\ [CapsuleNext]_capsuleVars => CapsuleTypeOK'
<1> SUFFICES ASSUME CapsuleTypeOK, [CapsuleNext]_capsuleVars  PROVE CapsuleTypeOK'
  OBVIOUS
<1>1. CASE Compile
  <2>1. draft' \in Says  BY <1>1, CompiledSays DEF Compile
  <2> QED  BY <1>1, <2>1 DEF Compile, CapsuleTypeOK
<1>2. ASSUME NEW c \in Names, Save(c)  PROVE CapsuleTypeOK'
  <2>1. draft \in Says  BY <1>2 DEF Save, CapsuleTypeOK
  <2>2. named' \in [{"capsule", "run"} -> [Names -> Kinds]]
    BY <1>2 DEF Save, CapsuleTypeOK, Kinds
  <2>3. texts' \in [Contained -> Says \cup {NoState, Unreadable}]
    BY <1>2, <2>1 DEF Save, CapsuleTypeOK
  <2> QED  BY <1>2, <2>2, <2>3 DEF Save, CapsuleTypeOK
<1>3. ASSUME NEW place \in Contained, WriteText(place)  PROVE CapsuleTypeOK'
  <2>1. texts' \in [Contained -> Says \cup {NoState, Unreadable}]
    BY <1>3, CapsuleAssumption DEF WriteText, CapsuleTypeOK
  <2> QED  BY <1>3, <2>1 DEF WriteText, CapsuleTypeOK
<1>4. CASE RenameEntry
  <2>1. named' \in [{"capsule", "run"} -> [Names -> Kinds]]
    BY <1>4 DEF RenameEntry, CapsuleTypeOK
  <2> QED  BY <1>4, <2>1 DEF RenameEntry, CapsuleTypeOK
<1>5. ASSUME NEW hand, NEW value, ChangeAround(hand, "head", value), value \in Nat
      PROVE  CapsuleTypeOK'
  BY <1>5 DEF ChangeAround, CapsuleTypeOK
<1>6. ASSUME NEW hand, NEW field \in {"tracked", "evidence", "unlistable", "ignored"},
             NEW value, ChangeAround(hand, field, value)
      PROVE  CapsuleTypeOK'
  BY <1>6 DEF ChangeAround, CapsuleTypeOK
<1>7. CASE UNCHANGED capsuleVars
  BY <1>7 DEF capsuleVars, CapsuleTypeOK
<1>8. around.head + 1 \in Nat  BY DEF CapsuleTypeOK
<1> QED  BY <1>1, <1>2, <1>3, <1>4, <1>5, <1>6, <1>7, <1>8 DEF CapsuleNext

-----------------------------------------------------------------------------

\* What a name resolves to is the name of a directory, or lies elsewhere.
LEMMA ResolvesToDirectory ==
  ASSUME NEW is \in [Names -> Kinds], NEW n \in Names
  PROVE  /\ Realpath(is, n) \in Contained \cup {Outside, Nowhere}
         /\ Realpath(is, n) # Nowhere => is[n] # "absent"
         /\ Realpath(is, n) \in Names => /\ is[Realpath(is, n)] = "directory"
                                         /\ Realpath(is, Realpath(is, n)) = Realpath(is, n)
<1>1. \A m \in Names : /\ Straight(is, m) \in {m, FarOff, Outside, Nowhere}
                       /\ Straight(is, m) = m => is[m] = "directory"
                       /\ is[m] = "absent" => Straight(is, m) = Nowhere
                       /\ is[m] = "directory" => Straight(is, m) = m
  BY DEF Straight, Names, FarOff, Outside, Nowhere, Kinds
<1>2. 3 - n \in Names  BY DEF Names
<1>3. Names \cap {FarOff, Outside, Nowhere} = {}
  BY DEF Names, FarOff, Outside, Nowhere
<1>4. \A m \in Names : is[m] # "alias" => Realpath(is, m) = Straight(is, m)
  BY DEF Realpath
<1>5. is[n] = "alias" => Realpath(is, n) = Straight(is, 3 - n)  BY DEF Realpath
<1> QED  BY <1>1, <1>2, <1>3, <1>4, <1>5 DEF Contained

\* What resolves has no other identity, and nothing else has it.
LEMMA SameIdentity ==
  ASSUME CapsuleTypeOK, NEW r \in Names, NEW s \in Names, Realpath(named.run, r) # Nowhere
  PROVE  /\ Identity(r) = Realpath(named.run, r)
         /\ Identity(s) = Identity(r) <=> Realpath(named.run, s) = Realpath(named.run, r)
<1>1. named.run \in [Names -> Kinds]  BY DEF CapsuleTypeOK
<1>2. Identity(r) = Realpath(named.run, r)  BY DEF Identity
<1>3. CASE Realpath(named.run, s) # Nowhere  BY <1>2, <1>3 DEF Identity
<1>4. CASE Realpath(named.run, s) = Nowhere
  <2>1. Identity(s) = s  BY <1>4 DEF Identity
  <2>2. Realpath(named.run, r) = s => Realpath(named.run, s) # Nowhere
    BY <1>1, ResolvesToDirectory
  <2> QED  BY <1>2, <1>4, <2>1, <2>2
<1> QED  BY <1>2, <1>3, <1>4

\* A capsule's directory is read, under one of its names.
LEMMA ReadOnce ==
  ASSUME CapsuleTypeOK, NEW c \in Entries, PlaceOf(c) # Nowhere
  PROVE  \E d \in Entries : PlaceOf(d) = PlaceOf(c) /\ ~ Again(d)
<1>1. Entries \subseteq {1, 2}  BY DEF Entries, Names
<1>2. ASSUME Again(c)  PROVE \E d \in Entries : PlaceOf(d) = PlaceOf(c) /\ ~ Again(d)
  <2>1. PICK d \in Entries \ {c} :
          /\ PlaceOf(d) = PlaceOf(c)
          /\ IF IsLink(named.capsule, d) = IsLink(named.capsule, c) THEN d < c
             ELSE IsLink(named.capsule, c)
    BY <1>2 DEF Again
  <2>2. Entries \ {d} \subseteq {c}  BY <1>1, <2>1
  <2>3. IsLink(named.capsule, c) \in BOOLEAN /\ IsLink(named.capsule, d) \in BOOLEAN
    BY DEF IsLink
  <2>4. ~ (IF IsLink(named.capsule, c) = IsLink(named.capsule, d) THEN c < d
           ELSE IsLink(named.capsule, d))
    BY <1>1, <2>1, <2>3
  <2>5. ~ Again(d)  BY <2>2, <2>4 DEF Again
  <2> QED  BY <2>1, <2>5
<1> QED  BY <1>2

\* What a clean check has looked at, and found.
LEMMA CleanIs ==
  ASSUME Status = "clean"
  PROVE  /\ Capsules # {} /\ Orphans = {} /\ around.unlistable = {}
         /\ \A c \in Entries : EntryError(c) = "none" \/ Again(c)
         /\ \A c \in Capsules : CapsuleErrors(c) = {}
<1> DEFINE first == {[id |-> c, rule |-> EntryError(c)] :
                       c \in {d \in Entries : EntryError(d) # "none" /\ ~ Again(d)}}
           second == UNION {{[id |-> c, rule |-> e] : e \in CapsuleErrors(c)} : c \in Capsules}
           third == IF Capsules = {} THEN {}
                    ELSE {[id |-> r, rule |-> "orphaned-run"] : r \in Orphans}
           fourth == {[id |-> 0, rule |-> u] : u \in around.unlistable}
<1>1. inspectSpineState.capsules = Capsules
      /\ inspectSpineState.errors = first \cup second \cup third \cup fourth
  BY DEF inspectSpineState
<1>2. first \cup second \cup third \cup fourth = {} /\ Capsules # {}
  BY <1>1 DEF Status
<1>3. \A c \in Entries : EntryError(c) = "none" \/ Again(c)
  <2>1. \A c \in {d \in Entries : EntryError(d) # "none" /\ ~ Again(d)} :
          [id |-> c, rule |-> EntryError(c)] \in first
    OBVIOUS
  <2> HIDE DEF first, second, third, fourth
  <2> QED  BY <1>2, <2>1
<1>4. \A c \in Capsules : CapsuleErrors(c) = {}
  <2>1. \A c \in Capsules : \A e \in CapsuleErrors(c) : [id |-> c, rule |-> e] \in second
    OBVIOUS
  <2> HIDE DEF first, second, third, fourth
  <2> QED  BY <1>2, <2>1
<1>5. Orphans = {}
  <2>1. \A r \in Orphans : [id |-> r, rule |-> "orphaned-run"] \in third  BY <1>2
  <2> HIDE DEF first, second, third, fourth
  <2> QED  BY <1>2, <2>1
<1>6. around.unlistable = {}
  <2>1. \A u \in around.unlistable : [id |-> 0, rule |-> u] \in fourth  OBVIOUS
  <2> HIDE DEF first, second, third, fourth
  <2> QED  BY <1>2, <2>1
<1> QED  BY <1>2, <1>3, <1>4, <1>5, <1>6

\* What is no error of a capsule.
LEMMA NoErrors ==
  ASSUME NEW c, CapsuleErrors(c) = {}
  PROVE  /\ \A d \in Capsules : \A r \in Owed(c), s \in Owed(d) :
              Identity(r) = Identity(s) => d = c
         /\ Complete(StateOf(c)) =>
              /\ StateOf(c).candidates \subseteq around.tracked
              /\ ~ (StateOf(c).head < 1)
              /\ StateOf(c).head > 0 => StateOf(c).head = around.head
              /\ StateOf(c).review = "evidence" => around.evidence
<1> DEFINE t == StateOf(c)
<1>1. /\ CleanupErrors(c) = {} /\ FrictionErrors(t) = {} /\ FixedPointErrors(t) = {}
      /\ CompleteErrors(t) = {}
  BY DEF CapsuleErrors
<1> HIDE DEF t
<1>2. ~ \E d \in Capsules : d # c /\ \E r \in Owed(c), s \in Owed(d) : Identity(r) = Identity(s)
  <2>1. "duplicate-run-consumer" \notin CleanupErrors(c)  BY <1>1
  <2> QED  BY <2>1 DEF CleanupErrors
<1>3. Complete(t) => t.candidates \subseteq around.tracked
  <2>1. "dangling-candidate" \notin FrictionErrors(t)  BY <1>1
  <2> QED  BY <2>1 DEF FrictionErrors
<1>4. Complete(t) => ~ (t.head < 1) /\ (t.head > 0 => t.head = around.head)
  <2>1. /\ "complete-without-commit-anchor" \notin FixedPointErrors(t)
        /\ "stale-fixed-point" \notin FixedPointErrors(t)
    BY <1>1
  <2> QED  BY <2>1 DEF FixedPointErrors
<1>5. Complete(t) => ReviewErrors(t) = {}  BY <1>1 DEF CompleteErrors
<1>6. ReviewErrors(t) = {} => (t.review = "evidence" => around.evidence)
  <2>1. ReviewErrors(t) = {} => "complete-review-evidence-unresolved" \notin ReviewErrors(t)
    OBVIOUS
  <2> QED  BY <2>1 DEF ReviewErrors
<1> QED  BY <1>2, <1>3, <1>4, <1>5, <1>6 DEF t

\* The capsules of a clean check: every directory of one, read once.
LEMMA CleanCapsules ==
  ASSUME CapsuleTypeOK, Status = "clean"
  PROVE  /\ RunList = {r \in Names : named.run[r] # "absent"}
         /\ \A c \in Capsules : /\ c \in Names /\ PlaceOf(c) \in CapsulePlaces
                                /\ texts[PlaceOf(c)] \in Says
         /\ \A p \in CapsulePlaces : \E c \in Capsules : PlaceOf(c) = p
<1>1. /\ RunList = {r \in Names : named.run[r] # "absent"}
      /\ Entries = {c \in Names : named.capsule[c] # "absent"}
  BY CleanIs DEF RunList, Entries
<1>2. \A c \in Names : EntryError(c) = "none" =>
        /\ PlaceOf(c) \in Contained
        /\ texts[PlaceOf(c)] # NoState /\ texts[PlaceOf(c)] # Unreadable
  BY DEF EntryError
<1>3. \A c \in Capsules : c \in Entries /\ EntryError(c) = "none"  BY DEF Capsules
<1>4. \A c \in Capsules : /\ c \in Names /\ PlaceOf(c) \in CapsulePlaces
                          /\ texts[PlaceOf(c)] \in Says
  BY <1>1, <1>2, <1>3 DEF CapsulePlaces, CapsuleTypeOK
<1>5. ASSUME NEW p \in CapsulePlaces  PROVE \E c \in Capsules : PlaceOf(c) = p
  <2>1. PICK c \in Entries : PlaceOf(c) = p  BY <1>1 DEF CapsulePlaces
  <2>2. p # Nowhere  BY DEF CapsulePlaces, Contained, Names, FarOff, Nowhere
  <2>3. PICK d \in Entries : PlaceOf(d) = p /\ ~ Again(d)  BY <2>1, <2>2, ReadOnce
  <2>4. d \in Capsules  BY <2>3, CleanIs DEF Capsules
  <2> QED  BY <2>3, <2>4
<1> QED  BY <1>1, <1>4, <1>5

LEMMA CleanOwns ==
  ASSUME CapsuleTypeOK, Status = "clean", NEW r \in Names, Realpath(named.run, r) # Nowhere
  PROVE  Cardinality(OwnersOf(Realpath(named.run, r))) = 1
<1> DEFINE run == Realpath(named.run, r)
           owners == OwnersOf(run)
<1>1. \A p : p \in owners <=> /\ p \in CapsulePlaces
                              /\ \E o \in texts[p].owes : Realpath(named.run, o.run) = run
  BY DEF OwnersOf
<1>2. named.run \in [Names -> Kinds]  BY DEF CapsuleTypeOK
<1>3. r \in RunList  BY <1>2, ResolvesToDirectory, CleanCapsules
<1>4. \A c \in Capsules : \A s \in Owed(c) : s \in Names
  <2>1. \A t \in Says : \A o \in t.owes : o.run \in Names  BY DEF Says
  <2> QED  BY <2>1, CleanCapsules DEF Owed, StateOf
<1>5. PICK c \in Capsules : \E s \in Owed(c) : Identity(s) = Identity(r)
  BY <1>3, CleanIs DEF Orphans
<1>6. PICK s \in Owed(c) : Identity(s) = Identity(r)  BY <1>5
<1>7. Realpath(named.run, s) = run  BY <1>4, <1>6, SameIdentity
<1>8. PlaceOf(c) \in owners
  <2>1. \E o \in texts[PlaceOf(c)].owes : o.run = s  BY <1>6 DEF Owed, StateOf
  <2> QED  BY <1>1, <1>7, <2>1, CleanCapsules
<1>9. ASSUME NEW p \in owners  PROVE p = PlaceOf(c)
  <2>1. PICK o \in texts[p].owes : Realpath(named.run, o.run) = run  BY <1>1, <1>9
  <2>2. PICK d \in Capsules : PlaceOf(d) = p  BY <1>1, <1>9, CleanCapsules
  <2>3. o.run \in Owed(d)  BY <2>1, <2>2 DEF Owed, StateOf
  <2>4. o.run \in Names  BY <1>4, <2>2, <2>3
  <2>5. Identity(o.run) = Identity(s)  BY <1>4, <1>6, <1>7, <2>1, <2>4, SameIdentity
  <2>6. d = c  BY <1>6, <2>2, <2>3, <2>5, CleanIs, NoErrors
  <2> QED  BY <2>2, <2>6
<1> HIDE DEF owners
<1>10. owners = {PlaceOf(c)}  BY <1>8, <1>9
<1> QED  BY <1>10, FS_Singleton DEF owners

LEMMA CapsulesAccounted == CapsuleTypeOK => CleanIsAccounted
<1> SUFFICES ASSUME CapsuleTypeOK, Status = "clean"
             PROVE  /\ \A r \in Names : Realpath(named.run, r) # Nowhere =>
                         Cardinality(OwnersOf(Realpath(named.run, r))) = 1
                    /\ \A p \in CapsulePlaces : Complete(texts[p]) =>
                         /\ texts[p].head = around.head
                         /\ texts[p].candidates \subseteq around.tracked
                         /\ texts[p].review = "evidence" => around.evidence
                    /\ \A c \in Capsules : \A r \in Owed(c) :
                         Realpath(named.run, r) \in Names => Identity(r) \notin MissingRuns(c)
                    /\ \A r \in RunList : \E c \in Capsules : Identity(r) \notin UnlistedRuns(c)
  BY DEF CleanIsAccounted
<1>1. \A r \in Names : Realpath(named.run, r) # Nowhere =>
        Cardinality(OwnersOf(Realpath(named.run, r))) = 1
  BY CleanOwns
<1>2. ASSUME NEW p \in CapsulePlaces, Complete(texts[p])
      PROVE  /\ texts[p].head = around.head
             /\ texts[p].candidates \subseteq around.tracked
             /\ texts[p].review = "evidence" => around.evidence
  <2>1. PICK c \in Capsules : PlaceOf(c) = p  BY <1>2, CleanCapsules
  <2>2. StateOf(c) = texts[p] /\ CapsuleErrors(c) = {}  BY <2>1, CleanIs DEF StateOf
  <2>3. texts[p].head \in Int  BY <2>1, CleanCapsules DEF Says
  <2>4. /\ texts[p].candidates \subseteq around.tracked
        /\ ~ (texts[p].head < 1)
        /\ texts[p].head > 0 => texts[p].head = around.head
        /\ texts[p].review = "evidence" => around.evidence
    BY <1>2, <2>2, NoErrors
  <2> QED  BY <2>3, <2>4
<1>3. ASSUME NEW c \in Capsules, NEW r \in Owed(c), Realpath(named.run, r) \in Names
      PROVE  Identity(r) \notin MissingRuns(c)
  <2>1. r \in Names
    <3>1. \A t \in Says : \A o \in t.owes : o.run \in Names  BY DEF Says
    <3> QED  BY <3>1, CleanCapsules DEF Owed, StateOf
  <2>2. Identity(r) = Realpath(named.run, r)
    BY <1>3 DEF Identity, Names, Nowhere
  <2>3. named.run[Realpath(named.run, r)] = "directory"
    BY <1>3, <2>1, ResolvesToDirectory DEF CapsuleTypeOK
  <2>4. Identity(r) \in RunList  BY <1>3, <2>2, <2>3, CleanCapsules
  <2> QED  BY <2>4 DEF MissingRuns
<1>4. ASSUME NEW r \in RunList
      PROVE  \E c \in Capsules : Identity(r) \notin UnlistedRuns(c)
  <2>1. PICK c \in Capsules : \E s \in Owed(c) : Identity(s) = Identity(r)
    BY CleanIs DEF Orphans
  <2> QED  BY <2>1 DEF UnlistedRuns
<1> QED  BY <1>1, <1>2, <1>3, <1>4

\* A clean check of the capsules accounts for every run, whatever names runs and
\* capsules go by and whatever was renamed, rewritten or removed before.
THEOREM CleanAccounts == CapsuleSpec => []CleanIsAccounted
  BY CapsulesStart, CapsulesTyped, CapsulesAccounted, PTL DEF CapsuleSpec
=============================================================================
