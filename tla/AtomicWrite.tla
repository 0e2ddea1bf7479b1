----------------------------- MODULE AtomicWrite -----------------------------
(***************************************************************************)
(* writeAtomic (scripts/lib/support/write-atomic.mjs): a file is replaced  *)
(* by writing a sibling temporary file, syncing it and renaming it over    *)
(* the target.                                                             *)
(*                                                                         *)
(* A file is the text a reader sees now and the texts a power failure may  *)
(* leave on disk.  What was written and not synced may be torn, and a      *)
(* rename that was not synced may be undone.                               *)
(***************************************************************************)
EXTENDS Naturals

CONSTANTS
  Pieces,   \* a text is written in at most this many pieces
  Torn      \* a file with a part of its text

ASSUME PiecesAssumption == Pieces \in Nat

NewFile(text) == [now |-> text, disk |-> {text}]

\* The machine goes down: what comes back is one of the texts on disk.
PowerLost(file) == {NewFile(text) : text \in file.disk}

NoTemp == [step |-> "none", text |-> Torn, written |-> 0, synced |-> FALSE]

\* open(temp, "wx").
OpenTemp(text) == [NoTemp EXCEPT !.step = "write", !.text = text]

\* write() may be short; one that makes no progress is a failure.
Written(temp) ==
  {IF n = Pieces THEN [temp EXCEPT !.written = n, !.step = "sync"]
                 ELSE [temp EXCEPT !.written = n] :
     n \in (temp.written + 1)..Pieces}

\* Slip: the data is left to the kernel.
Synced_Later(temp) == [temp EXCEPT !.step = "rename"]

\* fsync and close.
Synced(temp) == [temp EXCEPT !.synced = TRUE, !.step = "rename"]

Text(temp) == IF temp.written = Pieces THEN temp.text ELSE Torn

\* rename(temp, file).
Renamed(file, temp) ==
  [now |-> Text(temp),
   disk |-> file.disk \cup {Text(temp)} \cup (IF temp.synced THEN {} ELSE {Torn})]

\* fsync of the directory, which is best effort.
Flushed(file) ==
  {file, [file EXCEPT !.disk = {file.now} \cup (file.disk \cap {Torn})]}
=============================================================================
