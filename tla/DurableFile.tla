----------------------------- MODULE DurableFile -----------------------------
(***************************************************************************)
(* What writeAtomic promises of a file (scripts/lib/support/write-atomic.  *)
(* mjs): at every moment a reader, before a power failure or after it,     *)
(* finds a whole text that was written, and never a part of one.           *)
(***************************************************************************)

CONSTANT Texts   \* the texts that writers write

VARIABLES
  text,   \* what a reader finds
  kept    \* what a reader may find after a power failure

\* A writer puts its text in the place of the old one.
Replace == text' \in Texts /\ kept' = kept \cup {text'}

\* What replaced the old text is kept for good.
Settle == UNCHANGED text /\ kept' = {text}

\* A text is written and kept in one step, where nothing else is written.
Put == text' \in Texts /\ kept' = {text'}

Crash == text' \in kept /\ kept' = {text'}

Spec == text \in Texts /\ kept = {text} /\ [][Replace \/ Settle \/ Put \/ Crash]_<<text, kept>>
=============================================================================
