--------------------------- MODULE MCLegacyTicket ---------------------------
(* Instances of LegacyTicket for TLC. *)
EXTENDS LegacyTicket, TLC

CONSTANTS t1, t2, w1, w2

\* One ticket, two workers: the claim and its two files.
OneTicket == <<t1>>
TwoWorkers == {w1, w2}
NoBlocker == t1 :> {}

\* The branch of the ticket may move on or vanish.
FirstFoul == {t1}
=============================================================================
