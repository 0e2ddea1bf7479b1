---------------------------- MODULE GateCommand ----------------------------
(* krn-codex gate check: a commit is admitted when its falsifier fails at the  *)
(* base, in a worktree of its own, and passes in the checkout                  *)
(* (scripts/lib/contract/gated-transition.mjs). Nothing keeps the checkout as  *)
(* it is while the falsifier runs.                                             *)
(*                                                                             *)
(* `does` says what the falsifier does at each commit: pass, red (a test case  *)
(* fails) or setup (it cannot run). What an edit makes of it is anyone's guess. *)
EXTENDS Naturals, FiniteSets

CONSTANTS
  GateCommits,    \* commits HEAD may be at
  NoCommit,       \* an argument that resolves to no commit, or is not given
  Outcomes,       \* pass, red, setup
  MaxMoves        \* bound on the edits and checkouts

ASSUME GateAssumption == "pass" \in Outcomes

VARIABLES
  does,           \* the falsifier's outcome at each commit
  checkout,       \* HEAD, and the outcome of edits or "clean"
  gate,           \* the command
  moves           \* edits and checkouts still to come

gateVars == <<does, checkout, gate, moves>>

GateAt(pc) == gate.pc = pc

Refuse_ == gate' = [gate EXCEPT !.pc = "refused"]

\* The outcome of the falsifier in the checkout as it is.
HereDoes == IF checkout.edits = "clean" THEN does[checkout.head] ELSE checkout.edits

\* The fixed point is HEAD, a base that is named resolves, the tree is clean.
ResolveCommits ==
  /\ GateAt("start")
  /\ IF gate.fixed # checkout.head \/ checkout.edits # "clean" THEN Refuse_
     ELSE gate' = [gate EXCEPT !.pc = "base"]
  /\ UNCHANGED <<does, checkout, moves>>

\* In a worktree of the base. No base, no worktree, or no red: refused.
RunAtBase ==
  /\ GateAt("base")
  /\ \/ Refuse_
     \/ /\ gate.base \in {c \in GateCommits : does[c] = "red"}
        /\ gate' = [gate EXCEPT !.pc = "head"]
  /\ UNCHANGED <<does, checkout, moves>>

RunAtHead ==
  /\ GateAt("head")
  /\ IF HereDoes = "pass" THEN gate' = [gate EXCEPT !.pc = "recheck"] ELSE Refuse_
  /\ UNCHANGED <<does, checkout, moves>>

\* Slip: what is checked first is good for the whole command.
StillThere_Presumed == TRUE

\* HEAD and the tree are as they were resolved.
StillThere == checkout.head = gate.fixed /\ checkout.edits = "clean"

Recheck ==
  /\ GateAt("recheck")
  /\ IF StillThere THEN gate' = [gate EXCEPT !.pc = "admitted"] ELSE Refuse_
  /\ UNCHANGED <<does, checkout, moves>>

\* Edits, their undoing, and other commits checked out. `back`: the checkout left
\* the fixed point after it was resolved and came back to it.
CheckoutMoves ==
  /\ moves > 0 /\ moves' = moves - 1
  /\ checkout' \in [head : GateCommits, edits : Outcomes \cup {"clean"}] \ {checkout}
  /\ gate' = [gate EXCEPT !.back =
                @ \/ /\ gate.pc \in {"base", "head", "recheck"}
                     /\ checkout' = [head |-> gate.fixed, edits |-> "clean"]]
  /\ UNCHANGED does

GateInit ==
  /\ does \in [GateCommits -> Outcomes]
  /\ checkout \in [head : GateCommits, edits : {"clean", "pass"}]
  /\ gate \in [pc : {"start"}, back : {FALSE},
               fixed : GateCommits \cup {NoCommit}, base : GateCommits \cup {NoCommit}]
  /\ moves = MaxMoves

GateNext == ResolveCommits \/ RunAtBase \/ RunAtHead \/ Recheck \/ CheckoutMoves

GateSpec == GateInit /\ [][GateNext]_gateVars

-----------------------------------------------------------------------------
(* Properties. *)

\* "Base uses an immutable commit; the clean working HEAD is checked before and
\* after execution, not an atomic snapshot of transient writes"
\* (gated-transition.mjs:115-116): an admitted commit has a falsifier that fails
\* at the base and passes at the commit, unless the checkout left it and came
\* back while the falsifier ran.
AdmittedAtFixedPoint ==
  GateAt("admitted") =>
    /\ does[gate.base] = "red"
    /\ does[gate.fixed] = "pass" \/ gate.back
=============================================================================
