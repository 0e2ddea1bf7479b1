---------------------------- MODULE LessonRecall ----------------------------
(* What krn-codex changes check asks of a range of commits on account of the   *)
(* workflow lessons: no lesson is dropped and no trigger withdrawn in silence, *)
(* and a commit whose change meets a trigger answers for the lesson            *)
(* (scripts/lib/contract/change-contract.mjs, scripts/lib/lessons/lessons.mjs  *)
(* and lessons-recall.mjs), with what memory check says of a retired row.      *)
(*                                                                             *)
(* A page has one row at most for a lesson. A trigger is a set of entries, a   *)
(* kind and what it names; a path pattern is a file. A commit's change is the  *)
(* files, the exported symbols and the churning files it meets. Which of the   *)
(* tests it declares may be used to judge it is ChangeContract's matter.       *)
EXTENDS Integers, Sequences, FiniteSets

CONSTANTS
  Frictions,      \* the lessons
  FirstPages,     \* what the page may be at the base: [there, malformed, rows]
  Pages,          \* and what a commit may make of it
  Diffs,          \* what a commit may meet: [files, symbols, hot]
  Messages,       \* what it may say: [lines, tests, changes]
  RecallModes,    \* "advisory", "obligation", "strict"
  DeclaredIn,     \* the files that declare each symbol
  TicketScopes,   \* the files each queued ticket names
  Present,        \* the paths of the repository
  TestReferences,     \* references that are test files
  LiveGates,      \* references that resolve, and those that can fail a build
  StructuralGates,
  PassingTests,   \* tests that pass at the head
  NoRow,
  MaxCommitted    \* bound on the commits of a range

ASSUME RecallAssumption ==
  /\ RecallModes \subseteq {"advisory", "obligation", "strict"}
  /\ \A page \in FirstPages \cup Pages, l \in Frictions :
       page.there /\ page.rows[l] # NoRow =>
         page.rows[l].status.is \in {"active", "superseded", "enforced", "retired"}

VARIABLES
  span,           \* the base and the commits after it: [diff, says, page]
  recallMode      \* --recall-obligation, --strict-recall or neither

recallVars == <<span, recallMode>>

BasePage == span[1].page
HeadPage == span[Len(span)].page
Since    == 2 .. Len(span)

\* Rows of a page; a row that cannot be parsed is none.
RowsOf(page) == {l \in Frictions : page.there /\ page.rows[l] # NoRow}

\* parseLessonText: a row without a status is active.
ActiveRows(page) == {l \in RowsOf(page) : page.rows[l].status.is = "active"}

HeadRow(l) == HeadPage.rows[l]

-----------------------------------------------------------------------------
(* recallLessons: the head's active rows against a commit. *)

\* triggerEntries.
EntriesOf(row, kind) == {entry.at : entry \in {e \in row.trigger : e.kind = kind}}

FilesMet(row, i)   == EntriesOf(row, "path") \cap span[i].diff.files
SymbolsMet(row, i) == EntriesOf(row, "symbol") \cap span[i].diff.symbols
ChurnMet(row, i)   == EntriesOf(row, "churn") \cap span[i].diff.hot

Matched(l, i) ==
  FilesMet(HeadRow(l), i) \cup SymbolsMet(HeadRow(l), i) \cup ChurnMet(HeadRow(l), i)
    \cup UNION {DeclaredIn[s] : s \in SymbolsMet(HeadRow(l), i)}

Hits(i) == {l \in ActiveRows(HeadPage) : Matched(l, i) # {}}

\* Slip: only a file is reason to oblige.
Obliges_PathsOnly(l, i) ==
  \/ recallMode = "strict"
  \/ recallMode = "obligation" /\ FilesMet(HeadRow(l), i) # {}

\* recallObligation: a hit by churn alone is advice.
Obliges(l, i) ==
  \/ recallMode = "strict"
  \/ /\ recallMode = "obligation"
     /\ FilesMet(HeadRow(l), i) # {} \/ SymbolsMet(HeadRow(l), i) # {}

-----------------------------------------------------------------------------
(* Recall lines: `<gate> => <what matched>' or `none (<reason>)'. *)

\* recallBindings: what a row goes by, and a line that ties it to the change.
NamedBy(row) == row.gates \cup {row.falsifier}

Reconstructed(l, i) ==
  \E line \in span[i].says.lines :
    line.left \in NamedBy(HeadRow(l)) /\ line.right \in Matched(l, i)

\* The tests a recalled lesson wants exercised, one of them at least.
RequiredTests(l) == NamedBy(HeadRow(l)) \cap TestReferences

Triggers(row) == {entry.at : entry \in row.trigger}

\* lessonAnchorTokens and queueTicketTokens.
LessonTokens(l) == {l} \cup HeadRow(l).gates \cup Triggers(HeadRow(l))

\* resolveRecallWaiver: a path, an active lesson or a ticket; or nothing.
WaiverTokens(reason) ==
  IF reason \in Present \/ \E l \in ActiveRows(HeadPage) : reason \in LessonTokens(l)
  THEN {reason}
  ELSE IF reason \in DOMAIN TicketScopes THEN {reason} \cup TicketScopes[reason]
  ELSE {}

Reasons(i) == {line.right : line \in {x \in span[i].says.lines : x.left = "none"}}

\* What a waiver has to name to cover a hit.
HitAnchors(l, i) ==
  {l} \cup NamedBy(HeadRow(l)) \cup Matched(l, i) \cup Triggers(HeadRow(l))

\* Slip: any accountable reason covers every hit.
Waived_Wholesale(l, i) == \E reason \in Reasons(i) : WaiverTokens(reason) # {}

\* waiverCoversHit.
Waived(l, i) ==
  \E reason \in Reasons(i) : WaiverTokens(reason) \cap HitAnchors(l, i) # {}

\* recallWaivers, and the loop over the hits: what is an error, the rest warns.
RecallErrors(i) ==
  {e \in {"recall-waiver-unresolved", "unreconstructed-recall", "unused-recall"} :
     IF e = "recall-waiver-unresolved"
     THEN \E reason \in Reasons(i) : WaiverTokens(reason) = {}
     ELSE \E l \in Hits(i) :
            /\ Obliges(l, i) /\ ~ Waived(l, i)
            /\ IF e = "unreconstructed-recall" THEN ~ Reconstructed(l, i)
               ELSE /\ Reconstructed(l, i) /\ RequiredTests(l) # {}
                    /\ RequiredTests(l) \cap span[i].says.tests = {}}

-----------------------------------------------------------------------------
(* The page of the base against the page of the head. *)

\* Applicability-change trailers of the range.
Permitted(l) == \E i \in Since : l \in span[i].says.changes

Dropped == ActiveRows(BasePage) \ RowsOf(HeadPage)

\* Slip: a row that is still there is as it was.
Withdrawn_TextOnly == {}

\* Entries of a trigger that the head's row no longer has.
Withdrawn ==
  {l \in ActiveRows(BasePage) \cap RowsOf(HeadPage) :
     ~ BasePage.rows[l].trigger \subseteq HeadRow(l).trigger}

\* A commit that meets a file of the model, or edits the page, is a surface
\* change.
OnSurface(i) == span[i].diff.files # {} \/ span[i].page # span[i - 1].page

PageErrors ==
  {e \in {"missing-lessons", "malformed-lessons", "lesson-shrinkage", "applicability-withdrawn"} :
     CASE e = "missing-lessons"   -> ~ HeadPage.there /\ \E i \in Since : OnSurface(i)
       [] e = "malformed-lessons" -> HeadPage.there /\ HeadPage.malformed
       [] e = "lesson-shrinkage"  -> BasePage.there /\ HeadPage.there /\ Dropped # {}
       [] OTHER -> /\ BasePage.there /\ HeadPage.there
                   /\ \E l \in Withdrawn : ~ Permitted(l)}

\* A declared test is run, and must be green, at the head.
RiskErrors ==
  IF \A i \in Since : span[i].says.tests \subseteq PassingTests THEN {}
  ELSE {"regressed-at-risk"}

ChangesErrors == PageErrors \cup RiskErrors \cup UNION {RecallErrors(i) : i \in Since}

-----------------------------------------------------------------------------
(* memory check of a retired row: superseded by an active row, enforced by one *)
(* of its gates that can fail a build, or without a gate that still resolves.  *)

RetiredErrors(l) ==
  LET row == HeadRow(l) IN
  {e \in {"trigger", "superseded-by", "enforced-by", "live-gate"} :
     CASE e = "trigger"       -> row.trigger # {}
       [] e = "superseded-by" ->
            /\ row.status.is = "superseded"
            /\ \A m \in ActiveRows(HeadPage) :
                 row.status.by \notin {m, HeadRow(m).falsifier} \cup HeadRow(m).gates
       [] e = "enforced-by" ->
            /\ row.status.is = "enforced"
            /\ row.status.by \notin row.gates \cap LiveGates \cap StructuralGates
       [] OTHER -> row.status.is = "retired" /\ row.gates \cap LiveGates # {}}

\* An active row has gates, and all resolve.
ActiveErrors(l) ==
  IF HeadRow(l).gates # {} /\ HeadRow(l).gates \subseteq LiveGates THEN {} ELSE {"gate"}

MemoryErrors ==
  (IF HeadPage.malformed THEN {"malformed-row"} ELSE {})
    \cup (UNION {ActiveErrors(l) : l \in ActiveRows(HeadPage)})
    \cup UNION {RetiredErrors(l) : l \in RowsOf(HeadPage) \ ActiveRows(HeadPage)}

-----------------------------------------------------------------------------

RecallInit ==
  /\ \E page \in FirstPages : span = <<[page |-> page]>>
  /\ recallMode \in RecallModes

CommitLesson ==
  /\ Len(span) <= MaxCommitted
  /\ \E diff \in Diffs, says \in Messages, page \in Pages :
       span' = Append(span, [diff |-> diff, says |-> says, page |-> page])
  /\ UNCHANGED recallMode

RecallSpec == RecallInit /\ [][CommitLesson]_recallVars

-----------------------------------------------------------------------------
(* Properties. *)

\* Did commit i answer for lesson l: a reason that names something of the
\* lesson's or a ticket about it, or a recall of it with a test that passes?
Answered(l, i) ==
  LET own == HitAnchors(l, i) IN
  \/ \E reason \in Reasons(i) :
       \/ reason \in own
       \/ reason \in DOMAIN TicketScopes /\ TicketScopes[reason] \cap own # {}
  \/ /\ \E line \in span[i].says.lines : line.left \in NamedBy(HeadRow(l))
     /\ RequiredTests(l) = {} \/ RequiredTests(l) \cap PassingTests \cap span[i].says.tests # {}

\* A range that changes check accepts, recall obligatory, and memory check as
\* well: every lesson that was active before it is active after it, superseded
\* by one that is, or enforced by a gate that can fail a build, unless nothing
\* it names resolves; and every commit that meets a file or a symbol by which a
\* lesson was to be recalled before the range answered for it, unless the range
\* declares a change of where the lesson applies ("a reason for one lesson never
\* discharges the rest", change-contract.mjs:99-102; "A preserved lesson text
\* whose trigger loses an entry withdraws a recall obligation", :277-278).
LessonsAnswered ==
  recallMode # "advisory" /\ Since # {} /\ ChangesErrors = {} /\ MemoryErrors = {} =>
    \A l \in ActiveRows(BasePage) :
      /\ HeadPage.there /\ HeadRow(l) # NoRow
      /\ \/ l \in ActiveRows(HeadPage)
         \/ \E m \in ActiveRows(HeadPage) : HeadRow(l).status.by \in {m} \cup NamedBy(HeadRow(m))
         \/ HeadRow(l).gates \cap StructuralGates \cap LiveGates # {}
         \/ HeadRow(l).gates \cap LiveGates = {}
      /\ \A i \in Since :
           \/ Permitted(l) \/ Answered(l, i)
           \/ FilesMet(BasePage.rows[l], i) = {} /\ SymbolsMet(BasePage.rows[l], i) = {}
=============================================================================
