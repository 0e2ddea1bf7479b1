---------------------------- MODULE InstallCheck ----------------------------
(***************************************************************************)
(* What `krn install check' and `krn doctor' report                        *)
(* (scripts/lib/install/install-inspect.mjs), beside what                  *)
(* `krn install apply' admits (install-release.mjs).                       *)
(*                                                                         *)
(* A release carries metadata that names the digest of its files, and its  *)
(* own copy of the digest ledger, which is not among them; the anchor is   *)
(* the ledger that the harness checkout has committed.  Apply asks for the *)
(* seal before it places the release and once more behind it; the report   *)
(* asks on its own, without the harness to tell ancestors.  The steps of   *)
(* an apply are in InstallRelease: here it is one step.                    *)
(***************************************************************************)
EXTENDS Integers, Sequences

CONSTANTS
  Harness,       \* harness commits: 1..n, each the parent of the next
  Histories,     \* the digest of each commit's runtime, and its ledger
  ManagedLinks,  \* managed destinations
  Requirements,  \* managed requirements files: [state, lines]
  CheckStarts,   \* what is installed before
  MaxTurns,      \* bound: applies, and changes made by hand
  NoDigest

\* A key of the ledger that is no ancestor of any commit, after a squash merge.
Unrelated == 0

Elsewhere == 0   \* no commit: outside of a checkout, or no release selected

ASSUME CheckAssumption ==
  /\ Harness \subseteq Nat \ {Elsewhere}
  /\ ManagedLinks # {}
  /\ \A start \in CheckStarts : start.selected \in Harness \cup {Elsewhere}

VARIABLES
  harness,     \* the history
  checkedOut,  \* the commit of the checkout
  store,       \* the release of each commit
  selected,    \* the commit `current' leads to
  signed,      \* the digest in each commit's override record
  host,        \* what lies around the release
  applied      \* the apply that came last, with nothing changed since; turns

checkVars == <<harness, checkedOut, store, selected, signed, host, applied>>

NoRelease == [there |-> FALSE, bytes |-> NoDigest, stamp |-> NoDigest,
              spelling |-> "new", local |-> [state |-> "none"]]

-----------------------------------------------------------------------------
(* Ledgers: [state |-> "none"], "torn", or "read" with their entries. *)

\* An absent file has no entries; a torn one fails, at the callers.
releaseDigests(ledger) ==
  [k \in Harness \cup {Unrelated} |->
     IF ledger.state = "read" THEN ledger.entries[k] ELSE NoDigest]

\* The ledger as committed; an empty one is an anchor as well.
anchoredLedger ==
  IF checkedOut = Elsewhere THEN [state |-> "none"] ELSE harness.ledger[checkedOut]

gitAncestor(key, commit) == key # Unrelated /\ key <= commit

\* An entry of the commit, or of one of its ancestors: without a harness to ask,
\* of any.
SealsByValue(entries, commit, digest, inHarness) ==
  \E k \in DOMAIN entries :
    entries[k] = digest /\ (k = commit \/ ~inHarness \/ gitAncestor(k, commit))

\* Slip: the copy in the release speaks where the committed ledger is silent.
SealedIn_Either(release, commit, ledger, inHarness) ==
  LET own == releaseDigests(release.local)[commit]
  IN IF ledger.state = "read" /\ ledger.entries[commit] # NoDigest
     THEN ledger.entries[commit] = release.bytes
     ELSE \/ own = release.bytes
          \/ SealsByValue(releaseDigests(ledger), commit, release.bytes, inHarness)

\* The committed ledger decides where there is one. The commit's own entry
\* comes before all others.
SealedIn(release, commit, ledger, inHarness) ==
  LET entries == releaseDigests(IF ledger.state = "none" THEN release.local ELSE ledger)
  IN IF entries[commit] # NoDigest THEN entries[commit] = release.bytes
     ELSE SealsByValue(entries, commit, release.bytes, inHarness)

\* Only its own copy vouches for the release, though it could.
Unattested(release, commit, ledger, inHarness) ==
  /\ ledger.state # "none"
  /\ ledger.entries[commit] = NoDigest
  /\ SealsByValue(releaseDigests(release.local), commit, release.bytes, inHarness)

\* The metadata names the digest of the files; NoDigest where it cannot be read.
NamesItsFiles(release) == release.stamp = release.bytes

\* It does in the spelling that releases were once sealed in.
Superseded(release) == release.spelling = "old"

Integrity(release) ==
  IF ~NamesItsFiles(release) THEN "release-corrupt"
  ELSE IF Superseded(release) THEN "digest-legacy"
  ELSE "verified"

verifyRelease(release, commit, ledger, inHarness, requireSealed) ==
  IF Integrity(release) # "verified" THEN Integrity(release)
  ELSE IF ~requireSealed THEN "verified"
  ELSE IF release.local.state = "torn" THEN "ledger-unreadable"
  ELSE IF SealedIn(release, commit, ledger, inHarness) THEN "verified"
  ELSE IF Unattested(release, commit, ledger, inHarness) THEN "ledger-unattested"
  ELSE "digest-unsealed"

-----------------------------------------------------------------------------
(* The report. *)

\* What classifyTarget finds, and what is reported of it.
LinkStatus ==
  [current |-> "filesystem_installed", prior_release |-> "stable_link_bypasses_current",
   legacy_source |-> "legacy_mutable_source", other_release |-> "foreign_collision",
   foreign |-> "foreign_collision", file |-> "foreign_collision",
   dangling |-> "broken_link", nothing |-> "missing", beside |-> "foreign_collision"]

itemStatus(t) == LinkStatus[host.links[t]]

LinkStatuses == {itemStatus(t) : t \in ManagedLinks}
                  \cup (IF host.orphan THEN {"orphaned_link"} ELSE {})

\* The words for a release or a ledger that fails.
RULE_STATUS ==
  [ledger_unreadable |-> "ledger_unreadable", release_corrupt |-> "release_corrupt",
   digest_legacy |-> "release_superseded"]

\* Hooks are off under one of these, each a name and a value in a table,
\* wherever in the file it stands.
Inert == {<<"top", "allow_managed_hooks_only", "true">>, <<"features", "hooks", "false">>,
          <<"top", "features.hooks", "false">>, <<"top", "features", "{hooks = false}">>}

managedHookPolicy ==
  IF host.requirements.state = "absent" THEN "no_managed_requirements"
  ELSE IF host.requirements.state = "unreadable" THEN "requirements_unreadable"
  ELSE IF host.requirements.lines \cap Inert # {} THEN "hook_inert"
  ELSE "hooks_active"

\* The links matter once the release has passed: an override file masks the
\* installation, an old hook conflicts with it, and then the links count.
AsSeen(verdict) ==
  IF host.masked THEN "masked_by_override"
  ELSE IF host.legacyHook THEN "legacy_hook_conflict"
  ELSE IF LinkStatuses # {"filesystem_installed"} THEN "links"
  ELSE verdict

WithoutRelease ==
  IF host.masked THEN "masked_by_override"
  ELSE IF host.legacyHook THEN "legacy_hook_conflict"
  ELSE host.current

\* An override record stands for the seal while it names the files there are.
SelectedRelease ==
  LET release == store[selected]
      verdict == verifyRelease(release, selected, anchoredLedger, FALSE, TRUE)
  IN CASE verdict = "verified" -> AsSeen("filesystem_installed")
       [] verdict = "ledger-unattested" -> "digest_unsealed"
       [] verdict = "digest-unsealed" ->
            IF signed[selected] = release.bytes THEN AsSeen("digest_unsealed")
                                                ELSE "digest_unsealed"
       [] verdict = "ledger-unreadable" -> RULE_STATUS.ledger_unreadable
       [] verdict = "release-corrupt" -> RULE_STATUS.release_corrupt
       [] OTHER -> RULE_STATUS.digest_legacy

Filesystem ==
  IF anchoredLedger.state = "torn" THEN RULE_STATUS.ledger_unreadable
  ELSE IF selected = Elsewhere THEN WithoutRelease
  ELSE SelectedRelease

\* install check and doctor exit with status 0.
Healthy == /\ Filesystem = "filesystem_installed"
           /\ managedHookPolicy \in {"hooks_active", "no_managed_requirements"}

-----------------------------------------------------------------------------
(* Apply. *)

Turn(next) == /\ applied.turns < MaxTurns
              /\ applied' = [next EXCEPT !.turns = applied.turns + 1]

Nobody == [commit |-> Elsewhere, sealed |-> FALSE, turns |-> 0]

\* The checkout is clean, so its ledger file is the committed one.
targetSeal(commit) ==
  LET entries == releaseDigests(harness.ledger[commit])
  IN IF entries[commit] # NoDigest THEN entries[commit] = harness.digest[commit]
     ELSE SealsByValue(entries, commit, harness.digest[commit], TRUE)

\* preflightCurrent and preflightTargets.
PreflightTargets ==
  /\ selected = Elsewhere => host.current = "missing"
  /\ ~host.masked /\ ~host.legacyHook
  /\ \A t \in ManagedLinks :
       host.links[t] \in {"nothing", "current", "prior_release", "legacy_source"}

\* git archive of the commit, with the metadata of its files.
buildRuntime(commit) ==
  [there |-> TRUE, bytes |-> harness.digest[commit], stamp |-> harness.digest[commit],
   spelling |-> "new", local |-> harness.ledger[commit]]

\* A release that is there already stays, if it verifies and is the same.
Existing(commit) ==
  IF ~store[commit].there THEN buildRuntime(commit) ELSE store[commit]

Matches(commit) ==
  ~store[commit].there \/ /\ Integrity(store[commit]) = "verified"
                          /\ store[commit].bytes = harness.digest[commit]

Placed(commit) == store' = [store EXCEPT ![commit] = Existing(commit)]

\* The first record of a commit is kept.
Signs(commit) ==
  signed' = IF targetSeal(commit) \/ signed[commit] # NoDigest THEN signed
            ELSE [signed EXCEPT ![commit] = harness.digest[commit]]

Verifies(commit) ==
  verifyRelease(Existing(commit), commit, harness.ledger[commit], TRUE,
                 targetSeal(commit)) = "verified"

Applies(commit) ==
  /\ commit = checkedOut /\ commit # Elsewhere
  /\ harness.ledger[commit].state # "torn"
  /\ PreflightTargets
  /\ Signs(commit)
  /\ UNCHANGED <<harness, checkedOut>>

\* The record has been written when the release turns out to be another.
ApplyRefused(commit) ==
  /\ Applies(commit)
  /\ ~Matches(commit)
  /\ Turn(Nobody)
  /\ UNCHANGED <<store, selected, host>>

\* The release has been placed; `current' stays.
ApplyUnverified(commit) ==
  /\ Applies(commit)
  /\ Matches(commit) /\ ~Verifies(commit)
  /\ Placed(commit)
  /\ Turn(Nobody)
  /\ UNCHANGED <<selected, host>>

\* Unsealed only with --allow-unsealed, or where nothing is installed.
ApplyDone(commit) ==
  /\ Applies(commit)
  /\ Matches(commit) /\ Verifies(commit)
  /\ Placed(commit)
  /\ selected' = commit
  /\ host' = [host EXCEPT !.links = [t \in ManagedLinks |-> "current"], !.orphan = FALSE]
  /\ Turn([commit |-> commit, sealed |-> targetSeal(commit), turns |-> 0])

-----------------------------------------------------------------------------
(* By hand. *)

HandsOn == Turn(Nobody) /\ UNCHANGED harness

CheckOut(commit) ==
  /\ HandsOn /\ commit # checkedOut
  /\ checkedOut' = commit
  /\ UNCHANGED <<store, selected, signed, host>>

\* Files, metadata or the ledger copy of the selected release, or its record.
RewriteRelease ==
  /\ HandsOn /\ selected # Elsewhere
  /\ LET release == store[selected] IN
     \E next \in {[release EXCEPT !.bytes = "other"],
                  [release EXCEPT !.stamp = release.bytes, !.spelling = "new"],
                  [release EXCEPT !.stamp = NoDigest],
                  [release EXCEPT !.local = [state |-> "torn"]],
                  [release EXCEPT !.local =
                     [state |-> "read",
                      entries |-> [releaseDigests(@) EXCEPT ![selected] = release.bytes]]]} :
       next # release /\ store' = [store EXCEPT ![selected] = next]
  /\ UNCHANGED <<checkedOut, selected, signed, host>>

SignAgain ==
  /\ HandsOn /\ selected # Elsewhere
  /\ \E digest \in {NoDigest, store[selected].bytes} \ {signed[selected]} :
       signed' = [signed EXCEPT ![selected] = digest]
  /\ UNCHANGED <<checkedOut, store, selected, host>>

\* To another release, or away.
Reselect ==
  /\ HandsOn
  /\ selected' \in {c \in Harness : store[c].there} \cup {Elsewhere}
  /\ selected' # selected
  /\ \E kind \in {"missing", "foreign_collision", "broken_link"} :
       host' = IF selected' # Elsewhere THEN host
               ELSE [host EXCEPT !.current = kind,
                                 !.links = [t \in ManagedLinks |->
                                   IF @[t] = "current" THEN "dangling" ELSE @[t]]]
  /\ UNCHANGED <<checkedOut, store, signed>>

ChangeHost ==
  /\ HandsOn
  /\ host' \in {[host EXCEPT !.masked = ~@], [host EXCEPT !.legacyHook = ~@],
                [host EXCEPT !.orphan = TRUE]}
       \cup {[host EXCEPT !.links[t] = kind] : t \in ManagedLinks, kind \in DOMAIN LinkStatus}
       \cup {[host EXCEPT !.requirements = file] : file \in Requirements}
  /\ host' # host
  /\ UNCHANGED <<checkedOut, store, selected, signed>>

-----------------------------------------------------------------------------

CleanHost == [masked |-> FALSE, legacyHook |-> FALSE, orphan |-> FALSE,
              current |-> "missing", links |-> [t \in ManagedLinks |-> "nothing"],
              requirements |-> [state |-> "absent", lines |-> {}]]

CheckInit ==
  /\ harness \in Histories
  /\ checkedOut \in Harness
  /\ \E start \in CheckStarts :
       /\ selected = start.selected
       /\ store = [c \in Harness |->
                     IF c = selected THEN [buildRuntime(c) EXCEPT !.spelling = start.spelling]
                                     ELSE NoRelease]
       /\ host = IF selected # Elsewhere
                 THEN [CleanHost EXCEPT !.links = [t \in ManagedLinks |-> "current"]]
                 ELSE CleanHost
  /\ signed = [c \in Harness |-> NoDigest]
  /\ applied = Nobody

CheckNext ==
  \/ \E c \in Harness : ApplyRefused(c) \/ ApplyUnverified(c) \/ ApplyDone(c)
  \/ \E c \in Harness \cup {Elsewhere} : CheckOut(c)
  \/ RewriteRelease \/ SignAgain \/ Reselect \/ ChangeHost

CheckSpec == CheckInit /\ [][CheckNext]_checkVars

-----------------------------------------------------------------------------
(* Properties. *)

\* A release that install check calls healthy is one the committed ledger lists
\* by the digest of its files, whatever was rewritten in it, and all that KRN
\* manages leads into it, with its hooks alive.  Only outside of a checkout, or
\* where no ledger is committed, does a release vouch for itself (verifyRelease,
\* anchoredLedger and inspectInstall; docs/research/lab-tests.md:114).
HealthyIsAttested ==
  Healthy =>
    /\ selected # Elsewhere
    /\ NamesItsFiles(store[selected])
    /\ anchoredLedger.state = "read" =>
         \E k \in Harness \cup {Unrelated} : anchoredLedger.entries[k] = store[selected].bytes
    /\ \A t \in ManagedLinks : host.links[t] = "current"
    /\ ~host.masked /\ ~host.legacyHook /\ ~host.orphan

\* What apply took for sealed, the report takes for installed: the two ask the
\* ledger in code of their own (targetSeal, verifyRelease).
SealedApplyIsHealthy ==
  applied.sealed => Filesystem = "filesystem_installed"

CheckIsTrue == HealthyIsAttested /\ SealedApplyIsHealthy

\* `install check' "surfaces the override as its own status instead of a plain
\* installed state" (docs/research/lab-tests.md:115), as does
\* test/install/seal-override-audit.test.mjs:15.
OverridesShow ==
  applied.commit # Elsewhere /\ ~applied.sealed => Filesystem # "filesystem_installed"
=============================================================================
