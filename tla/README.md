# TLA+ models of KRN

KRN is a set of Node programs, shell lanes and agent hooks around one thing: a
queue of tasks that several people, agents and lanes work on at the same time,
in one Git repository, without a server. Beside it there are programs that
change a user's files one system call at a time, and programs that judge whether
work may be admitted: from commits, tests, ledgers and pages that change while
they are judged. This directory models those parts, checks them with TLC and
proves their central safety properties with TLAPS.

## 1. The system

### Components

| Component | Code (`src/scripts/`) | State it keeps | Here |
|---|---|---|---|
| Git-ref task store | `lib/task/task-store.mjs` | one JSON snapshot under `refs/krn/queue`: tasks, operations, intents, version; branches that operations move | `TaskState`, `TaskQueue`, `TaskStore` |
| Dependency search | `hasDependencyCycle` in the same file | none | `DependencyCycle` |
| Queue write guard | `lib/task/queue-write-lock.mjs` and its callers in `task-store.mjs` | a directory `held` with an owner record, one directory per recovered token, the ref `refs/krn/queue-activation-fence` | `QueueWriteLock` |
| Task command line | `lib/task/task-cli.mjs`, `lib/ticket/ticket-check.mjs` | what a worker remembers of the replies | the clients of `TaskStore`; `TaskCheck` |
| Legacy import | `lib/task/task-import.mjs` | none; reads tickets and claim locks | `QueueImport`; initial states of `TaskQueue`, one step of `QueueWriteLock`, `Importable` of `LegacyTicket` |
| Legacy tickets | `lib/ticket/ticket.mjs`, `ticket-reconcile.mjs` | Markdown tickets and claim lock files | `LegacyTicket` |
| Lanes | `lane/run-frontier.sh`, `run-ticket.sh`, `integrate.sh` | worktrees, branches, receipts, operation files | `LaneRun`, `Frontier` |
| Installation | `lib/install/install-release.mjs`, `install-inspect.mjs` | release directories, the link `current`, managed links, backups, override records | `InstallRelease`, `InstallCheck` |
| Seal ledger | `lib/install/install-seal.mjs` | a ledger file, committed or not | `SealLedger` |
| Atomic file write | `lib/support/write-atomic.mjs` | a file and a temporary one | `AtomicWrite`, `DurableFile` |
| Skills export | `lib/install/skills-export.mjs` | an exported directory and its backups | `SkillsExport` |
| Catalog configuration | `lib/catalog/*.mjs`, `lib/install/project-skill-composition.mjs` | one configuration file and its backups | `CatalogPlan`, `CatalogConfig` |
| Repository set-up | `.agents/skills/setup-repository-workflow/scripts/init-repository-workflow.mjs` | the files it scaffolds in a repository | `SetupWorkflow` |
| Change contract, gates | `lib/contract/change-contract*.mjs`, `gated-transition.mjs` | none; reads commits, runs tests | `ChangeContract`, `LessonRecall`, `GateCommand` |
| Lessons | `lib/lessons/*.mjs` | rows of a Markdown page, with the commits that prove them | `Lessons`, `LessonRecall` |
| Outcome capsules | `lib/state/*.mjs` | none of its own; directories and links that people and agents write | `OutcomeCapsule` |
| Mutation probe | `lib/audit/mutation-probe.mjs` | a copy of the tree | `MutationProbe` |
| Hooks, other audits, rules, harness, entry points | `hooks`, `lib/audit`, `lib/rules`, `harness`, `krn.mjs` | none | not modelled: section 8 |

### How they interact

Nobody holds a lock on the Git-ref queue. A command reads the snapshot, builds
the next one in memory, and asks Git to move `refs/krn/queue` from the object
it read to the new one. If that fails the command throws `StoreConflict`; only
`claimReady` tries again by itself. An *operation* ties the queue to a branch:
it is prepared for one claim generation and one intent revision, and later
either applied (one Git transaction moves the branch and the queue) or
completed (the branch is read back and verified in the transaction that moves
the queue).

A *claim* has an owner, a generation (`epoch`) and a lease. Whoever finds the
lease expired may take the claim over under the next generation; operations
that were prepared but not observed pass to the new owner.

The lane loop is a client of these commands. It picks a task, claims it, lets a
worker commit in a worktree of its own, merges that into a candidate, runs the
task's deciding check on the candidate, writes a receipt, and lands the candidate
with an operation, while people push to the target and edit the queue.

What the loop picks comes from `task next`, which checks the whole queue beside the
history of HEAD: one error about one task, and nothing is offered.

The legacy queue is made of Markdown files. Its writers, the migration that
replaces it by the Git-ref queue, and a restore exclude one another by the
guard. The guard outlives its owner when the owner is killed, and then an
operator recovers it by its token. Git processes the owner started can outlive
it too, which is what the fence ref is for. Under the guard the importer reads
every ticket and lock, and reads them all again: the guard does not keep editors
and old checkouts away.

A legacy claim is two files, a lock and a ticket, and the guard keeps writers
from one another but not from people, branches and death between the two.
Reconciliation closes what was merged by a worker that never came back.

An installer copies a release next to the earlier ones, moves the link `current`
to it, starts the installed program once, and then brings every managed link to
lead through `current`. Whatever it replaces it renames into a backup; if a step
fails it undoes the links from the last to the first and then `current`. Whether
a release is genuine is decided by a ledger of digests, which `install seal`
writes and the repository commits; apply asks it, and `install check` and `doctor`
ask it again later, from elsewhere.

The judgements share the repository with everyone: a change contract compares
what the commits of a range declare with test runs before and after them; a gate
runs a falsifier in the checkout for minutes; lessons are proved at commits that
may be amended away; a commit that meets a lesson's trigger has to answer for it,
while the same range may retire the lesson; capsules name runs by paths that may
be links.

### What is hard about it

* Every read is old by the time it is used; leases run out between two steps;
  branches are moved by people with plain Git.
* A worker can die after its claim was committed and before it learns of it. An
  operation outlives its claim and may land under another.
* Owner, lease, generation, status, gates and attempts are written field by
  field in nine commands, and only their combination means anything.
* A recoverer of the guard can sleep between its last check and its rename; a
  dead owner's Git helper can finish its transaction at any later time.
* A legacy claim dies with the lock written, or created and empty, and the
  ticket still ready; the next generation must follow both files.
* An installer dies between any two links, and its successor, a prune and a
  person who repoints `current` meet what it left. Exports, set-ups and
  configuration applies check first and write later, with nothing locked.
* Two plans edit one configuration; two functions judge one release; one run has
  two names: what one of them says the other may not.
* A range of commits can change the very check, lesson or script it is judged by.

### What makes each component correct

* Store: commands act as if one at a time; a claim generation has one owner; an
  effect happens once, for the claim and intent it was prepared for; lane tasks,
  gates and failure budgets cannot be bypassed by any sequence of commands; and no
  sequence of commands brings the queue to a state in which its check offers nothing.
* Guard: one living writer at a time; recovery takes nothing from the living and
  leaves nothing to the dead; the legacy queue is complete in the imported one.
* Cycle search: reports exactly the cycles.
* Tickets: a generation is issued once and leases do not overlap, whatever died
  between the two files; an import carries the last generation, and is of one moment;
  merged work is closed in the end, and nothing else is.
* Lanes: a receipt is true of the candidate; nothing leaves the target's history; what a
  task's own generation lands is proved by the recipe the task has then.
* Installation: `current` leads to a whole, verified and audited release; an apply
  that fails leaves everything as it was; nothing of KRN's is lost and nothing of
  others is touched; a healthy report is one the ledger attests.
* Ledger and writer: a reader finds the old ledger or the new one, never a part; no
  committed digest is replaced.
* Export: once there is one there always is one, and one that checks out is the commit's.
* Configuration: what is replaced is what the plan was made from, or it is in a backup;
  what a profile quarantines does not run, and two plans do not undo each other.
* Set-up: it takes no word that people wrote, and promises no queue that is not there.
* Contracts, gates, probe: what is accepted as red and then green was so, by the tests it
  names and not by those the range changed.
* Lessons: an anchor is a commit that proves its row; a range answers for each lesson it
  meets and withdraws none unseen.
* Capsules: a clean state accounts for every run once, by whatever name.

`PROJECT.json` lists each of these at its line, with the property that covers it.

## 2. The modules

### The queue

**`TaskState`** is the data: the shape of a snapshot and, for each command of
`openTaskStore`, an operator with the command's name that gives the set of
snapshots it may write for a snapshot it read. An empty set is a command that
throws or has nothing to write. All guards and assignments of a command are
there, and the modules below use the same operators.

**`TaskQueue`** is the abstract specification: a queue on which each command is
one atomic action, effect refs, and a clock. It is what a caller of the store
may rely on.

**`TaskStore`** is the store as its clients run it. `job[c]` is what client `c`
has read; `Begin...` actions are the first read of a command with its decision,
then come the reads of refs, and `CommitSnapshot`, `WriteSnapshotAndRef` and
`CommitSnapshotWithRefVerify` are the three Git transactions at the end.
`Conflict` is Git's refusal, `RetryClaimReady` the loop of `claimReady`, and
`Crash` kills a client. `told` is what the replies told a client of the
generations it was granted; its later commands name those, as the command line
requires. The oid of a snapshot is the hash of its content, so comparing oids is
comparing snapshots. `ImplementsTaskQueue == Queue!Spec` is the refinement:
variables of the same names are mapped to themselves, reads are stutters. A
*scenario* names a queue to start from, the commands the clients may call and a
bound on commits; it is chosen in the initial state.

**`Frontier`**, over **`LaneRun`**, is the lane loop on `TaskState`'s commands. A
commit is the work it contains and the recipes its tree passes; `lane[r]` is what
loop `r` has read. Its steps are those of the scripts: pick, claim, the base that is
pinned, the worker, the merge, the deciding check and its receipt, prepare, apply,
readback. The shell runs under `set -e`, so whatever refuses ends the loop and
leaves the task claimed. People push, merge lanes with `integrate.sh`, and call
`krn task` by hand. A command of the store is one step here, which is what
`ImplementsTaskQueue` allows.

**`TaskCheck`** is `checkTickets` on the selected queue, as `krn task check` and `krn
task next` call it: the view of a task (`Marks` has what the check reads of it beside the
snapshot, such as the Gate lines in their order), the rules for errors, `Offered`, and
around them the commands, of `TaskState`, that lead from one checked queue to the next.
`branches` are histories and `head` is the branch HEAD is on; people commit, rewrite
(`Squash`), merge by fast-forward and switch. A lane's work is a history in `candidates`,
which `PrepareLane`, `ApplyLane` and `CompleteLane` land on the effect ref, on HEAD's
branch or another. A done task names the effect of its operation, else the commit of its
proof or its ticket (`Integrated`). What HEAD left behind is remembered in `gone`, what was
landed elsewhere in `aside`, for the property alone.

**`DependencyCycle`** is `hasDependencyCycle` call by call: `search.calls` are the
calls in their loops, each with what is left of its dependency array, beside the
`path` and `visited` that all calls share. A step looks at one dependency
(`FindsCycle`, `PassesOver`, `GoesDeeper`) or returns (`GoesBack`). No module uses a
RECURSIVE operator, so that all can be proved about.

### The legacy queue

**`QueueWriteLock`** is the guard. `held` is the owner record in the guard
directory, `recoveries` the directory of each token (nothing, a receipt, or a
receipt and the moved guard), `fence` the fence ref. A writer's phases are
`Start`, `PrepareFence`, `Acquire`, `ReplaceFence`, then what its role does
(`Check`, `WriteTicket` or `ImportTickets`, `Activate`), then `Release` and
`Unlink`. `ReplaceFence`, `Activate` and `RevokeFence` are Git transactions and
do not need their parent alive. A recoverer goes from `BeginRecovery` over
`InspectOwner`, `JudgeOwner`, `RecordReceipt`, `ConfirmOwner`, `ReadFence` and
`RevokeFence` to `MoveGuard`, one action per access to the file system, the
process table or Git.

**`LegacyTicket`** is the Markdown queue. `proc` is the one writer that holds the
guard, with what it has read and the file operation it is at: `BeginClaim`, then
`CreateLock` for the exclusive creation of an empty lock, `WriteLock`,
`WriteClaim`; `BeginAttempt` or `BeginClose`, then `WriteTicket`;
`BeginReconcile`, then one `Scan...` per ticket file and `WriteRepair`. `Crash`
ends it between any two. Around it people edit status lines (`EditStatus`), the
lane records the branch it will integrate (`RecordOutbox`), and branches land,
move on and vanish (`MoveBranches`). `issued` and `granted` are histories of
leases. `Importable` and its two companions are the importer's judgement.

**`QueueImport`** is `prepareLegacyQueueImport` file by file: `discoverTicketFiles`,
`ReadTicket` and `ReadLock`, `addArchiveEntry` with its comparison against what was
read before, the second look at all paths and contents, and `importedState` with the
decisions (`Resolution`) an operator took on the report of an earlier preparation.
`task migrate` prepares once for the report and twice for the import. `moments` is
the history of the files' states.

### Programs that replace files

**`InstallRelease`** is `applyInstall`, `pruneReleases` and what may happen
between. `releases` are directories that are absent, whole or half removed;
`links` says what is at each managed destination: a link that leads through
`current`, one directly into a release, an old one into the source checkout, a
file of others, or nothing. `job.pc` walks through `Begin` (preflight), `Stage`,
`RecordOverride`, `Place`, `RewriteMetadata`, `Verify`, `replaceCurrent`, `Smoke`,
then per destination `RetireOrphan`, `LeaveLink` or `MoveOldLink` and `CreateLink`,
and `Succeed`; or `ReconcileFails`, then `UndoLink` and `UndoMove` per change,
`Undone`, `Unbind` and `Rebind`. `Crash` ends it anywhere. A prune decides in one
step (`BeginPrune`) and removes trees in two each (`PruneCrash`). `Repoint` is the
rollback by hand. What does not wait for a running apply is the constant
`Interference`.

**`DurableFile`** is what a writer of a file wants: the file is replaced as a whole,
and whatever happens there is the old or the new content, also on the disk. It is
the abstract specification of **`AtomicWrite`**, which is `writeAtomic` call by call:
open, pieces written short or wholly, sync, close, rename, sync of the directory, with
failures and power failures at each. **`SealLedger`** is `sealReleaseDigest` on top of
it: it reads the ledger, then HEAD's version, judges, and writes what it read with one
more entry. `ImplementsDurableFile` says that ledger and writer implement the abstract
file.

**`SkillsExport`** is `exportSkills` and `checkSkillsExport`: heads and cleanliness of
two checkouts, the copy file by file, the staging directory, the two renames and their
undoing. **`CatalogConfig`** is `applyCatalogConfigPlan`: three reads, each looking at
the file's identity before and after, the comparisons, the backup, the rename. Who
writes a file in place, or replaces it, are other programs. **`SetupWorkflow`** is the
scaffold: all checks, then the writes one by one; set-ups may die, be run again or run
at once, and people edit what they wrote.

### Judgements

**`CatalogPlan`** computes what a profile makes of a configuration, with the names of
the code's functions: `Resolved`, `DesiredRefused`, `Planned`, `Composed`.
**`InstallCheck`** has `verifyRelease`, `managedHookPolicy` and the report of
`inspectInstall` beside `targetSeal` and the checks of apply, while ledgers, checkouts,
links, release copies and requirements files change.

**`ChangeContract`** is `checkChangeContract` for a range of commits to one source, one
test file and one script: admission of a declared check, frozen observers (a test laid
over an older source), obligations at the head and before the commit. A commit of the
model is what its source makes pass and what its test asks. **`LessonRecall`** is the
rest of that function: which lessons a commit meets, which recall lines and waivers
answer for them, and what a range may do to the lessons page; with what `memory check`
says of retired rows. **`GateCommand`** is `checkGateCommand` in a checkout that is
edited and moved. **`MutationProbe`** tries its mutations one after the other in one
copy of the tree. **`Lessons`** has the commits of a history that may be amended, the
proofs of the rows, and re-anchoring. **`OutcomeCapsule`** is `inspectSpineState` over
capsules and runs whose names are directories or links, with `compileCapsule` and the
comparison of `resumeBrief`.

### Instances and proofs

**`MCTaskStore`, `MCQueueWriteLock`, `MCLegacyTicket`** give TLC its
instances. **`MCTaskQueue`** (`TaskQueue` and `TaskCheck`), **`MCFiles`** and
**`MCJudgements`** hold several components each, to say their questions in one run: a variable `subject`, chosen in the initial state, says
whose behaviour it is, and the others' variables stay put. Nothing is shared but the
run, except where modules are built on one another (`Frontier` on `TaskState`,
`SealLedger` on `AtomicWrite`).

**`TaskStateProofs`** has the lemmas about single commands of the store.
**`TaskQueueProofs`** (`TaskQueue` and `TaskCheck`), **`TaskStoreProofs`**,
**`QueueWriteLockProofs`**, **`LegacyTicketProofs`**, **`InstallReleaseProofs`**,
**`FilesProofs`** (`SealLedger`, `SkillsExport`, `CatalogConfig`, `SetupWorkflow`,
`QueueImport`, `OutcomeCapsule`) and **`JudgementsProofs`** (`GateCommand`,
`MutationProbe`, `InstallCheck`, `LessonRecall`, `ChangeContract`, `Frontier`,
`CatalogPlan`, `Lessons`, `DependencyCycle`) hold the theorems.

Operators named `X_Something` directly before an `X` are slips: `X` with one
plausible mistake. No specification uses them; `PROJECT.json` names, for each
property, the slips that violate it.

## 3. What the models leave out

### The queues

* *Text.* Titles, bodies, history, sessions, reasons and comments other than
  who commented. An edit of text is the flag `text` of `Edit`, because an edit
  that changes nothing writes nothing.
* *The check*: warnings, the scope and contract of the one task a check may name, and the
  Markdown files it reads without a queue. A history contains what was committed unless it
  was rewritten; nothing is reverted. Imported queues start without errors and without
  operations. A candidate is one commit on a branch, and branches meet by fast-forward
  only. HEAD is always on a branch. The value an effect ref had is kept in `onto`, because
  the queue's own record (`expected`) knows candidates only. There is no clock: a lease may
  be over whenever a takeover needs it, and is running whenever a lane does. An edit changes
  dependencies only; a task is a lane's from its import on.
* *Operation parameters.* The candidate identity, check result and effect object
  of an operation must agree before it is prepared; `Objects` are the candidates
  for which they do. An operation id that is in use is refused or answered
  without a write, so `PrepareOperation` requires an unused one.
* *Gates* are three kinds: human, external (ci, tracker, unknown), and
  retries-exhausted.
* *The guard's processes*: one process has one token, a PID is not used again,
  and all recoverers of a token give the same actor and reason. Processes on
  other hosts are never judged dead and therefore have no action.
* *The imported queue*: queue and selector refs are one pair, and it is not
  written any more in `QueueWriteLock`, which ends where the store begins. An
  import may be refused at any time. The archive file of a migration is left out.
* *Git and the file system*: a `rename` of a directory, an `update-ref`
  transaction and an object write are atomic, and refs are not rolled back.
  Power loss is outside for the queue, as docs/research/ticket-protocol.md:499-504
  says; `AtomicWrite` has it, because that code is written against it.
* *Legacy tickets*: the verdicts that let an attempt or a close be recorded
  (resolution, base, trailer, scope, contract) can only refuse: what begins here has
  passed them, and nothing has to begin. Sessions, the text format and the report
  of `ticket-check.mjs` are left out. A ticket file is replaced in one write.
* *The import, file by file*: `QueueImport` has no kinds of files (links,
  directories, files outside the queue) and of a ticket only what a decision looks
  at. The two snapshots are compared by content, so a file that gets back, between two
  looks, what it had held before is not seen to have moved. The two edits of a run are
  too few for that to matter, and the theorem excludes it by name (`NothingComesBack`). `restoreLegacyQueueArchive` is called only by tests.
* *The lane*: a command of the store is one step. The worker's session is a commit
  or none, on the base it was given; `publish.sh` and the write-back of capsules are
  left out. Times are abstract: a lease can run out in any step.

### The files

* *Installation*: applies do not overlap: docs/migration.md:118-120 asks the operator
  for that, and no lock in the code enforces it. A release is whole or not; none of the
  files of a half removed one is taken to be there. An undo step does not fail in turn. An
  override record that was torn is no record. Foreign files are the destinations' own
  occupants, not the other reasons to refuse (`AGENTS.override.md`, legacy hook
  entries), which stop before anything changes.
* *Seals*: two seals at once lose one another's digest (section 6); the next seal finds
  the loss if it was committed. That is why the run of `SealsKeepCommitted` speaks of
  committed digests.
* *Export*: a source file deleted between the look at the checkout and the copy goes
  unnoticed in the code as in the model, and `CheckedExportsReproduce` therefore speaks
  of exports that were checked. A marker whose commit the repository does not know is
  passed over by the check, in the model too; no export writes one. Foreign content placed at the destination
  between another export's two renames can be lost; `PlaceForeign` stays out of there.
* *Configuration*: the window between the last comparison and the rename stays open:
  `OnlyThePlannedReplaced` holds but for a file another apply renamed in it. `CatalogPlan`
  takes from the inventory that a project's own skills are in none of its lists and in no
  plugin's cache (`Cases`; `catalog-inventory-paths.mjs:185`). A project that marks a
  quarantined name is refused; the refusal of a profile that disables a companion of an admitted
  skill (`catalog-profile.mjs:163-168`) is left out. A copy that quarantine turned off for a detour in its path
  has no equivalent to run, and `OneCopyRuns` excepts it. The TOML reader and the
  inventory are left out.
* *Set-up*: `writeOwned` truncates in place, so a set-up that dies leaves a part; a part
  of `setup-empty.json` makes each rerun fail, which the model has. An edit between a
  set-up's read and its write is lost, and so is a foreign `.gitignore` placed after the
  check; `SetupKeepsFaith` speaks of what was there when the set-up looked.

### The judgements

* *Contracts*: the verdict is about a range and its two ends; a commit inside the range
  is judged as part of it. A check that is redefined in the range is a residual the
  repository documents (LT-3). Warnings, shell analysis, risk classes, manifests are left out.
* *Recall*: the command line makes recall advisory by default; the model has the obligation
  (`--recall-obligation`, and the default of the library). Only the page at the head is
  matched. Duplicate rows, spellings of a path, ancestry of a retirement, budgets and the
  structure of the page are left out. A retired row that keeps its trigger passes the check
  of changes and is caught only by `memory check`; a waiver naming a path two
  lessons share answers both. The model has both.
* *Lessons*: rows noted while a re-anchoring runs are lost, and an anchor that no commit
  has passes the check; the properties speak of anchors that are commits. Merges are left
  out.
* *Capsules*: warnings, wording, findings on the lessons page and base tokens are left out.
  A directory outside the run and capsule directories is taken to be ignored by Git.
  `compileCapsule` lists every run, also those another capsule owns; the
  model has that, and `CleanIsAccounted` is about what is saved in the end.
* *Installation reports*: a release vouches for itself only where there is no checkout or
  no committed ledger. A direct link into the current release also reads as installed.

## 4. What is checked

| Run | Instance | Shows |
|---|---|---|
| `task_queue` | 2 tasks, 2 workers, 2 operations, an empty queue or an imported one with a claimed task behind an external gate and one in review, or with a lane task; 7 commits, 2 ticks | `StoreChecks`, `OperationsFenced`, and as action properties `GenerationsNameOneOwner`, `LiveClaimsKept`, `EffectsExactlyOnce`, `StatusesEarned` |
| | `TaskCheck`, in behaviours of its own: 4 imported queues of up to 2 tasks (failing once behind `Gate: none` or an empty Gate line; done by the last commit; a lane task that needs proof), 2 generations, 2 operations, 2 branches of which one is the effect ref, 4 commits that may be squashed | `WithheldForCause` |
| `store_commands` | 2 clients with a name each, in five scenarios: 2 ready tasks, claims of every kind, failures and crashes (4 commits); a lane task of a worker that is gone, one operation, a branch anyone moves (5); a task only a proof closes and everything that can change it meanwhile (5); add, edit, ready, close, reopen, resume (3); a queue nobody has written (2) | `OneClientPerGeneration`, and `ImplementsTaskQueue`: queue and branch move together, the last read decides, no cycle and no lost update |
| `store_progress` | 2 fair clients, 2 ready tasks | `ReadyTasksGetClaimed` |
| `queue_guard` | a legacy writer, a migration and a restore, each may die at any step; 2 recoverers | `LiveWritersHoldGuard`, `OneQueueOfRecord` |
| `guard_recovery` | a legacy writer and a migration that may die, 2 fair recoverers of which one may die | `DeadGuardsRecovered` |
| `tickets` | 1 ticket, 2 workers, 1 crash, 1 hand edit, 2 ticks, a branch that may move on, fair reconciliation | `OneHolder`, `ImportKeepsTheClaim`, `RepairsJustified`, `MergedWorkIsClosed` |
| `files` | seven subjects, below | thirteen properties |
| `judgements` | nine subjects, below | ten properties |
| `stale_fence` | a migration and a restore that may die, 1 recoverer | violates `DeadGuardsRecovered`: section 6 |
| `install_moved` | as `files` | violates `ReleaseLinksAreReplaced` |
| `squashed_proof` | as `task_queue` | violates `SquashedProofsHold` |
| `override_sealed` | as `judgements` | violates `OverridesShow` |

The subjects of `files`:

| Subject | Instance | Properties |
|---|---|---|
| `InstallRelease` | 3 commits that retire a destination and move a file, one of them sealed; 3 hosts: never installed, an old direct link and a release behind `current`, an installed one with a foreign file; 2 applies, 1 prune | `ReferencedReleasesWhole`, `CurrentVerifies`, `FailedApplyRestores`, `DoneMeansInstalled`, `ForeignUntouched` |
| `SkillsExport` | 2 exports and 1 edit, 1 and 2, or none and 2; 2 files in a skill | `CheckedExportsReproduce`, `DirectoriesKept` |
| `SealLedger` on `AtomicWrite` | 2 seals: of one commit with two digests or of two commits; one after the other with power failures and 2 edits, or at once | `SealsKeepCommitted`, `ImplementsDurableFile` |
| `CatalogConfig` | 1 apply and 2 foreign writes, or 2 applies and 1 | `OnlyThePlannedReplaced` |
| `SetupWorkflow` | set-ups in turn with 2 changes by hand, or at once with 1 | `SetupKeepsFaith` |
| `QueueImport` | 2 ticket paths, 2 edits of tickets and locks | `ImportIsFaithful` |
| `OutcomeCapsule` | 2 names of capsules, 2 of runs, each a directory or a link; 2 edits by hand | `CleanIsAccounted` |

The subjects of `judgements`:

| Subject | Instance | Properties |
|---|---|---|
| `Frontier` on `TaskState` | 2 loops and 2 tasks that race, or 1 loop with takeover, reclaim, edits and pushes; 3 generations, 11 versions | `ReceiptsTrue`, `LandsAsClaimed` |
| `DependencyCycle` | all graphs of up to 4 tasks with up to 5 dependencies, 2 of one task, in any order, also of tasks that are not there | `SearchFindsCycles` |
| `CatalogPlan` | four families of configurations, profiles and project skills | `RunsAsWanted` |
| `ChangeContract` | ranges of up to 2 commits | `AcceptedIsSo` |
| `MutationProbe` | 3 mutations | `KillsAreTrue` |
| `GateCommand` | 2 commits, 2 moves of the checkout | `AdmittedAtFixedPoint` |
| `Lessons` | 3 commits that may be amended | `AnchorsProven` |
| `LessonRecall` | 2 lessons, 2 commits | `LessonsAnswered` |
| `InstallCheck` | 3 commits of the harness, 3 turns | `CheckIsTrue` |

What the properties say is in the comment before each. Type invariants, and what is
proved as a step towards another property (`ClaimsWellFormed`, `UnsealedAudited`,
`LinksKept`, `StoreInv`; of `OneHolder` its two parts), have theorems and no run.

Deadlock is not checked where a run is bounded by commits or where the system
really stops: writers end, clients need not call anything.

### Bounds, and why they suffice

* `MaxVersion` bounds commits. Seven allow add or import, claim, prepare,
  takeover, apply, reopen and one more on the way, which is the longest chain a
  property relates. The refinement runs need fewer: a conflict takes two commits,
  a lost reply and a takeover four. Eleven versions let a
  lane land its task with a takeover and edits in between.
* `MaxClock` with leases of one tick lets a lease expire, be renewed and be
  judged by an old time. `at` ranges over all earlier times.
* Two clients suffice for the store: a client sees of all others only the queue,
  the refs and the clock, so a second one stands for any number of them. Two
  tasks make dependencies and choices among ready tasks; two recoverers make
  the race for a receipt; a recoverer that never moves again is one that died.
* `MaxAttempts` is 2 here and 3 in the code, `ClaimAttempts` 2 instead of 8: the
  first, the last and one more are what the properties distinguish.
* In `TaskCheck` two generations let a parked task be resumed, claimed and fail the same
  way once more; four commits let one be squashed alone or with the next. Two branches
  let HEAD be on the effect ref or away from it when an operation lands; two operations let
  a task that was reopened be landed again.
* Four tasks and five dependencies contain the diamond, the cycle that is not reached
  from all roots, and both at once. The root is always the first task: names do not matter.
* Two workers and a crash make every pair of states of lock and ticket; a third
  worker would find what the second finds.
* Two applies: the first leaves what the second finds (a half written metadata
  file, links half changed, backups, override records), and the hosts start
  installed, so the second is a third. `Keep` is 1, so a prune removes all it may.
* Two exports, seals, set-ups or applies at once: each looks only at the files, so a
  second stands for all others. Two changes by hand make the one before the last look
  and the one after it; a file that is changed and changed back takes both.
* Ranges of two commits have a commit that is neither base nor head, and the order of a
  lesson's change and of the change that meets it. Three commits of a history have one that
  is amended away below one that stays.
* Symmetry is used only in runs without liveness, over operations, recoverers or
  workers that no constant tells apart.

### Fairness

`TaskStore!FairSpec`: a worker that has been told of no claim asks with `task claim
--ready`, and asks again when the command failed; a command that has begun is run
to its end. The first is assumed of the callers, whose contention the retries of
`claimReady` are for (`run-frontier.sh` itself claims by identifier and stops at
a refusal). Workers with a claim need do nothing, and no release or failure is
ever forced.

`QueueWriteLock!FairSpec`: living processes run on. Operators keep retrying a
recovery that failed, which is what the error messages ask them to do; the
retry is enabled again and again rather than continuously, because other
recoverers interfere, hence strong fairness on `BeginRecovery`. A Git process
whose parent died owes nothing: it may finish or not.

`LegacyTicket!FairSpec`: time passes, a writer that has begun and does not die
goes on, and reconciliation is called again and again, as a caller that owns the
recovery does before each frontier. Claims interrupt it (the guard is one), hence
strong fairness on `BeginReconcile`. Nobody is obliged to claim, close or merge.

The lane, the installers and the judgements have no fairness: a lane stops at whatever
refuses, and people decide whether anything is run again.

## 5. What is proved

All theorems hold for every value of the constants that satisfies the named
assumptions of the modules (the `ASSUME`s, which TLC evaluates for each instance),
with no bound on tasks, workers, clients, operations, tickets, commits, destinations,
exports, ranges, histories, profiles or clocks; the bounds on commits of the queue, clocks, crashes, edits,
applies and prunes are arbitrary naturals. Almost all of them are invariants, or action
properties that follow from one, by `Init => Inv` and `Inv /\ [Next]_vars => Inv'`.

### The queues

* `TaskQueueProofs!TypeCorrect`: `Spec => []TypeOK`. One lemma per command says
  that what it writes into a well-typed snapshot is well typed.
* `ClaimsAreWellFormed`, `GenerationsOwned`, `LiveClaimsAreKept`. `ClaimsWellFormed` is
  not inductive by itself: a command on an id that is not in use could start from junk,
  so `ClaimInv == TypeOK /\ ClaimsWellFormed /\ UnusedIds`. One lemma, `ClaimStep`,
  says what any command may do to one task, and the three theorems follow from it.
  That a lease judged by an old time is not taken from a living claim follows
  because times are not later than the clock and expiry is monotonic.
* `OperationsAreFenced` and `EffectsAreExactlyOnce`. The fence needs `ClaimInv`: a new
  generation is larger than every epoch an operation carries, so it can only be shared
  by the takeover that wrote it.
* `QueuesAreSound`, from `ClaimInv /\ StoreChecks`. Cycles are the work: a set of tasks
  each of which depends on one in the set exists after an edit only if it existed before
  or goes through the task that was edited, and that is what the edit looks for. A new
  task closes none because nothing depends on an id that is not in use.
* `StatusesAreEarned`, from `ClaimInv` and `Earned`, what a command may do to a status.
* `OffersWithheldForCause` (`TaskCheck`), from `OfferInv`: the board is sound as above;
  each done task that needs proof names a commit HEAD has or had, or one an operation
  landed where HEAD was not (`ProofKept`), and what an operation lands is there (`Built`);
  whoever is blocked shows a gate, because the
  failure that blocks writes one; and no signature is counted more often than the
  attempts of its task (`FailuresCounted`), so that whoever repeats one `MaxAttempts`
  times was parked by the same failure.
* `TaskStoreProofs!StoreImplementsQueue`: every step of every client is a step of
  `TaskQueue` or a stutter. `StoreInv` says of a client between its read and its
  compare-and-swap that what it will write is a command on the snapshot it read
  (`JobsAreSound`), judged at a time not after the clock. The swap succeeds only on that
  snapshot, so the command acts on the queue as it is; of an operation, branch and queue
  move in the one step that the abstract `Apply` takes.
* `GenerationsToldOnce`, from `GrantInv`: a client is told a generation only by the commit
  that grants it.
* `QueueWriteLockProofs!GuardExcludes`: `Spec => []LiveWritersHoldGuard`. The
  invariant is `Shape /\ LiveWritersHoldGuard /\ RecoverersDecideRightly`. The
  last part carries the argument: a recoverer past its second look either still
  faces the guard of the dead owner it judged, or that owner's tombstone is in
  place, so its rename moves nothing. It holds because the dead stay dead, only
  the owner or a recoverer of its token ends a guard, and tombstones stay.
* `QueueOfRecordIsOne`, from `QueueInv`. Git processes outlive their writers, so
  excluding living writers is not enough. `OrderInv` dates the fences: one that is there
  or was read tells how far its writer had come (`FencesAreDated`), nobody past the guard
  had read a fence of the present holder (`HoldersCameLater`), and a guard is freed only
  once its fence is revoked (`RevokedBeforeFreed`). So what a writer that still holds the
  guard has checked is still so (`ChecksHold`), and of one that lost it the fence is gone
  that its transaction expects.
* `LegacyTicketProofs`: `TypeCorrect`, `EpochsAreIssuedOnce`, `LeasesAreDisjoint`, and both
  as one, `TicketsHaveOneHolder`.
  The invariant `ClaimInv` says that the lease a writer has decided on follows every
  lease issued (`PendingFollows`), that the lock holds the last one
  (`LockHoldsLast`), and that they were issued in order of generation and time
  (`IssuedInOrder`). It needs no fact about ticket files, which is why edits by
  hand cannot break it: the lock is written before the ticket.
* `ImportsKeepTheClaim`, from `ClaimInv` and that no lease starts in the future: the
  importer demands that lock and ticket agree, and the lock holds the last lease.
* `RepairsAreJustified`, from `GrantInv`, which is about the tickets: one holds the last
  lease that was granted (`TicketHoldsLast`), because whoever writes it writes back the
  claim it read (`WritesKeepClaim`); so the one lease a repair looks at stands for all
  (`RepairIsDue`).
* `FilesProofs!ImportsAreFaithful`: `ImportIsFaithful` where no file gets back, between two
  looks, what it had held before (`NothingComesBack`); with that the comparisons by
  content are comparisons by moment. `ImportInv` keeps, for each stage of the reading,
  that what has been read and not yet found changed was there together.

### The files

* `InstallReleaseProofs`, all properties of `InstallRelease`:
  * `TypeCorrect`. The work is in the entries of `job.changed`, whose destinations
    never come up again.
  * `SelectedIsAudited`, from `AuditInv`: each release that is there, the previous
    one and the staged one are sealed or signed for, because the record comes first.
  * `PruneSparesReferenced`, from `WholeInv`, where a prune waits for an apply to
    end: nothing a link, an undo entry or `current` leads to is about to be removed.
    Without that condition it is false: a prune that decides while an apply runs can
    take away the release the undo goes back to. README.md:197 of the repository
    says of `install prune` that it never removes a referenced release; the code
    has no lock that would make it so, and the model takes the operator's word.
  * `SelectedVerifies`, from both and `VerifyInv`: only the metadata of a release
    whose seal is overridden is ever written in place.
  * `NoLinkIsLost`, with no condition, from `KeptInv`: the destination of every
    entry has its backup, and no destination has two entries, so undoing one cannot
    use up another's.
  * `ForeignFilesStay`, where others wait for an apply to end, from `ForeignInv`:
    what preflight has seen covers everything that is changed later.
  * `FailureChangesNothing`, where nothing runs beside an apply, from `RestoreInv`:
    a destination is as it was found, or has an entry with what was found, and is
    empty while its link is not made. With `changed` empty that is the claim.
  * `SuccessMeansInstalled`, with no condition, from `DoneInv`.
* `SealsImplementDurableFile`: `AtomicWrite` under a ledger implements `DurableFile`, and
  `CommittedEntriesKept`, both from `SealInv`: a temporary file that may be renamed is
  written whole and synced (`TempsAreSynced`), is what its sealer read with its seal in it
  (`ReadTakesSeal`), and has each entry that was committed at the comparison
  (`TempsKeepAnchor`).
* `ExportsNeverVanish`, from `ExportInv`: what is to be replaced, or was, is an export or
  nothing (`OnlyExportsMoved`), and the backup that a finished replacement removes is
  not the last export there is (`BackupsAreSpare`).
* `CheckedExportsAreTrue`, from `ReproduceInv == ExportInv /\ MarkersTrue`. A marker
  names a commit of the source, and its digests are of upstream files that were compared
  with the pinned blobs, in an export, in a backup and, once it is marked, in the staging
  directory: renames make one of the other, and commits are only added. What an edit by
  hand does to the files the digests find; the source's own files the check compares.
* `AppliesReplaceWhatTheyPlanned`, from `ConfigInv`, which follows one apply: its reads
  are of one file (`OneFileSeen`), its backup has the planned text (`BackedUp`), and what
  it read last is still what that file holds (`LastReadHolds`), and the file is still at the
  path or another apply's is (`LastLookHolds`), but for the window the model leaves out.
* `SetupsKeepFaith`, from `SetupInv`: the queue comes before the block that names it
  (`BlockInv`), and whoever holds a text holds all words that were in the file
  (`WordsInv`), where one set-up runs at a time.
* `CleanAccounts`, from `CapsuleTypeOK`: names, links and texts change under the
  inspection as they like, so the proof is that its errors leave nothing to be found. Two
  names are of one run if they resolve alike, and the rules for the owner, for the
  pointers and for the runs nobody owes have to agree on that.

### The judgements

* `GatesAdmitFixedPoints`, from `GateInv`: from the run in the worktree on, the base is
  red (`BaseIsRed`), and a run in the checkout tells of the fixed point if the checkout is
  still there or has come back; else the second look will find it away (`HeadPassed`).
* `KillsAreJustified`, from `ProbeInv`: the copy holds at most the current mutation
  (`CopyIsWhole`), and a baseline was taken in the unchanged tree, before the mutation
  was written (`BaselinesHold`, `BaselineFirst`).
* `ReportsAreTrue`, from `CheckInv`: what an apply took for sealed reads as installed
  through every later edit and seal (`SealedApplyIsHealthy`), because the report asks the
  ledger the same but for the ancestry of the key.
* `AcceptedRangesAnswer`, from `RecallInv`: a range whose commits leave the page alone
  hands it on (`PageHandedOn`), for any length.
* `AcceptedRangesAreSo`, from `ContractInv`: what the commits of a range say of a test is
  of its files before them (`FilesTell`, `TestHandedOn`), and the verdict was computed
  from the range as it stands (`JudgedSo`).
* `ReceiptsAreTrue` and `LoopsLandAsClaimed`, from `FrontierInv`. A receipt is about the
  recipe a task had when it was written, and edits change recipes; but no operation is
  ahead of the generation of its task, and one of the generation that holds the task
  carries the recipe the task has (`ReceiptsCurrent`), because only an open or ready task
  can be edited and its next claim is a new generation. A loop at its merge has a
  candidate that passes the recipe and contains its target (`LanesProven`).

* `ProfilesRunAsWanted`: one application of a profile is two plans, the second on the
  result of the first, so what the first settles has to survive the second. The second
  sets only what is the project's own or the composition's, which the first leaves; a
  project's copy goes off only for a global skill that the first has on; and the
  configuration that comes out, planned once more, is planned unchanged.
* `AnchorsAreProven`, from `LessonInv`: what a re-anchoring is about to write into a row
  was, when it looked, the newest change of the row's test or gates on the line of HEAD,
  and the case passes there (`RowsSettled`); the gates it took are those of that HEAD
  (`GatesOfHead`). HEAD may move on while it works, but the HEAD it started from comes
  back for nobody. The line of a commit is a recursive function of the history; that it
  exists, and is the commit and its parent's line, follows from the sets of commits that
  are closed under parents (`LineExists`, `LineUnfolds`), each of them by a least
  counterexample.
* `SearchIsRight`, from `CycleInv`: the path is the calls under way, each made for a
  dependency of the one before (`PathIsCalls`); a call has only looked at what is
  visited, not there, or what it waits for (`LookedAt`); and no set that can be walked
  for ever meets what is visited (`VisitedIsClear`). So a dependency on the path closes a
  cycle of calls, and the root is visited only if there is none. `HasDependencyCycle`,
  which the queue's theorems are about, is thereby what the code computes.

### Only model-checked

* Liveness: `ReadyTasksGetClaimed`, `DeadGuardsRecovered`, `MergedWorkIsClosed`. The
  prover has no rule for fairness and `ENABLED`. That the search for cycles ends is in
  the same case; its verdict, when there is one, is proved.

## 6. Findings

### A guard that cannot be recovered

A fenced writer records the fence it will replace *before* it takes the guard
(`queue-write-lock.mjs:146`, the rename is at `:149`). If another fenced writer
comes and goes between the two, the recorded fence is stale. A living writer
notices (`:157`). But if it dies holding the guard before it gets there, no
recovery ever succeeds: `revokeActivationFence` (`:41`) accepts only the owner's
fence or the recorded one, the current fence is neither, and with the guard held
nobody will change it. `docs/research/ticket-protocol.md:477-480` promises that
`store unlock` recovers the token of an owner whose process is gone. Run
`stale_fence` shows the behaviour. With one fenced writer, or with writers that
do not overlap, recovery always succeeds (`guard_recovery`).

### A moved file is a foreign collision

If a new commit's manifest gives a managed destination another file of the
release, preflight refuses the link it finds there, which leads through `current`
into the installed and verified release, as a foreign collision:
`isPriorReleasePath` compares the old path with the new one
(`install-inspect.mjs:387`), and `install-release.mjs:271-272` throws. The table in
docs/migration.md:17 says that a link into a prior release is moved to a backup and
replaced. Run `install_moved` shows it. In `files` such an apply ends
refused, with nothing changed.

### A squashed proof stops the queue

A done task that needs proof names its commit and its patch id. When the commit is not an
ancestor of HEAD, `anchorErrors` asks whether the patch id is in the range
(`ticket-check.mjs:149-150`). `rangePatchIds` looks for ids in the output of `git log -p`
(`ticket-abi.mjs:199-200`), which has no line that begins with one; only the diff of a
whole range goes through `git patch-id` (`:201-205`), and only with a base, which `task
next` never gives. So after a squash merge, an amend or a rebase of that commit the check
reports `evidence-anchor-missing`, and since any error empties the frontier
(`ticket-check.mjs:333`), `task next` offers no task at all and the lane loop ends. The
comment at `ticket-abi.mjs:170-171` says that the commit may vanish in a squash merge but
the patch id survives as the same content on the base. Run `squashed_proof` shows it.

In `LegacyTicket` the same function decides a repair: `MoveBranches` lets a squashed lane
be recognised while nothing lies behind it, and hides it with the next commit.

### An override that looks sealed

An apply asks for the seal of a release with the checkout it comes from, and accepts
only keys of ancestors; without one it needs an override. `inspectInstall` asks without
the checkout (`install-inspect.mjs:673-677`), and then any key with the same digest
seals the release (`:291-296`). When the ledger holds the digest under an unrelated
commit (a revert, a cherry-pick, another branch with the same tree), a release that
was admitted by an override reads as plainly installed. `docs/research/lab-tests.md:115`
(LT-67) says that `install check` surfaces the override as its own status, and
`test/install/seal-override-audit.test.mjs:15-16` that it must not be reported as a plain
install. Run `override_sealed` shows it.

### Met on the way

These have no run of their own.

* `reconcileTickets` goes through the ticket files in path order and throws at the
  first whose recorded sha disagrees with its branch (`ticket-reconcile.mjs:56-58`) or
  can no longer be verified (`:79-81`). The tickets after it are not looked at, on this
  call and on each later one, though `:24-26` says that a claimed ticket whose recorded
  branch is merged and whose lease is over gets closed.
* Of two seals of different commits at once, the second writes the ledger it had read
  (`install-seal.mjs:54`, `:73-75`) and drops the digest the first one reported as sealed.
  The comment at `:48-51` calls the ledger append-only. A digest that was committed is not
  lost without notice: the next seal compares with HEAD (`SealsKeepCommitted`).
* A task whose failures repeat one signature as often as attempts are allowed is an error
  of the check (`ticket-check.mjs:314-321`), whatever became of it later: resumed and
  closed, it still empties the frontier, and no command takes an attempt back.
* An imported lane task whose operation lands on an effect ref that HEAD is not on gets
  `integrated=` with the candidate as its evidence (`ticket.mjs:123-131`), which the check
  looks for in HEAD's history (`ticket-check.mjs:248-250`). Until HEAD has that commit the
  check reports `evidence-anchor-missing` and `task next` offers nothing, though every
  command was in order and no history was rewritten. `run-frontier.sh:44` takes HEAD's
  branch as the effect ref; the command line takes any. `WithheldForCause` names this
  cause.
* `resumeBrief` compares resolved pointers with the runs' own names. A run whose only name
  is a link to a directory elsewhere in the repository is shown as missing, though
  `state check` finds nothing (against `test/state/state-brief.test.mjs:221`).

## 7. Plan

Done, in this order: the queue, the guard, the legacy tickets, the installation, their
proof modules; then the ledger and its writer, the export, the configuration, the
set-up, the import, the lane, the judgements, and the check of the queue; then the
theorems of all of these.

Left for models: `publish.sh` and the write-back of capsules, once there is a remote in
`Frontier`; the hosts' side of recall delivery.

Every safety and action property that a run checks is a theorem now. What is left to
prove is liveness, for a prover that has it.

## 8. Not modelled, and why

* *Command guard hooks* recognise shell commands in strings: stateless grammars.
* *Audits other than the mutation probe, rules, validation* read the files of one
  checkout once and report.
* *The evaluation harness* runs experiments in directories it throws away.
* *Entry points and the kernel* dispatch and wrap; the models above state what Git does
  for the callers of those wrappers.
* *The catalog's TOML reader and inventory* turn text and directories into the tables
  `CatalogPlan` starts from; its usage report counts.
* *`capsule-writeback.py`, the delivery of recall, the second-opinion runner* drive
  other programs, whose behaviour is not in the repository.
* *Skills* are prose for agents, but for `init-repository-workflow.mjs`.

## 9. Running it

    tlc -workers 2 -config MCTaskQueue.cfg MCTaskQueue.tla
    tlapm TaskQueueProofs.tla

Each run of section 4 names its module and configuration in `PROJECT.json`.
