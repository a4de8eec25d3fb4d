# BrotherMode, formally

TLA+ modules, TLC configurations and TLAPS proofs for BrotherMode, the Claude
Code plugin whose Python implementation lives under `src/tools`, `src/scripts`,
`src/mcp` and `src/brotherme`. The project models the parts that keep several
sessions from stepping on each other and the parts that act in a founder's name:
the work-record registry with the rules for paths, the hooks that keep to its
fences, the thread commands and provisional records built on it, the generated
`STATE.md`, the Full-Auto controller with its run store, the autonomy contract,
the learned rules and their index, a project's tasks and reminders with their
purge, the opening of the store and the snapshots of the worktree. Every
definition is translated from the source; `PROJECT.json` maps each one to its
lines.

## 1. The system

One SQLite file, `.brothermode/store.sqlite3`, is the only authority. Every
mutation of it runs in a `BEGIN IMMEDIATE` transaction (`Store._transaction`),
so a store operation is atomic and the store serialises its writers. Everything
around it is not atomic: short-lived command-line processes and hooks read the
store, let go of it and come back; plain files (`thread-mode.json`, `STATE.md`,
a token file, event files, `inbox.md`), git references and the store's own file
are read and replaced without a common lock.

| Component | State | Operations | Hard behaviour | What makes it correct |
|---|---|---|---|---|
| Work records (`bm_store.py`) | records, claims, digests, decisions, directives, handovers, transitions | claim, reclaim, park, resume, complete, adopt, checkpoint, decide, send, acknowledge | callers act on stale reads; parked fences are claimed by others; a retry meets its own earlier handover | single writer, one active life per name, the cap, no lost update, no lost and no duplicate handover |
| Path rules (`bm_store.py`) | none | paths_overlap, path_within_allowed | wildcards, case and Unicode spellings, files and directories | no conflict is missed; a grant covers what its fence covers |
| Fence hook (`bm_fence_hook.py`), Bash audit (`bm_bash_audit.py`) | session token, snapshots, alerts | decide, pre, post, session-label | the check precedes the write; two hooks create one token; a kill between two alerts | no edit crosses a fence it could see; no breach is forgotten |
| Thread mode (`bm_threads.py`) | `thread-mode.json`, thread directories | on, off (drain), start, park, resume, complete, adopt, recommend | mode file read, then many transactions, then written back | mode and registry agree; nothing is drained without its handover |
| Provisional records (`bm_store.py`) | ledger of provisional lives, learning applications | apply, create, promote, cancel | checks outside the transaction that acts on them | a cancelled record is over; a link never moves |
| State view (`bm_store.py`) | `STATE.md`, its backups | write_state_view, verify | render, read, back up and replace are separate unlocked steps | the view shows the store; human text survives |
| Run store and controller (`bm_store.py`, `bm_controller.py`) | runs, units, dispatches, lanes | plan, step, record-result, stop, pause, resume, adopt, complete | each command is many transactions, a kill or another command may come between any two | a unit is done on a check of what it is now; its fence outlives its attempt; every attempt is settled |
| Contract, spend and breaker (`bm_store.py`, `bm_autonomy.py`) | chain of revisions, spend, alerts of the breaker | sign, amend, pause, resume, stop, revoke, record_spend, gate_check | the gate reads contract and spend apart | authority is what was signed; a verdict is one of a single revision |
| Learning, notes (`bm_store.py`, `bm_learn.py`) | candidates, rules, receipts, alerts | capture, approve, edit, supersede, deprecate, forget, resolve, confirm, reject, merge | every command reads first and writes later; one receipt shown to two commands | no rule changes without the answer to that very question |
| Rule index (`bm_store.py`) | full-text table | open, fill, query, compare, rebuild | processes without the index edit rules; autocommit | what it answers is current |
| Projects, tasks, reviews, Sentinel, purge (`bm_store.py`, `bm_project.py`, `bm_sentinel.py`) | projects, tasks, dependencies, evidence, receipts, memories, reminders | create, move, review, deliver, add, check, purge | deliver and check read in several steps; foreign keys under the purge | a purge erases everything; what was delivered stands; reminders cool down |
| Store open (`bm_store.py`) | the file, its version, copies, incidents | init, open, read, migrate, quarantine | several processes create, migrate or quarantine at once | no whole store is moved aside; a version has its tables |
| Autosave (`bm_autosave.py`) | lock, snapshot refs, `latest`, event files | snapshot, clean check, prune, recover | a stale lock taken from a sleeper; a kill between reference and pointer | what was saved is found, what was discarded is not offered |
| Reporting, documentation, telemetry, installers, command lines | files and views | many | none | reading and printing |

Components interact through the store: `bm_threads` and the CLI call the record
operations; the fence hook reads the active claims; the controller holds a fence
as a work record, parks it when a run ends, and asks the contract's gate before
it dispatches; `STATE.md` is rendered from the records and the undelivered
handovers after every command; a purge deletes the rows that all other commands
write.

## 2. The modules

| Module | Models | Composes |
|---|---|---|
| `FenceOwnership` | what the registry promises about writers: a table of exclusive leases | |
| `RecordStore`, `RecordStoreProofs` | the work-record registry, and theorems | refines `FenceOwnership` |
| `PathRules` | `paths_overlap`, `path_within_allowed` | discharges the symmetry `RecordStore` assumes of `Overlap` |
| `FenceGuard` | the hooks before an edit and around a shell command | |
| `ThreadMode`, `ThreadModeProofs` | `on`, `off`, `start` and the other thread commands, and theorems | extends `RecordStore` |
| `Provisional`, `ProvisionalProofs` | apply, create, promote, cancel, and theorems | extends `RecordStore` |
| `StateView` | the redraw of `STATE.md` | |
| `RunStore` | the tables of a controller run, one operator per store method | |
| `Controller`, `ControllerProofs`, `ControllerFenceProofs` | plan, step, record-result, stop and the founder, as programs over it, and theorems | extends `RunStore` |
| `Autonomy` | the contract, the spend, the breaker, the gate | |
| `Learning` | candidates, rules, receipts and alerts | |
| `RuleIndex` | the full-text index over the rules | |
| `ConsentProofs` | theorems | about `Learning`, `RuleIndex` and `Autonomy` |
| `Projects`, `ProjectsProofs` | tasks, evidence, reviews, deliveries, reminders, purge, and theorems | |
| `StoreOpen` | creating, opening, migrating and quarantining the store's file | |
| `Autosave` | the snapshots of a worktree | |
| `FilesProofs` | theorems | about `PathRules`, `StoreOpen`, `Autosave`, `StateView` and `FenceGuard` |

Each has a module `MC<name>` with the values of a small instance. Four modules
put small instances side by side for one run: `MCFences`, `MCLedger`,
`MCConsent` and `MCFiles`. Their variable `part`, chosen at the start and never
changed, says which of the parts a behaviour is about; the others stay as they
are. A definition introduced by "Mutant:" is a plausible bug in the definition
that follows it: each property is also run against one of these, and must then
fail.

**RecordStore.** `records` is the tables records, claims, digests and decisions
joined by lifecycle; `handovers`, `directives` and `trail` are the tables of
those names (the last of each lifecycle). A store method is one action, since
`_transaction` opens with `BEGIN IMMEDIATE`; a refusal raises inside and rolls
back, hence changes nothing. `seen[c]` is the `Record` a command holds between
its read and its change. `ClaimNew` and `Reclaim` are the two ways through
`Store.claim`, `Transition` is `Store.transition` with its ownership guard,
admission check and handover; `Checkpoint`, `Decide`, `Send` and `Acknowledge`
are the methods so called. `owed` is a history variable: the handover texts a
founder has been promised and has not acknowledged.

**PathRules.** A canonical path is its sequence of segments; what a wildcard
matches, how a name folds and which names carry an extension are constants, so
the theorems hold for all of them. `canonicalize_path`, which asks the file
system, is not modelled. Its "state" is a pair of declared paths and a file, all
of them initial: TLC evaluates the rules at every triple.

**FenceGuard.** `tooluse[c]` is one tool call of a session with its hooks. An edit
reads the fences (`AskEdit`, `Unfenced`), finds out who it is (`Identify`;
`CreateToken` with an exclusive create and `FillToken`, two steps that a second call
may read between), is allowed or refused, and `Land` is the tool's own write, later. A
shell command removes snapshots that are a day old (`Reap`), has its fenced files
listed and hashed (`PreRows`, `PreSnapshot`), runs (`Shell`), and is compared
afterwards (`PostLoad`, `CompareFiles`, which passes over a file it cannot read), one
alert at a time (`Tell`), before the snapshot is removed (`Forget`). Fences move at
any time (`MoveFence`), a hook dies at any time (`Die`). `slips` is a history
variable: what shell commands wrote across a fence; `reaped` and `unread` are the two
ways the code gives such a breach up.

**ThreadMode.** `cmd[k]` is the program counter and the locals of an `on`, `off`
or `start` under way. `off` lists the records (`OffList`), fetches them
(`OffFetch`), parks them one transaction at a time at the version it fetched
(`Drain`, or `DrainRefused`) and writes the mode file last (`OffWrite`), or
leaves it on (`OffIncomplete`). Every other thread command of `RecordStore` may
come in between, and `Kill` may end a command anywhere.

**Provisional.** `ledger` is provisional_records, `applications` is
learning_applications. Applying is one transaction. Promote and cancel are not:
`CheckLedger`, then `Promote`, or `CancelLook`, `CancelComplete` and
`CancelMark`; `GiveUp` is a refusal or a kill in between.

**StateView.** A redraw is `ReadRows`, `ReadHandovers`, `ReadFile`, `SaveOld`,
`ListBackups`, `Prune`, `Replace`, with `Fail` possible at each. `ReadFile` may
also fail on a file that is there: the code takes it for empty, so the redraw goes
straight to `Replace`, with no backup; `unseen` records who did that. People type
outside and (wrongly) inside the markers, damage them and repair them. The store
is the number of its commits. `EditsRace` says whether people also save while a
redraw is under way.

**RunStore and Controller.** `run`, `driver`, `units` and `dispatches` are the
columns the controller decides by; a definition hash is a unit's dependencies
with a version of all the rest. A command under way, `p[c]`, is its *agenda*: the
list of what it has still to do. The head is a transaction of `RunStore`
(`Transaction`, `ClaimUnitFence`, `Claim`, `Dispatch`, `Upsert`), or a decision
that reads the store and puts more on the agenda (`Look`, `Judging`,
`Stepping`, ...), each named for the method or the branch it stands for. So two
commands interleave between any two transactions, a kill drops the agenda
(`Kill`), and a refusal of the store, an exception in the code, drops it too
(`Do`). The locals of a command are the arguments of what is on its agenda: what
was read early and is used late is visible as such. The worker is that of the
shipped command line: it prints a brief, and the answer comes with a later
`record-result`. A check of a unit passes or not, a rollback works or not.

**Autonomy.** `chain` is the revisions of one contract, oldest first: every
change appends one (`SignContract`, which also amends, and `SetContractState`).
`RecordSpend` adds to the meters and raises the alerts of the breaker, once at
the soft and once at the hard line. `gate_check` is its two reads
(`GateReadContract`, `GateReadSpend`) with anything in between.

**Learning.** Every command has a half that reads (`Check`, or `CheckUnasked`
for those that need no answer) and a half that writes all of its rows in one
transaction (`Approve`, `Edit`, `ChangeState`, `Resolve`, `ConfirmUse`, `Reject`,
`MergeInto`); `call[k]` is what it took from the one to the other. A receipt is
the answer to one question (`Mint`), spent once, and may expire (`Expire`). A
fingerprint is the question it hashes.

**RuleIndex.** `current` is the version of each rule, `index` the rows of the
text table with their count (it has no key), `proc[p]` what a process of the
store is doing. Opening, emptying, reading and inserting are separate statements
in autocommit (`OpenLook`, `OpenCreate`, `FillEmpty`, `FillRead`, `FillInsert`),
and so are a query's reading of the rules, its comparison and its match.

**Projects.** `base` is the rows, one record, with the foreign keys that SQLite
enforces statement by statement: `Purging(d, p)` is the rows after each statement
of `purge_project`, in their order, `Purged(d, p)` the rows after the last one,
and `MayPurge` says that no key forbids one.
`deliver` reads the tasks, the evidence and the packet one after another
(`DeliverTasks`, `DeliverHoles`, `DeliverPacket`); the sentinel's check reads
its pool, selects, marks and records (`CheckPool`, `CheckSelect`, `CheckMark`,
`CheckRecord`). `Kill` may end either. `deliveries` is what the founder was told
as "all closed", which goes by the count of open tasks and not by `--partial`.
The hole of a project without a goal is left out: the model delivers more often
than the code.

**StoreOpen.** `disk[f]` is the tables a file has, the version it names and
whether it is damaged; `atPath` is which file is at the store's path. An opener
looks (`Look`), connects, which creates a file (`Connect`), builds the schema
(`Build`) or reads tables and version (`ReadTables`, `ReadVersion`), copies
(`Backup`) and migrates (`Migrate`); what it takes for damage it moves
(`MakeDir`, `Move`, `Report`). `Knows[p]` is the age of its program.

**Autosave.** An attempt is one hook process: the lock (`Acquire`, `SeeStale`,
`RemoveStale`), the event (`BeginAttempt`), the tree (`CaptureTree`), the clean
path (`ClearRead`, `ClearMark`, `ClearDelete`) or the snapshot (`MakeRef`,
`ReadLatest`, `Publish`), pruning, the read-back and the event's end. It may be
killed anywhere, and may sleep for longer than a lock may be old. Where the code
goes on after a write or a git step that failed, so does the model (`Fault`): the
event that cannot be opened or closed (`ticket` says whether an attempt has one),
the pointer that is not read, published or deleted, the mark of a clean check that
is not written, the snapshot that is not dropped. `lapsed` says that the last
pointer or mark to be written is one whose write failed. A failure the code checks
is `Abort`.

## 3. The runs

Expected to pass:

| Run | Parts and instance | What it shows |
|---|---|---|
| `records_fences` | registry: 2 lifecycles, 2 names, 1 session and none, 2 overlapping paths, cap 1 | `SingleWriter`, `PersistentCap`, `NoSilentTakeover` and the refinement of `FenceOwnership`, through every mix of claim, reclaim, park, adopt, resume |
| | hooks: 2 sessions, 2 files, an edit and two shell commands | `EditsStayInside`, `NoBreachForgotten` |
| `ledger` | registry: 1 lifecycle, 2 callers, 1 heading | stale callers: `NoLostUpdate`; handovers: `NoLostHandover` |
| | provisional: 1 record, 2 deciding callers, 1 session and none | `CancelledIsOver`, `LinksAndEndsStand` |
| | reminders: 1 project, 2 memories, 2 checks, a purge | `NothingLeftBehind`, `RemindersCoolDown` |
| `threads` | 2 commanders, 1 other caller, 1 lifecycle | `OffLeavesNobodyBehind`, `DrainHandsOver`, `OffEnds` |
| `controller` | 2 units apart, one redefined and one dropped by a plan of *another process*, 1 retry, 1 kill | `DoneAsDefined`, `OneAwaited` |
| `controller_live` | 2 units in a chain that come and go, 1 kill, 1 act of the founder, 2 sessions | `FencedWhileOpen`, `DeliveredIsOver`, and `NoUnitStranded`, `AnswersAreJudged` under fairness |
| `consent` | rules: 2 candidates, 2 rules, 2 contradicting texts, 2 receipts, 2 commands, 1 alert | `NothingUnanswered`, `AlertsFallByAnswer` |
| | index: 2 rules of 2 versions, 2 processes | `LoneAnswersAreCurrent` |
| | contract: 3 mandates, 2 meters, 4 revisions, 1 gate check | `LiveMeansSigned`, `BreakerSpeaksOnce`, `VerdictOfOneRevision` |
| | tasks: 2 projects, 2 tasks, 1 delivery, purges | `PurgesErase`, `MirrorsAgree`, `DeliveredStands` |
| `files` | view: 2 commands, 2 notes (one changes when masked), 1 backup kept, 1 failed read | `OutsideProseKept`, `ReplacedTextBackedUp` while people save between redraws |
| | paths: up to 3 segments over 3 names (two spellings of one) and 2 patterns | `SharedFileOverlaps`, `GrantsWhatItsFenceCovers` |
| | store: 3 processes of 2 ages, 2 files, 1 damage, 1 incident | `VersionHasItsTables`, `FinishedStoresStay`, `MigratedFromACopy` |
| | snapshots: 3 attempts of 2 sessions, 2 at once, 1 kill or 1 failure, 1 retained | `FailureReplacesSuccess`, `RecoverOffersTheNewest`, `NewestAreRetained` |

`ReplacedTextBackedUp` says two things: human text that a step takes out of the
file, wherever it was typed, is in a backup at that moment, and a backup is
pruned only while `Keep` newer ones are there. The first of these, and
`OutsideProseKept`, hold while every redraw could read the file that was there;
the second holds in any case. `LoneAnswersAreCurrent` has a proviso (no other
process fills the index during the query), `FinishedStoresStay` too (nobody has
written under the opener); the sections below say what happens without.

Expected to be violated: a sentence of the documentation or of a comment that
the code does not keep.

| Run | What happens |
|---|---|
| `threads_race` | a `start` that read the mode before `off`, or a `resume`, which reads none, makes a record active behind the list `off` works from: "`off` PARKS every ACTIVE, PERSISTENT record" |
| `provisional_parked` | cancelling a parked provisional record leaves it parked, so it can be resumed and another session can apply work to it: "cancelling moves the underlying record to 'complete'" |
| `controller_crash` | a kill after a unit was failed (or done) and before the wave is settled leaves the run VERIFYING with a READY unit; every later step says that only a founder can move it, and `resume` refuses: "a crash never loses the controller's place" |
| `controller_replan` | two units are in flight when the one they depend on is redefined: the cascade resets DONE units only, so one answered later becomes DONE on a unit that is not: "a DONE unit downstream of a unit that was just redefined ... is no longer valid evidence" |
| `stores_stay` | an opener reads the names of the tables, another migrates, the first reads the version: the store seems to lack tables and is moved aside: "VERSION IS READ FIRST, tables second" |

Type invariants (`LTypeOK`, `GTypeOK`, `OTypeOK` and so on) stay in the modules;
all but those of the hooks' tokens are proved, and no run spends its time on them.

### Bounds, and why they are enough

Versions, digests, decisions, directives, commits and backups are counters: they are
capped by a guard and named (`MaxVersion`, `MaxDigests`, `MaxDecisions`,
`MaxDirectives`, `MaxCommits`, `MaxBackups`, `MaxEdits`, `MaxRuleVersion`,
`MaxRevisions`, `MaxSpend`, `MaxWrites`, `MaxFenceMoves`, `MaxTicks`, `AtOnce`,
`MaxDamages`, `MaxFaults`, `MaxRows`, `MaxReminders`, `MaxSurfaced`). A version bound
of 3 or 4 admits a record that is claimed, changed by somebody else and changed again,
which is all a stale reader can meet. Two lifecycles are enough for a conflict between
two fences, two names or two records under a cap of one; that three or more do not
matter is what the proofs show. Two callers are enough for a stale read. `Keep` and
`Retain` are 1 where the code keeps more: pruning compares ranks only. `Cooldown` is 1
where the code has 5: the filter compares a distance with it, and a race or a kill
moves that distance by one entry each.

In `Controller`, attempts are bounded by `RetryCeiling`, and what nothing else
bounds by `Bound`: kills, plans, and the founder's interferences (a pause, a
revocation, an amendment, a change of driver, a resolved step). What only ends
something (contract resumed, run resumed, run completed) is free. One kill
anywhere is what a recovery has to survive before the next step has repaired
it; two plans are a plan and a re-plan, and a plan may repeat an earlier graph,
so a unit that was dropped can come back.

The MC modules cut the side-by-side runs further, always by a condition on the
state that a step may not leave:

- `Modest` (`MCLedger`): a provisional record has no fence, handover, digest,
  decision or directive; those are the registry's part.
- `GuardBound`, `GuardInit` (`MCFenceGuard`): two calls under way at once, a file goes
  unread only when there is one shell command, the second shell command starts after
  the first, and of the two files `f1` is the one fenced by the other session: the
  calls and the files have no order of their own. The other session has its token from
  the start; it only owns fences.
- `TasksAlone`, `RemindersAlone`, `InOrder` (`MCProjects`): the tasks start where
  deliveries happen, in the last two of their ten states, and one delivery is
  made; reminders are of one project without tasks. The purge runs in both.
- `ExpiresInUse` (`MCConsent`): a receipt expires under a command that has read
  it; one that expires unread might as well not exist.
- `FilesInOrder`, `AttemptsInOrder` (`MCStoreOpen`, `MCAutosave`): files and
  attempts are used in the order of their numbers, and `OneMishap`: one attempt is
  killed, or one write or git step fails (`MaxFaults`) and then no lock is taken
  from a living attempt. The proofs have any number of each, together.
- `TypedUnmasked`, `OneUnseen`, `UnseenEnded` (`MCStateView`): people do not type
  the masked form themselves; one redraw fails to read the file, and the behaviour
  is followed until that redraw ends, after which `OutsideProseKept` and the first
  half of `ReplacedTextBackedUp` claim nothing.

`MigratedFromACopy` speaks of programs of one age (`OneAge`). Between programs of
two ages the copy of a version may be older than what it was taken for: the
older program migrates after the copy was made.

### Fairness

`ThreadMode`: weak fairness of `Running`, the next step of an `off` under way.
It is a sequential program and always has one, unless it is killed, which ends
it as well. Nothing is assumed of anybody else.

`Controller`: weak fairness of `Progress`, for the same reason; strong fairness
of `BeginStep` (the loop around `step`, `run_to_completion` or whoever drives
the run, calls it again and again) and of `BeginResult` (a worker that has a
brief answers some day). Strong, since other commands of the same process may
keep it busy at times. Planning, stopping and the founder are never forced.

The other modules promise safety only: a hook or a command that is killed owes
nobody anything but the next command's repair.

## 4. The proofs

**RecordStoreProofs** proves, for every value of the constants, every property
of the registry that `records_fences` and `ledger` check, and four that no run
spends time on: `TypeOK`, `OneActivePerName`, `VersionNamesRow`,
`UndeliveredOnce`. It assumes what `RecordStore` assumes: the overlap relation is
symmetric, the sentinels are outside their sets, there are finitely many
lifecycles, the cap is a natural number.

The argument goes through one lemma, `RecordStep`. Whatever a step does to
`records`, it changes at most one row, and that row either *enters* "active"
(through the admission check: no overlap, name free, below the cap), or *keeps*
it (same name, lifetime and session, its fence unchanged or checked again), or
*leaves* it, and its version goes up by one unless only digests and decisions
were appended. `SingleWriter`, `OneActivePerName` and `PersistentCap` follow by
cases on those three words and not on the operations; for the cap, the
cardinality of a set with one element more. The refinement maps the same three
to `Grant`, `Redraw` and `LetGo`. None of the three is inductive without
`TypeOK` (the admission check reads fields of rows that must exist), which is
`TypeCorrect`.

`VersionNamesRow` is inductive with "a caller's row is of a version the record
has reached" (`SeenStep`): equal versions then mean equal rows. `NoLostUpdate`
follows from it. `NoLostHandover` and `UndeliveredOnce` rest on `HandoverStep`:
a transition posts its text unless an undelivered twin is there already, and
nothing but an acknowledgement settles a text.

**ProvisionalProofs** carries all of this over to a registry with provisional records
beside it (`RegistryStands`, `RegistryStepsStand`, the refinement of
`FenceOwnership`). A minted record is a row that enters "active" through the same
admission check, so the lemmas about one row apply to it as they do to a claim
(`MintStep`); every other step is one of the registry or leaves its tables alone
(`ProvisionalStep`). `LinksAndEndsStandHolds` says what the links promise;
`CancelledIsOverHolds` rests on `Doomed`: a cancel on its way from the completion to
the mark has left its record complete, and nothing leads out of complete. It assumes
of the constants that no sentinel is a real value and a provisional name is a name
(`ProvSentinels`, `ProvNames`).

**ProjectsProofs** proves, for all projects, tasks, memories and callers and every
length of the cooldown, the five properties of `Projects` and its types. The
foreign keys alone are not inductive: SQLite lets a receipt of one project name a
task of another, and then the purge of the other fails. What makes every purge
go through (`PurgesErase`) is that no command files such a row (`FiledRight`,
`Owned`); `PurgedRows` goes through the statements of the purge in their order.
`DeliveredStands` needs what a deliver that counted no open task holds between
its reads: the tasks it listed are closed, or were all purged, and nothing leaves
"closed" (`ClosedIsLast`); its evidence is asked of a delivery without `--partial`
only, as in the code. `RemindersCoolDown` needs of a check under way that its choice
is still none of the last reminders, unless another check came between
(`ChosenAfresh`), and that a memory marked is a memory recorded. Assumed: a
cooldown of at least one, bounds that are numbers, sentinels outside their sets.

**ConsentProofs** proves what a founder's answer pays for, what the index answers
and what the contract allows.

- `NothingUnansweredHolds` rests on `CallsQuote`: the question a command acts on is
  the one its receipt answers, whatever other commands did to the rule since; the
  write half compares versions and states again and spends the receipt in the same
  transaction. `AlertsFallByAnswerHolds` adds `CallsSaw`: an approval
  that saw an alert quotes an answer that goes past one, of a candidate the alert
  stands before; what the override writes is what the reading half saw.
- `LoneAnswersAreCurrentHolds` needs of a query that what it read of the rules lies
  between what was current when it began and what is current now (`Between`), and
  that an index which agreed with what was read stays good until somebody else
  fills it (`MatchedRows`). A query whose first comparison could not read the index
  is answered after the refill alone: then it is the refill that is right, what
  it has put in and what it has yet to put in together (`Filled`).
- The contract, for all mandates, amounts and meters: `LiveMeansSigned`, by going
  back from a live revision to the one it was copied from; `BreakerSpeaksOnce`,
  since an alert is raised exactly when a spend crosses a line, and sums only grow
  between two signatures; `VerdictOfOneRevision`, which needs of a check under way
  that the revision it has read is one of the chain, and of the chain that
  revisions are never rewritten.

Assumed: versions and edits are bounded by numbers (`VersionsBounded`,
`EditsBounded`), the given candidates and alerts are rows (`GivenFits`), and the
sentinels are none (`NoTableIsNoIndex`, `NoRowOfLearning`).

**FilesProofs** has five parts.

- Paths, for every alphabet, every folding and paths of every length: two declared
  paths that can name one file overlap (`NoMissedConflict`), because both coverage
  keys are prefixes of that file's folded segments and two prefixes of one sequence
  are comparable (`KeysComparable`, `KeyAgrees`); and a boundary that grants a
  literal path grants all its fence reaches (`GrantStaysInside`).
  `OverlapSymmetricHolds` is the assumption of `RecordStore`.
- The store's file, for any number of processes, files and program ages.
  `VersionHasItsTables`: a version is written in two places only, by the row that
  ends the building of the schema, once its tables are there, and by the
  transaction of a migration, with them; no table is ever dropped, and moving a
  file changes nothing in it. `FinishedStoresStay`: an opener that nobody has
  written under is connected to the file at the path, what it has read of the
  tables is what is there, and what it has condemned is not whole (`Untroubled`);
  it needs `VersionHasItsTables`, without which a whole store could be condemned.
  `MigratedFromACopy`: writers of one age give one version only, the newest, so at
  most one store is older (`Older`), it is the one that everybody who is about to
  migrate is connected to, and the copy under the one name is of it (`Copied`).
  Assumed: `NothingIsThere` and that programs know versions up to `Top`.
- Snapshots, for any number of attempts and sessions. `NewestAreRetained` holds
  always: what an attempt has listed has `Retain` newer snapshots, and dropping one
  of those takes it only from below (`ListedAreOld`, `DroppingKeepsNewer`).
  `FailureReplacesSuccess` and `RecoverOffersTheNewest` hold while the lock is
  held by whoever works under it (`LockHeld`, `~robbed`): then an attempt that has
  opened its event is the last to have done so until it closes it, and one that
  opened none writes none (`LastToOpen`); and the pointer is right whenever nobody is
  between a reference and the pointer, and what an attempt read of it stays true
  until it moves it (`PointsRight`). An attempt that dies in between ends that
  (`Torn`), and so does a pointer or a mark whose write failed, until a later one
  goes through (`lapsed`): these are what the property excepts.
- The view, with any number of commands redrawing at once. What a redraw holds would
  leave the prose that the file would (`SameProse`), since masking twice is masking
  once (`ProtectedIdempotent`); so the last of several redraws loses none. Notes
  between the markers go with the first redraw that replaces the file; until then all
  redraws hold this very text (`HeldIsFile`), the newest backups are of it
  (`SavedLast`), and what is listed for pruning has `Keep` newer ones
  (`DoomedAreOld`). `OutsideProseKeptHolds` and `ReplacedTextBackedUpHolds` have the
  hypothesis `EditsRace = FALSE`: nobody saves the file during a redraw. With
  `EditsRace = TRUE` both are false, see section 5. They speak of the behaviours in
  which every redraw so far could read the file that was there (`SeenUndisturbed`,
  `unseen = {}`); that a backup goes only under `Keep` newer ones is proved of all.
  What is assumed of the constants: `Keep` and `Retain` positive, bounds that are
  numbers, sentinels outside their sets (`NoOneIsNobody`, `NoViewIsNoText`).
- The hooks, with any number of sessions, files and calls. Neither property is
  inductive. `GuardInv` joins to the types two statements about each call alone.
  `ShellOK`: what a shell command wrote across a fence is told, or could not be read,
  or the snapshot is there and older than the file, unless it was reaped, and a hook
  that is telling still has it on its list. `EditOK`: an edit that was allowed had no
  foreign row in what it read, and whatever fence is there now and was not there then
  came later. A step of one call carries the statements about it (`CallStep`), and a
  step of another call, which may write the same file or raise the same alert, carries
  them too (`ReadStep`).

**ThreadModeProofs** proves for all commanders, callers and lifecycles
`OffLeavesNobodyBehind`, `DrainHandsOver` and, again, everything the registry
promises: a drain is a step that `RecordStore` does not have, since `off` parks
with the row it has in its hands and not with one a caller has fetched. Lemma
`ThreadStep` sorts the steps: a step of the registry, the drain of one candidate
(a change of one row, by the same lemmas that `RecordStoreProofs` uses of the
registry's own), or a step that leaves the registry alone. The invariant is
`InHand`: whoever has been active since `off` listed the
records is on its list or among its candidates, unless a refusal is noted; and a
candidate is the row as it is, or one of an older version, which the store will
refuse. That no row changes without a new version is what makes it inductive. No
action reads the history variable `held`, which says who has been active all
along. Assumed: `Idle` is no
command under way (`IdleIsNone`).

**ControllerProofs** proves `DoneAsDefined`, `OneAwaited` and `DeliveredIsOver`, for
any number of units, lanes, plans, retries, kills and acts of the founder, and any
number of processes that plan or stop beside the one that drives the run. Neither is
inductive: a step decides on what it reads and acts several transactions later. `CInv`
adds the types and, entry by entry of every agenda, what of the earlier reading is
still true (`Sound`): a unit that may yet be sent has no attempt in flight, an attempt
that is spoken of exists, the definition a check was made by is that of the row while
the row waits for its verdict. Two more conjuncts look at the order (`Ordered`,
`Backed`): no unit is sent twice by one agenda, and the row is marked done right after
the verdict about it. A process that drives nothing disturbs none of this, by two
lemmas of what it may do: it adds to the tables (`Grows`), and it touches the work of
a unit only by taking it back to where no verdict counts (`SameWork`). The driver's
own steps are one lemma each, which end in `DriverDecides` or `DriverAdds`: what the
entry at the head put on the agenda in its place fits again.

The hypothesis of the first two is `OneDriver`: of the processes, one runs `step` and
`record-result`. It is the setting of both runs that check these properties, and
it is needed; section 5 says what two drivers do. 

`DeliveredIsOver` holds for as long as one process plans and drives
(`OneWorks`), whatever a second one that stops the run, the founder and a kill
do meanwhile. Its invariant is `DeliveryInv`, on top of `CInv`: once the run is
delivered, or an entry that delivers it is on an agenda, every unit of the plan
is over, nothing is in flight, and that agenda holds nothing that takes a unit
on, judges it or gives it back (`AllHarmless`). Two further parts make this
inductive: what ends a command comes last on its agenda (`Trails`), so the
decision to deliver is taken over tables that no entry before it can still
change, and a process that only stops has nothing but stops to do (`AllStops`).
TLC shows that the hypothesis is needed: see section 5 for what a plan of another
process does.

**ControllerFenceProofs** proves `FencedWhileOpen`: as long as a worker may be
writing for a unit, the unit's fence is held, for any number of units, lanes,
plans, retries and kills. An attempt is closed in one transaction, its unit given
back in a second and its fence parked in a third, so the invariant, `FenceInv` on
top of `CInv`, speaks of what is still on the agenda:

- what lifts a fence or gives a unit back finds the attempt closed, or something
  before it on the agenda closes it (`Covered`);
- an entry that speaks of an attempt speaks of the latest one as long as that is
  open, and what leads up to a dispatch holds the fence it will be made under
  (`Kept`);
- after a dispatch only the rest of its wave is left to do, and after what may fail
  the run for good only what lifts no fence of another unit (`Follows`,
  `LateKinds`): such a run leaves the fences of units still out held.

The entries that one step puts before the rest of its agenda leave the rest as it
was, unless they take an attempt further (`SpliceFenced`, `Easier`); so each kind
of entry is one short lemma about the few entries it puts there.

The hypothesis is `OneCommand`: one command runs at a time, the setting of
`controller_live`. A process that stops beside it makes the property false: it
goes from RUNNING towards STOPPING, the other fails the run for good in between,
and the first parks the fences of units still out. With a plan of another
process TLC finds no violation on the small instance (two plans, one kill); that
is not proved.

Assumed as well, by the modules: finitely many units and lanes, definitions that
are not the empty one (`UnitAssumptions`), and that `Idle` is no command under way
(`IdleIsNone`).

Each of the inductive invariants was an invariant of a run before it was proved.

Model-checked only: the refutations of section 3, and the liveness properties
`OffEnds`, `NoUnitStranded` and `AnswersAreJudged`: liveness under fairness is
beyond the proof system as it is used here. Every invariant and every action
property of a passing run is stated by a theorem.

## 5. What is not modelled, and what a reader should know

Left out of a modelled component:

- `Controller`: a worker that answers or fails at once, `check_timeouts` (no
  command calls it), the soft stop and the reconciliation of spend, unsafe
  scopes, the fence and checkpoints of the run itself, and the write scopes of
  two units overlapping. A tripped breaker is a contract that is dead.
- `FenceGuard`: payloads and patches, the fence around a running test gate, the
  commands refused by name, the store's own health.
- `Learning`: severities, the splitting of compound actions, retrieval and its
  ranking, the import of an inbox, outcomes and repeated corrections.
- `Projects`: alerts, forecasts, actuals, reality records, the rows of the
  contract and the controller that a purge deletes too, the dry run.
- `StoreOpen`: git and symlink checks, indexes, what a migration does to rows.
- `Autosave`: receipts, exclusions, the tick counter.

Left out altogether, with the reason at each in `PROJECT.json`: interruptions,
assumptions and checkpoints (rows nothing decides by); lead, handover, continue
and packs (documents composed from the store); session hooks; effects, ledgers
and messages (append-only); telemetry, briefings, views, visuals and
documentation (rendering); command lines, the MCP server and editor runtimes
(dispatch); installers, doctor, benchmarks, gates and release scripts. They are
most of the repository's lines, and have no state that two actors share.

What the checks found that is not one of the five runs above. Of some of these a
property is stated in its module, and does not hold:

- `AnswersAreJudged` is run with plans that drop units and bring them back, not
  with plans that redefine one. With those it fails: a dispatch whose answer was
  recorded, held by a pause or a kill, is looked for under a row RESULT_IN that
  the plan has reset (`_resume_result_in_and_orphans`), and stays in flight.
- `FencedWhileOpen` and `DeliveredIsOver` are run for one command at a time.
  `FencedWhileOpen` is proved for that, `DeliveredIsOver` for one process that
  plans and drives. With a plan of another process, the run can be delivered with
  units the plan has just added. With a stop of another process, a fence is parked
  while a worker is out, if the run failed for good after the stop had begun.
- With *two processes driving one run*, which the engine permits if both are of the
  session that began it, `OneAwaited` and `DoneAsDefined` fail, with one unit
  and a plan that redefines it. `OneAwaited`: one step has seen nothing in flight
  (`_resume_dispatched`), the other dispatches the unit, the plan takes its row
  back to READY, and the first selects and dispatches it again. `DoneAsDefined`:
  between the verdict of the one and its `mark_unit_done`, the other sends the
  redefined unit out and records the answer, and that unchecked answer is marked
  done, since `mark_unit_done` asks for a row RESULT_IN and not for an attempt.
- A redraw that cannot read a `STATE.md` that is there (permissions, an I/O error)
  takes it for empty (`bm_store.py:18540`), saves no backup and replaces it: what
  people wrote is gone, although the docstring (18502) says that a generated file
  "may never irrecoverably lose what a human wrote" (`StateView!HumanTextNeverLost`).
- `StateView` with `EditsRace = TRUE` loses what a person saves between the read
  and the replacement; and the slower of two redraws puts an older view back.
- Promote and cancel of two callers at once leave a ledger row that is both
  (`Provisional` reaches it).
- A command that read a rule before it was forgotten writes the rule's state
  after it, so it can be retrieved again (`Learning!ForgottenIsSilent`), although
  forget prints that it will not be.
- A process that fills the index empties it first, in a statement of its own: a
  query of another process that has compared already misses rules
  (`RuleIndex!AnswersAreCurrent`).
- An attempt that finds the worktree locked stands down without opening an event:
  its session is told of the one before (`Autosave!NewestAttemptIsTold`). So is one
  whose event cannot be written (`bm_autosave.py:794`): an earlier "saved" stays,
  and the warning says that the hint will make no claim (739). A clean check that
  finds no `latest` leaves no mark, and one whose mark cannot be written deletes
  the pointer all the same, so that `recover` offers what was discarded; the
  comment there (1055) accepts that.
- The alert of a shell command names the command that was under way, not the one
  that wrote (`FenceGuard!BreachNamesTheWriter`); the loser of the token's
  creation may read an empty file and go unchecked in advisory mode
  (`FenceGuard!IdentityIsFound`).
- A migration by a program of an older age, begun before a newer one's, writes
  the older version number over the newer one and its copy over the newer copy;
  a second opener during the first creation quarantines the half-made store.
- An amendment that lowers a ceiling below what is spent raises no alert: the
  breaker speaks at a crossing. A signature over a stopped contract is accepted
  without `--supersede`.
- `start --json` creates tasks in any state, `cmd_task_add` in three;
  `raise_alert` for a purged project leaves a row no purge reaches; `purge`
  deletes units whose work record stays active; deliver reads the packet's rows
  again after it has certified them.
- `deliver --partial` of a project whose tasks are all closed, with no evidence on
  record, names the hole on stderr and then prints "all N task(s) closed", in JSON
  `partial: false`, since both go by the count (`bm_project.py:1798`). The comment
  at 1783 says that a hollow project may never be certified as a success
  (`Projects!NoHollowDelivery`).

## 6. Plan

1. `Controller` over `Autonomy` in place of a contract that is live or dead, with
   the soft stop and the reconciliation of spend.
2. Learning applications: their disposition, outcomes, and repeated corrections
   graded over `Provisional` and `Learning`.
3. Alerts, forecasts and actuals in `Projects`, with the rows of the contract and
   the run that a purge deletes.
4. Proofs: `FencedWhileOpen` with a plan of another process, where an agenda no
   longer knows alone which attempt is the latest.
