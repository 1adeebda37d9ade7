# Reames Agent: TLA+ models, checks and proofs

Reames Agent is a coding agent written in Go: a model loop with tools, sessions kept on
disk, background jobs and subagents, front ends (terminal, desktop, JSON protocols) and a
bot gateway that puts the agent into chat platforms. These modules model the parts in
which several goroutines, several processes, the file system and a remote platform have
to agree: who answers a chat message and when it counts as answered, who may write a
workspace or a session, what a save may overwrite, what becomes of the jobs of a session
that is cleared, whether a rewind finds the files it promised, what of a subagent's work
reaches the user's repository, and how an update of the program is undone.

Paths below are relative to the repository (`src/`). `PROJECT.json` lists the runs, the
lines every definition stands for (`map`), one plausible bug per property that breaks it
(`mutants`), the findings, the hazards and the theorems.

## 1. Inventory

### Modelled

| Component | Code | State | Operations | What makes it correct |
|---|---|---|---|---|
| Delivery ledger | `internal/bot/recovery.go` | one JSON file: records of inbound messages (status, sequence), per channel the last sequence and the checkpoint, stored answers ("outbound obligations") | claim, prepare, begin / fail / acknowledge an attempt, fail, deliver, cancel a session, reopen, prune | a checkpoint never passes an unanswered message nor lags behind an answered prefix; answered is final; a stored answer is not replaced; the file always validates when it is opened again |
| Bot gateway and session queue (partly) | `internal/bot/gateway.go`, `session.go` | session busy flag, queue, cancel function, active inbound message; dispatch loop, turn goroutines, senders | handleMessage, queue modes (steer, followup, collect, interrupt), /stop, runTurn, sendOutboundObligation, Start and recovery | every message is settled for good; the user sees one answer, its chunks in order, repeats marked; the model runs only for unanswered messages |
| Telegram adapter (partly) | `internal/bot/telegram/telegram.go` | offset of the next poll, settlement of each update of the batch, bounded channel, wake-up token | poll, publish, SettleInbound, wait for the batch | the server forgets only answered updates; an answered update is not run again; every task is answered in the end |
| Workspace lease | `internal/workspacelease/lease.go`, `lock_unix.go` | per session counters of runs and jobs, acquired / acquiring; a token per process; a flock | BeginRun, EndRun, AcquireWrite, RetainUntil, release | one session writes at a time, across processes; nobody keeps the lease without a run or job |
| Session lease | `internal/agent/session_lease.go`, `session_lock_*.go`, `session_removal.go`, sidecar helpers of `save.go` | registry of a process, two lock files, an info file | acquire, reclaim, release, probe, removal guard, save lock, sweep of leftovers | one runtime holds a session; nothing is deleted under a holder or a save; no leaked locks |
| Session transcript store (partly) | `internal/agent/save.go`, `session_events.go`, the snapshots of `internal/control/controller.go` | event log, anchor file, revision ledger; per runtime the transcript in memory, what has moved since the last save, and a baseline (path, digest, revision) | snapshot, forced save, rewrite, conflict, adopt, recovery copy, load, compaction, rewind | nobody drops messages it has never seen; a removed suffix stays removed; a save that reports success has landed; a conflict is the work of somebody else |
| Background jobs and the session gate of the controller (partly) | `internal/jobs/jobs.go`, `internal/control/controller.go` | jobs, their records on disk, queued completions; the gate of turns, rotations and host mutations; cleanup markers | start, finish, kill, close, teardown; compose, /new, /clear, resume, recovered copy, BeginRuntimeMutation, exit and restart | an ending is told once; what /clear removes stays gone; a reserved mutation is not disturbed |
| Checkpoints, turns and rewinds (partly) | `internal/checkpoint/checkpoint.go`, `internal/control/checkpoint.go`, `turn_orchestrator.go`, `internal/agent/branch.go` | records of turns, manifest, files; transcript, runtime anchor, in-flight marker, rewind journal | begin, edit, autosave, save, commit; recovery of an interrupted turn; rewind, its journal and its replay | a turn is whole or undone; a prepared rewind is finished; a restore finds exactly what a file held |
| Startup and update repair (partly) | `internal/repair/startup.go`, `update.go`, `apply_failure.go`, `internal/guardcmd/guard.go`, `desktop/updater*.go`, `main.go`, `app.go` | startup ledger, two installed files, backups, pending-update record, failure marker | start phases, prepare, replace, confirm; launch by Guard, attribution, rollback and its undoing | a mixed release keeps what undoes it; a finished rollback is whole; only the update that failed is undone; a bad release is left in the end |
| Subagents and worktrees (partly) | `internal/agent/subagent_store.go`, `subagent_delivery.go`, `subagent_workspace.go`, `task.go`, `internal/worktree/worktree.go` | a record per run; a Git worktree per writer; the source repository with its index and the user's edits; the start of a runtime | fresh run, continuation and copy in a branch, seal, accept (apply, merge), rollback, reject, cancel; sweep and recovery at a start | what a run put into the source is on record; an acceptance that is reported is in the source; the work of the user and of a run is never lost unasked |

How they interact. An adapter publishes inbound messages on a channel of the gateway; one
dispatch loop per adapter claims each in the ledger, then answers a command at once or
starts or queues a turn of the session. A turn runs the agent through the controller,
stores the final answer as an obligation, and a sender posts it chunk by chunk. Every
outcome is written to the ledger first and then told to the adapter (SettleInbound), which
for a polling platform moves the offset of the next poll. Before a tool of an agent run
writes, the run takes the workspace lease, and a job it leaves behind keeps it; a runtime
of the desktop app, the command line or a protocol server that opens a session for writing
takes the session lease, and every save takes the session's save lock. The controller
brackets each turn with a checkpoint and a marker, saves through the transcript store, and
owns the job registry. A writer subagent works in a worktree of its own under the lease of the
source workspace and leaves a delivery that the user accepts or rejects. Guard starts the
desktop app and undoes its updates.

### In the plan

| Component | Code | Hard behaviour |
|---|---|---|
| Evidence and readiness | `internal/agent/agent.go`, `internal/control/goal.go`, `internal/evidence` | whether a check that was run still stands after later writes, a resume or a child's work |
| Agent loop | `internal/agent/agent.go` | guidance steered into a turn that has just ended, compaction beside tool calls |
| Other chat adapters | `internal/bot/weixin`, `feishu`, `qq`, `connloop.go` | Weixin settles like Telegram; Feishu and QQ repeat events, which `Duplicate` of BotDelivery covers |

### Left out

Providers, plugins and MCP, permissions and hooks, sandboxing and processes, memory and history, configuration and packages, events, cron and board, the runtime host,
the desktop app but for its updates, the command line and the protocol servers: user
interfaces, formats, decisions over text, or operating system services without a protocol
of their own. The atomic replacement of a file (`internal/fileutil`) is assumed: a write
replaces the file wholly or not at all.

## 2. Modules

    RecoveryCursor                  SessionFile         abstract specifications
        ^ ImplementsCursor              ^ ImplementsPromise
        | (checked and proved)          | (checked and proved)
    DeliveryLedger                  SessionSave         the transcript store
        ^ INSTANCE L
    BotDelivery                     the gateway over the ledger
    TelegramPolling                 the polling loop, the gateway reduced to what it does to an update
    WorkspaceLease                  the write lease of a workspace
    SessionLease                    the lease and lock files of a session
    Jobs <- SessionJobs             the job registry, and the controller that owns it
    CheckpointStore <- Rewind       the checkpoints, and the turns and rewinds over them
    StartupLedger <- UpdateRepair   the startup ledger, and the update and Guard that read it
    SubagentDelivery                writer subagents, their worktrees and the source they deliver to

`A <- B` is B EXTENDS A. `XProofs` EXTENDS `X` and holds its theorems; `SessionProofs` is about
SessionLease and SessionSave, and `BotDeliveryProofs` also about TelegramPolling. The definitions
that two modules of one proof module have in common by idea have names of their own
(`SaveSpec`, `PollingSpec`). Each `MC*.tla` gives
the small instances, each `.cfg` one run.

**RecoveryCursor** is what the ledger promises an adapter: `issued`, `settled` and
`frontier` per channel, two actions. `DeliveryLedger` maps to it with `issued` the sequence
last handed out, `settled` the sequences whose record is answered or already covered by the
checkpoint (and so possibly forgotten), and `frontier` the checkpoint.

**DeliveryLedger.** Every method of `deliveryLedger` takes the mutex, changes a clone, writes
the file by atomic replacement and then publishes the clone, so a method is one step and
memory equals file; `Reopen` is `openDeliveryLedger` after a crash. `Claim`, `Prepare`,
`BeginAttempt`, `FailAttempt`, `AckChunk`/`AckLast`, `Fail`, `Delivered`,
`DeliveredSession`, `FailSession` are the methods of those names. Any caller may use them in
any order, which is more than the gateway does. Texts, digests, attempt counters and time
stamps are abstracted; which removable records are the oldest is any choice of the right
number (`Removable` is the condition of `pruneDeliveryRecords`).

**BotDelivery.** `disp` is the dispatch loop inside `handleMessage`, cut wherever the code
releases a lock or another goroutine can step in: claim, `IsActive` before
`ReplacePending`, cancel before settle. `turns[t]` is a goroutine of `runTurn` (setup,
RunTurn, store the answer, send, deferred cleanup, `Release`), `sender[k]` is
`sendOutboundObligation` (read, begin, platform call, acknowledge or fail). `Restart`,
`RecoverNext`, `Started` are `Start`. `screen`, `run` and `answerRun` are history. The
platform keeps what is not settled: `Retell` and `Crash` put messages back into `inbox`. One
session of one adapter: sessions share only the ledger, which DeliveryLedger checks with
three of them. Debounced merging is a nondeterministic choice. A ledger write that fails
changes nothing but `writeFailed`.

**TelegramPolling.** `Poll`, `Publish`, `CheckBatch`, `Woken` are the polling loop;
`SettleInbound` is the callback with its one-token channel. Publishing blocks while `msgCh`
is full. The gateway is reduced to: claim, command or turn, outcome, tell the adapter. The
bound on faults is `MaxPollingFaults`, and `ProcessRestarts` is a restart.

**WorkspaceLease.** Each block under `Owner.mu` is one step; taking the token, taking the
flock, giving up, and the two releases after the unlock are steps of their own. `Crash`
kills a process at any point.

**SessionLease.** A lock belongs to the file that was opened and not to its name, so open,
lock, unlink, unlock and close are separate steps; `inode` is what the name stands for and
is reused when nothing refers to it. `Platform` selects `session_lock_unix.go` or
`session_lock_windows.go` (delete disposition, share modes). The fallback for file systems
without delete disposition is not modelled.

**SessionFile** is what the store promises of one session file: its transcript is created,
extended, or rewritten by a runtime that knows exactly the transcript it replaces.

**SessionSave.** Two or more runtimes share a session. A snapshot is `BeginSave` (under the
lock: the optimistic check and the decision between append, rewrite, log-only, anchor and
conflict, which `Plans` turns into a list of file writes), one `WriteFile` per file of that
list, `Record` in the revision ledger, and `FinishSave`, which moves the baseline. A
conflict ends in `Adopt` (and a load), in `Recover` or in a copy of the runtime's own
(`BeginCopy`), as the controller decides. `Add`, `Compact`, `IncrementRewrite` and `Cut`
change the transcript in memory at any time, also in the middle of a save; `WriteFails`
tears a write, `CommitFails` loses the ledger entry, `Die` kills the runtime. A message is a
number and a digest is the transcript it is computed from; `edited` and `rewritten` stand
for the version counters and what they are compared with.

**Jobs, SessionJobs.** `Jobs` has the operations of `Manager`, each under `m.mu`, and the
goroutine of a job, whose last four steps (outcome and record, completion, status, close)
are separate. `SessionJobs` has the controller: `Compose` and `EndTurn` are the reservation
of a turn; `NewSession`, `ClearMark` .. `ClearSwap`, `ClaimGate`, `Reserve`, `Release` hold
the rotation gate; `Reap` is the goroutine that removes a cleared session whose jobs have to
unwind; `Boot` is the start of the next process, which removes what carries a marker. A job
that outlives its session's teardown, and a process that dies anywhere in it, are the point.

**CheckpointStore, Rewind.** `CheckpointStore` is the record of each turn (where the
conversation was, what each file held before its first edit) and the manifest. In `Rewind` a turn
is `AllocateTurn`, `RegisterTurn`, `Arm` (the in-flight marker), `Say`, `Touch` and `Edit`,
`Autosave`, `EndTurn`, `Save`, `SaveAnchor`, `Commit`, `Finish`; every one of them may fail
(`StepFails`, `WriteFails`) or be the last of the process (`Crash`). A resumed session, a
turn and a rewind first go through `RecoverTurn` and `Strip` (an interrupted turn is undone
but for its prompt) and through the journal of a rewind that did not finish: `Publish`,
`Republish`, the restore of the files, `Advance`, `RetireTurns`, `Collect`, `Clear`.

**StartupLedger, UpdateRepair.** `StartupLedger` has the operations of `StartupTracker` as
functions of the record. In `UpdateRepair` the desktop process starts, comes up or dies,
confirms itself after 30 seconds or at shutdown, and installs an update: record and backups
(`Prepare`), Guard (`ReplaceGuard`), itself (`MoveDesktopAway`, `MoveDesktopIn`, external:
the self-update library), failure marker. `GuardStep` is `guard launch`: the failed
installation, the crash loop, the attribution, and `rollbackPendingUpdate` file by file with
`UndoFile` for a rename that fails halfway. A release is a number, `Bad` ones never come up,
`Fragile` ones may not. There is one desktop process; a second one hands over
(`HandsOver`). `begun`, `failed` and `collided` are history.

**SubagentDelivery.** `run[r]` is a run of reference `r` with the copy of the record it holds:
`PrepareFresh` or `PrepareContinue`, `MarkRunning`, `BeginRun`, `Work`, `SaveRunning`,
`EndRun`, `Seal`, `SaveCompleted`, and where each may fail. `op` is the delivery being accepted
or disposed of: `Accept` writes the intent, `ApplyPrepared` / `MergePrepared` change the
source, `SaveOutcome` writes the result, with `Rollback`, `Reject`, `CancelMerge`, `Refuse` and a
process that dies or a write that fails between any two. `boot[p]` is the start of a runtime:
`SweepLoad` and `SweepSave` read and write a record separately, without its lock, as
`subagent_store.go` does; `RecoverPending` settles acceptances that were cut short by what it
finds in the repository. The user edits, stages, commits and discards whenever no command
of Git runs. A commit is its worktree and number. `given` is history, and `lapsed` names the
deliveries whose record was overwritten in one of three known ways (see the hazards).

## 3. Runs

| Run | Question | Instance | Result |
|---|---|---|---|
| `ledger` | do all orders of ledger operations keep the file valid and the checkpoints exact, and implement RecoveryCursor | 4 messages of 2 channels and 3 sessions, 2 records at most, 2 chunks, 2 sequences per channel | holds |
| `bot_delivery` | what does the user see, whatever fails | a task of two chunks, then a task, /stop or command; 4 queue modes; queue of 1; 2 faults | holds |
| `bot_queue` | is everything settled when the queue overflows, and does the model run only for unanswered messages | 3 tasks, queue of 1 or 2, 5 policies, 1 fault | holds |
| `telegram_polling` | is every task answered and nothing forgotten too early | 4 updates (task, no text, task, approval), channel of 1, 2 faults | holds |
| `workspace_lease` | is there one writer, and is the lease always given up | 3 sessions of 2 processes, 4 runs, 2 jobs | holds |
| `session_lease` | is the lease exclusive on Windows under every operation and crash | 3 goroutines of 2 processes, every operation | holds |
| `session_lease_unix` | the same on Unix | 3 goroutines that only acquire and release | violated, see Findings |
| `session_save` | can two runtimes lose each other's messages, bring removed ones back, or believe a save that did not land; does the store implement SessionFile | 2 runtimes, 3 edits, copies of depth 1, 1 fault, 3 revisions, 2 starts | holds |
| `session_jobs` | is an ending told once, does a cleared session stay gone, is a mutation undisturbed | 2 sessions, a recoverable task and a plain job, 2 processes | holds |
| `rewind` | is a turn whole or undone, a rewind finished, a restore exact | 2 files, 3 turns, 2 rewinds, 1 fault | holds |
| `update_repair` | is a mixed release never stranded, a rollback whole and deserved, a bad release left | 3 releases, the last of them bad, 2 updates, 1 Guard, 2 faults | holds |
| `subagent_delivery` | is what is in the source on record, is an acceptance true, is nobody's work lost | a session and its branch, 2 references, 1 runtime after another, 1 commit per worktree, 2 in the source, 1 fault | holds |

### Why the bounds are enough

* `RecordLimit = 2` with four messages makes a third claim evict a record and a claim fail
  when nothing may be evicted. `MaxSequence = 2` gives a channel a first and a second message,
  so holes, late answers and prefixes of length two occur; three messages of one channel
  make re-claims after eviction possible. Two chunks distinguish a middle chunk from the
  last. m1 and m2 are symmetric (same channel and session) and the run checks safety only.
* `MaxFaults` counts crashes, failed writes, failed turns, unconfirmed sends and duplicate
  events. Two cover the pairs that matter: a lost confirmation and a crash, a crash during
  the recovery of a crash, a failed write and a duplicate. In `bot_queue` a third message
  takes the place of the second fault.
* A queue of one overflows with the third message; one of two merges both waiting messages
  into a turn of two claims. Two turn slots suffice: a second goroutine
  exists only while a forcibly released one still unwinds.
* `MaxRuns = 3` bounds the model runs spent on one message and is above what the faults can
  cause in `bot_queue`; it is what stops a redelivery that fails again and again.
* `ChannelCap = 1` blocks the polling loop behind a full channel, which 64 would not do
  with four updates.
* Three sessions of two processes are the least in which both locks have contention: two
  within one process for the token, one in the other for the file. Two runs in one session
  are the least for the counters and the await-and-retry branch.
* In SessionLease three goroutines are the least for holder, late locker and new file; with
  `Cardinality(Actor) + 1` file numbers a fresh one always exists.
* In SessionSave three messages give an extension by each runtime and one more after a
  conflict, a rewrite of two messages to one, and a divergence; `MaxDepth = 1` reaches the
  depth at which no further copy is made; three revisions let a runtime fall behind by two.
  The runtimes are alike (symmetry; the run checks no liveness).
* In SessionJobs two sessions are what one /clear or /new needs; a second process is the
  restart that finds interrupted records and markers. Job slots are not reused, so the run ends
  when sessions and processes are used up.
* In Rewind three turns are the least in which a rewind can leave one turn, retire two, and
  be followed by new ones; two rewinds overlap in the retired range. One fault falls between
  any two steps; the recovery that it causes then runs to its end. The files are alike.
* In UpdateRepair the first update can be confirmed, fail or be undone before the second one
  installs the bad release; two faults are a failed installation and a rollback cut short, or
  a rollback cut short twice. `FailureLimit` is 2 instead of 3, the least that tells a first
  failure from a loop. The invariants were also checked with two Guard processes and one fault.
* In SubagentDelivery two references are a writer and its copy in the branch, which share a
  worktree, or two writers whose deliveries meet in the source; the user's own commit and one
  delivery fill the log of two. The theorems hold for any number of runtimes, and TLC
  also checked two runtimes with one reference.

### Fairness

Only what the Go scheduler and the program's own timeouts give. BotDelivery: the dispatch
loop, each turn and each sender go on when they can, a model turn ends (it has a context
and a provider timeout), a platform call returns (HTTP client timeout), and a gateway that
is down is started again (the service manager). TelegramPolling: the same, users do send
their updates, and an unanswered approval is denied when a timeout is configured.
WorkspaceLease: runs and jobs end, a waiter that finds the token or the file free takes it,
releases complete; which waiter is next is left to chance, so `SomebodyGetsIt` promises
progress of somebody and not of everybody. The other modules assume none; `BadReleaseIsLeft`
of UpdateRepair is a property of infinite behaviours that needs none: it says what cannot go
on for ever. Nothing forces a fault, a new message, a new run or the cancellation of a wait.

Deadlock is checked where the system runs for ever (`ledger`, the runs of BotDelivery and of
the leases). It is not in `telegram_polling` (the updates are finite and the system may stop
when all are answered), `session_save`, `session_jobs`, `rewind`, `update_repair` and
`subagent_delivery` (edits, session names, turns, starts or references run out). BotDelivery has an explicit `Waiting` step for a
gateway at rest, enabled only when no goroutine has anything left to do.

### Findings

**Lease lock on an unlinked file** (`internal/agent/session_lock_unix.go:66`). The lock is
taken without comparing the open file with the name, so an opener from before an
unlink and a creator after it hold the lease together, where
`internal/agent/session_removal.go:14` says that a later acquirer can never lock an inode
that survived the deletion. The run `session_lease_unix` shows it.

### Behaviour worth knowing

The models follow the code also where a reader may not expect it. These behaviours are in
them, or were met while writing them; no run is spent on them, and the properties are stated
so that they hold beside them.

* Gateway. A /stop before the cancel function of a turn is published
  (`internal/bot/gateway.go:1513`) is acknowledged and settled, and the model runs all the
  same. A turn that /stop or interrupt mode has released may still store its answer after
  another turn took over: `RunOnlyUnanswered` is about sessions that see neither.
  In interrupt mode the newest message can be lost (`internal/bot/gateway.go:926`): when the
  turn to be interrupted ends between `IsActive` and `ReplacePending`, the latter acquires
  the session and says so, but the caller starts no turn; the message stays claimed, the
  session busy. `EverySettled` is checked in the other modes.
  Where claims are merged and a /stop fails to be acknowledged, the canceled claims come back
  while their turn still ends. If one of them is answered at once, `delivered` removes the
  stored answer of all of them (`internal/bot/recovery.go:850`) although its primary message
  is open, and the user gets the answer of a second run. TLC found this in 38 steps while
  the proof was prepared; `Uncrossed` is the condition that excludes it, in `NoSilentRepeat`
  and `OneAnswerInOrder`.
  Guidance steered into a turn that has just finished is acknowledged and settled and goes
  nowhere (`internal/bot/gateway.go:913`). `Stop` waits for turns and deliveries, not for the
  dispatch loops (`internal/bot/gateway.go:779`).
* Ledger. A wall clock that steps back between two writes gives a record an `UpdatedAt`
  before its `CreatedAt` (`internal/bot/recovery.go:312`), and the file does not validate any
  more when it is opened.
* Telegram. The next batch is polled when the last one is settled, and a turn that waits for
  an approval keeps its batch unsettled: an /approve is not fetched before the timeout denies
  the request, and never when the timeout is disabled (`internal/bot/telegram/telegram.go:309`).
  `EveryTaskAnswered` is checked with the timeout.
* Session lease. A reclaim between the registration and the lock of an acquire replaces its
  registry entry, and the acquirer ends up holding the lease without one. A sweep that finds no
  lock file may remove the info of a lease acquired since (`internal/agent/save.go:1595`).
* Transcripts. A runtime that adopts the file while its own turn runs
  (`internal/control/controller.go:3167`) drops what the turn has added since the conflict was
  found. Between the `Replace` of a compaction and its rewrite mark, or after a failed save of
  a rewind, a snapshot forks a copy or adopts although nobody else has written: the exception
  in `ConflictIsForeign`. A recovery copy that exists already is overwritten. The removal of a
  suffix whose ledger entry failed is not kept.
  A recovery copy made again over a log that a failed write has torn appends to it without the
  repair that a save starts with (`internal/agent/save.go:707`), and a snapshot that finds the
  stamps of its files unchanged is then skipped (`internal/agent/save.go:224`) although the log does
  not replay. It takes two faults and two runtimes; the attempt to prove `SavedIsStored` turned it
  up, and `Readable` is the condition that leaves such a copy out.
* Jobs. `ClearSession` decides by `BeginDestroySession` whether to go on in the background,
  and that counts killed jobs that are done already: the session then has no marker yet, and
  a crash brings it back. `ClearedIsGone` is about sessions with an unfinished job. A turn is
  told two endings of a job whose final record could not be written, and an interrupted job
  is noted again at every start until its note is taken.
* Rewinds. The manifest keeps a single range of retired turns (`internal/checkpoint/checkpoint.go:515`):
  after a rewind to turn 0, two new turns and a rewind to the second of them, the range closes
  over the first of them too, and a restart hides that live turn although
  `docs/CHECKPOINTS.md` has checkpoints persist. A later combined rewind past the hidden turn
  then leaves in the files what that turn changed; with one file, one crash and three rewinds
  this takes a trace of 53 steps, which the attempt to prove `RewindIsWhole` turned up.
  `RestoreExact` and `RewindIsWhole` leave such turns out (`HiddenFrom`, `Forgotten`). A rewind of the conversation alone gives up the file snapshots of the turns
  it retires.
* Updates. The lock covers the record, not the replacement of the files, so a rollback that
  starts while an installation runs mixes the release; and `MarkUpdateHealthy` compares only
  the version of the process that asks, so a new release that still runs can confirm an update
  whose rollback was cut short. `collided` marks these two races and the properties leave them
  out. A process that dies between the replacement of Guard and that of the desktop app leaves
  a mixed release without a failure marker: Guard starts it normally, and the record
  stays until somebody rolls it back. An orderly exit confirms an update before its 30 seconds
  are over. A release that dies before it reaches the ledger is never counted.
* Subagents. A rollback erases an edit the user staged over an applied delivery: `statusDigest`
  (`internal/worktree/worktree.go:754`) is of the paths and their states, which that edit does
  not change, and the comment at line 425 has "Drift is rejected rather than overwritten". The original of a copy can be continued
  after the copy was accepted, in the worktree they share (`internal/agent/task.go:499`), and a
  reject of it removes that worktree under the copy. A merge that is cancelled after Git has
  done it leaves the delivery "ready" (`internal/worktree/worktree.go:413`). The sweep of a start
  writes records without their locks (`internal/agent/subagent_store.go:312`) and can overwrite
  what a run has saved since; such deliveries are in `lapsed`. A merge that had nothing to merge
  is rolled back with the commit of another one; a crash between a rollback and its record
  leaves the delivery stuck; a start fails while another runtime holds the lock of a pending
  delivery; a run whose last record could not be written shows as running until the next start.

## 4. Proofs

Eight modules hold theorems. Each proves an inductive invariant (`IInv` and `THEOREM Invariance`,
`SaveInv` and `SavesAreSound`, `AdapterInv` for the adapter; `RewindProofs` and
`SessionJobsProofs` add to it in layers) and takes the properties from it.
What TLC checks on the small instance of a run is proved for every value of the constants, under
the named assumptions only.

| Module | Theorems | From |
|---|---|---|
| `DeliveryLedgerProofs` | `TypeCorrect`, `CheckpointsAreExact`, `AnswersAreFinal`, `AnswersAreKept`, `LedgerImplementsCursor`, `LedgerAlwaysReopens` | `MappingAssumption`, `LimitAssumption` |
| `WorkspaceLeaseProofs` | `TypeCorrect`, `WritersHoldTheLease`, `IdleSessionsHoldNothing` | `HomeAssumption`, `FiniteAssumption` |
| `SessionProofs`, of SessionLease | `TypeCorrect`, `OneHolder`, `RemovalIsAlone`, `LocksAreFreed`, `EntryStays` (Windows) | `HomeAssumption`, `FiniteAssumption`, `NilAssumption` |
| the same, of SessionSave | `SavesAreSound`, `SaveTypeCorrect`, `SavesAreStored`, `ConflictsAreForeign`, `RemovedStaysRemoved`, `StoreImplementsPromise` | `BoundAssumption` |
| `SessionJobsProofs` | `TypeCorrect`, `ClearedStaysGone`, `MutationStaysIdle`, `EndingsAreTold` | `SessionAssumption`, `ProcessAssumption` |
| `BotDeliveryProofs` | `GatewayImplementsLedger`, `TypeCorrect`, `SettledAreTold`, `OneAnswerEach`, `RepeatsAreMarked`, `RunsAreNeeded` | `GatewayAssumption` and the ledger's, which follow from how the gateway instantiates it |
| the same, of TelegramPolling | `AdapterTypeCorrect`, `ForgottenAreAnswered`, `AnsweredHaveNoTurn` | `AdapterAssumption` |
| `RewindProofs` | `RetiredTurnsStayGone`, `RestoresAreExact`, `RewindsAreWhole`, `TurnsAreWhole` | `TurnAssumption` |
| `SubagentDeliveryProofs` | `TypeCorrect`, `AcceptanceIsRecorded`, `AcceptedAreTrue`, `SourceIsKept`, `WorkIsKept` | `DeliveryAssumption` |
| `UpdateRepairProofs` | `TypeCorrect`, `EvidenceIsKept`, `RollbacksRestore`, `RollbacksHaveCause` | `ReleaseAssumption`, `LimitAssumption` |

Type invariants that are proved are not checked by a run as well.

**DeliveryLedgerProofs.** `CheckpointExact` is not inductive. That the walk of
`advanceRecoveryCheckpoint` finds the right end needs sequence numbers to be unique within a
channel (`SequenceUnique`) and within what was handed out (`WithinSequence`), evicted records
to be blank (`AbsentIsBlank`), every record at or below a checkpoint to be answered
(`CheckpointCovers`), every sequence above it to have its record still (`NoHole`, which is
what the third condition of `Removable` protects) and the one right after it to be
unanswered (`CheckpointTight`). That an acknowledgement settles only open claims, and settles
each once, needs the stored answers to be sound and disjoint (`ObligationSound`,
`BlankObligation`, `SingleOwner`). A step of the ledger is one of four kinds - a claim, a
stored answer, a change of status, a settlement - with one lemma each (`ClaimStep`,
`PrepareStep`, `StatusStep`, `SettleStep`). `LedgerAlwaysReopens` adds that the sets of
records, channels and obligations are finite and within the limit (`LimitInv`), with the
cardinality argument for a claim that evicts. `LedgerImplementsCursor` maps a claim with a
cursor to `Issue`, every settlement to `Settle`, and the rest to stutters; that the frontier
is right follows from the uniqueness of the end of a prefix (`PrefixEndUnique`).

**BotDeliveryProofs.** The gateway changes the ledger only through its operations, so it
implements `L!Spec` (`GatewayImplementsLedger`), and what `DeliveryLedgerProofs` shows holds
below it (`LP`). Every step of the gateway is then classified once by what it does to the
stored answers, the senders and the screen (`Steps`). `Progress`: a sender that has begun an
attempt is at the chunk the ledger has next, and everything before it is on the screen; from
it `SettledAreTold`. Two further parts are conditional. `Custody`: while nothing was canceled,
every open claim has exactly one holder - the dispatch loop, a turn or an entry of the queue -
so no message is run that has its answer (`RunsAreNeeded`). `Unmerged`: where no command can
cancel merged claims a claim is its own primary, so that an answer once begun stays stored
until its message is settled (`Answered`), from which `OneAnswerEach` and `RepeatsAreMarked`.

The module ends with the Telegram adapter, the other side of the same promise. `Acknowledged`:
every update below the offsets is settled, what the adapter calls delivered is, and below an
update of the batch everything is in the batch or settled; hence the offset that
`waitForBatchSettlement` computes passes only settled updates. `TurnsAreClaimed`: only a task
that is being processed has a turn, so an answered update has none.

**WorkspaceLeaseProofs.** The counters are the cardinalities of runs and jobs (part of
`TypeOK`), a session that is acquiring has one run that fetches the lease (`Fetched`), and
the phase of that run, `acquired` and `dropping` say which of the token and the file lock the
session owns (`Locks`, `Apart`); a run that was told it may write is in a session that has
acquired (`Told`), and a session that keeps the lease has a use for it (`Needed`).

**SessionProofs, the lease.** On Windows a file that is marked for deletion cannot be opened again,
so every open handle is of the file its name stands for (`OneFile`, false on Unix, where the
run finds the violation) and its lock has one holder (`OneLock`), who is at a
place of the code that holds it (`Shaped`). The theorems have the form
`Spec => [](Windows => ...)`.

**SessionProofs, the saves.** `SaveInv` has four parts. `FilesSound`: the file of the session
exists, a torn log is one of ours, and a revision is recorded only of a file that holds a
transcript. `OneWriter`: at most one runtime has the lock of a file. `BaseSound`, for each runtime:
what has not moved since the last save is what the baseline says, and while the file stamps match,
the file holds the baseline's digest. `JobSound` and `WriteSound`, for the save a runtime is in the
middle of: while it still has to write the transcript, what is in the file now is either none,
continued by what it captured, or the very transcript of its baseline (`Authorised`), and it
brings back no message it knows to have been removed (`BringsNothingBack`); once the transcript is
written, the file holds it until the revision is recorded. So `Owns`, which compares the
digest when the lock is taken, still speaks the truth when the lock is used. Every action has a
lemma (`Add_Sound` .. `WriteFails_Sound`), most of them by `StepSound`: what one runtime does keeps
what is said of the others when it keeps the files they look at, or takes their matching stamps
away. The three action properties are read off the steps that move a baseline (`SavedStep`), find
a conflict (`ConflictMoves`) or record a revision. `StoreImplementsPromise` maps every step to
one of SessionFile (`PromiseStep`): the anchor-only and ledger writes to stutters, a write to an
extension or to a rewrite of a transcript the runtime knows, and each change of a baseline to
`Learn` or `Forget`. The bounds on edits, faults, starts and revisions are constants of the
theorems, any natural number of each.

**SessionJobsProofs.** `Window` says who may be where while the gate is held, `Marked` that a
session with an unfinished job has its marker from before the removal on, `Quiet` that a
removed one has no writer, `InUse` and `OnlyMinted` which sessions may have jobs at all, and
`NothingRuns` that a reservation has seen the last of them; `GateType` and `JobsInv` are the
types of the two halves. `EndingsAreTold` needs `Endings` besides: a job has nothing told of it
before its completion is queued, and where its final record was written that record says the
same as what was told, which is why a restart that loads it tells nothing new.

**RewindProofs.** A turn that is being retired is asked for (`Asked`), its number is below the
next one (`Numbered`) and its records are on the way out or covered by the range of the
manifest (`Doomed`, `Tombstones`), memory shows only what a restart would (`Shown`), and the
turn about to be registered was never retired (`Fresh`). On this `IInv` the theorems about
files and conversation are built in layers, each proved from the ones before:

* `Framed`: the marker is there while a turn runs or is undone, the journal while a rewind is
  carried out, never both (`Where`), and the last turn in memory is no tombstone (`Current`).
* `FilesInv`: the first record of a file among the surviving turns says what was in it when
  that turn began (`Exact`); while files are put back each is done, still to do, or was put
  back before the restart (`Restoring`); and what the phase of the journal stands for has
  happened - the files are undone from `applied` on, until the turns are retired, and equal
  then to what they held when the target began (`Journaled`).
* `Told`: the conversation is in place, in memory and on disk, by the time files and records are
  rewound.
* `Talk` and `Written`: the conversation has only lines of known turns, an answer after its
  prompt, and each stage of a turn has written what the recovery will rely on (`Noted`,
  `Stages`, `Taken`, `Sealed`).

`RewindIsWhole` without `Forgotten` is not true: the step that fails is the restart that hides
a live turn (see *Behaviour worth knowing*).

**SubagentDeliveryProofs.** `SoundInv`: the transaction of a record lies in the past, an apply
moves no head, and what is called accepted was given. `RecordInv`: the intent is on record
before the source changes, in the hand of one runtime, and a run works only on a delivery that
the source does not contain. `TreeInv`: a worktree that is being prepared is empty and nobody
else's, which is why a preparation that fails may remove it.

**UpdateRepairProofs.** One rollback at a time swaps files (`Alone`), of the pending update
(`Held`), with no installation beside it (`Apart`) unless the race was noted; the pending
record is the last one made (`Latest`) and names what is being installed (`Ours`), its
backups are what it says or damaged (`Backed`), and it starts from a whole release
(`WholeBefore`); the new desktop is never there without the new Guard (`GuardFirst`), which is
why a running new release may confirm; a rollback has put back every file it has passed
(`Restoring`); and a failure in a marker or in a Guard's hands is of an update that failed
(`Causes`).

Only model-checked: all liveness properties, `BadReleaseIsLeft` of UpdateRepair among them (the
prover has no support for fairness and ENABLED). Every invariant and every action property
of a passing run has a theorem. For Unix lock files nothing is proved: there the run finds
`LeaseExclusive` violated.

## 5. What the models leave out

* Clocks: time stamps, debounce delays, retry delays and the order by age. A wall clock that
  steps back can make a record invalid on reopening; see the hazards. UpdateRepair knows only
  whether the crash window has passed.
* Gateway: a graceful `Stop` (only a crash ends it), `recoverMissed` (no adapter of the
  repository implements `RecoveryAdapter`), the agent's queue of guidance, pairing, allowlists,
  the control server, reactions, media, model and project commands.
* The identity of a workspace (canonical path, git root) and of a session path: one
  workspace and one session are modelled, and different ones do not interact. The Windows
  fallback of SessionLease without delete disposition.
* SessionSave: leading system messages, the normalization of tool calls on load, unreadable or
  future files, the compaction of a log found damaged, the listing index and the branch metadata. A torn log is repaired by the
  next save of the session's own file; the copy that is made again over a torn log is appended to
  (the code skips the repair there and compacts when it notices the damage).
* SessionJobs: output and log reads, labels, the stalled warning, artifacts that move when a
  session gets its file, the delete commands of serve and the desktop app, prompts and
  approvals. Processes are one after another: a second runtime that removes a marked session
  while its jobs unwind is not modelled.
* Rewind: synthetic turns, forks, summaries, goal, plan and todo state, records and manifests
  that cannot be read, encodings, modes and links of files, edits by others than the tools,
  background writers, a restore whose own rollback fails, and conflicts with other runtimes,
  which SessionSave has.
* SubagentDelivery: read-only and nested subagents, which have no worktree, the journal of
  effects, the purge of a session and the transcripts of the runs.
* UpdateRepair: the Windows helper, the macOS bundle and with it `CancelPendingUpdate`, the
  download, the repair of configuration and its snapshots, and the relaunched process that meets
  the single-instance lock of the one that exits. The recovery center's rollback is
  `GuardRollback` with a pinned identity.

## 6. Plan

In this order:

1. `Readiness`: checks and their receipts against later writes, a resume, and the work of
   children (`internal/agent/agent.go`, `subagent_effect_journal.go`, `internal/control/goal.go`).
   Questions met while reading: a resume on a diverged transcript clears a pending write, and a
   check that started before a child's write counts as after it.
2. The graceful stop of the gateway, guidance steered into a turn that ends, and the Weixin
   adapter.
