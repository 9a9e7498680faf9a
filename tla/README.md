# Bellman in TLA+

A verification development of Bellman, the desktop timer service of this
repository: TLA+ modules translated from the Rust source, TLC instances of
them, and proofs checked by TLAPS. Paths below are relative to
`src/crates/bellman-core/src/` unless they begin with `src/`.

Bellman stores timers in SQLite, fires them on time in a desktop app (Tauri) or
through a command line, runs an action per fire (launch a program, notify,
write a slot file), and for timers owned by another program ("integrated
apps") follows what that program says of each run. Several processes work on
one data directory at once: the app, any number of `bellman` commands, the
integrated apps. What makes it hard is exactly that, and that every step may be
the last one before a crash.

## 1. Inventory

| Component | State | Operations | Interacts with |
|---|---|---|---|
| **Claim ledger** (`store/mod.rs`, `store/models.rs`) | `runs`: one row per fire, `pending` / `active` / finished with an outcome, cancel flag, event sequence; the outbox row of the outcome | insert at fire, compare-and-swap `activate_run`, `repend_run`, `repend_all_active`, `finish_run*`, `request_cancel_active` | every producer and the dispatcher |
| **Dispatcher** (`actions/dispatcher.rs`) | OS lock `dispatcher.lock`; per process: state word, bounded hint channel, lane book (queued and active claims per timer), tokens, pump thread, worker threads | `spawn`, `begin_startup`, pump pass, `run_job`, panic supervision, `shutdown_drain`, takeover | ledger, executor, `service/run_now.rs` |
| **Executor** (`actions/executor.rs`, `launch.rs`, `notify.rs`, `concurrency.rs`) | child processes, global limiter | run one action with retries and a timeout, cancel by token | called by a worker |
| **Fire transaction** (`tree/mod.rs`) | timer folders, one SQLite transaction per fire | `project_fire`: gate, barrier, commit, projections; `delete_timer_lifecycle` | ledger, reply channel, outbox, publication |
| **Scheduler** (`scheduler/engine/`) | in-memory heap, wall and monotonic anchors, `next_fire_utc`, `run_count`, revision of the timers row | boot, tick, misfire policies, `act_and_close`, `mark_fired`, clock jumps, external changes | fire transaction, dispatcher, deadline entries of the reply channel |
| **Reply channel** (`reply/engine.rs`, `watcher.rs`, `gate.rs`, `quarantine.rs`) | `run_states` rows, deadline book (monotonic), reply files, `bad/`, per-timer gate (256 lock files) | ingest, watcher pass, pickup and watchdog expiry, `on_ack_through`, barrier, reconcile, startup scan | fire transaction, IPC, slots, scheduler heap, outbox |
| **Publication** (`reply/publication.rs`, `notification.rs`) | transport projections, target cursors, notification files | attempt with retry, pickup sweep, confirmation | gate and target locks, IPC |
| **Event outbox and log** (`events/publisher.rs`, `log.rs`, `service/log_query.rs`) | outbox rows, current file, archives, rotation journal, publisher lock | drain, tail scan, journaled rotation and its recovery, retention, queries | every transaction that tells something |
| **Slot channel** (`slots/`) | `free/`, `work/`, `done/`, `bad/`, request ledger, ack cursors | fill, claim, execute once, respond, sweep | store, reply channel |
| **IPC server** (`ipc/`) | connected clients, bounded queues | reply frames, notifications, confirmations | reply channel, publication |
| **Store, schema, guards** (`store/schema.rs`, `fs_guard.rs`) | SQLite file | transactions, migrations | all |
| **Pruner** (`pruner/`) | `meta` stamps | deletes of elapsed one-shots, rotation, retention, year recalibration | outbox, store, timer folders |
| **Occurrence engine** (`occurrence/`) | - (pure) | next fire of interval, daily, weekly, monthly, cron-like kinds, DST | scheduler |
| **Wake from sleep** (`platform/wake/`, `src/helpers/`) | one OS alarm | arm for the earliest due time | app |
| **Visible schedules** (`visible/`) | the user's crontab, its backups | scan, disable, enable, edit, new | GUI, CLI, the user's own edits |
| **Calendar** (`calendar/`) | - | merge ledger and event history, project rules, lay out | GUI, CLI, occurrence engine |
| **CLI**, **desktop app** (`src/crates/bellman-cli`, `src/src-tauri`) | processes | start and stop the above in an order | all |

### What is hard, and what correctness means

* *Dispatcher and ledger.* Several processes hold the same pending claims; only
  one may execute, ownership moves by an OS lock that a crash releases, and a
  claim is in flight between the store's answer and the lane book's update.
  Correct: a claim is executed at most once at a time, at most once at all
  unless something failed, only by the owner of the lock, in order within a
  serial timer, within the lane's limit; its outcome is told exactly once; and
  it finishes.
* *Reply channel.* Four threads, other processes and an uncooperative writer
  revise the same row; deadlines live on a monotonic clock with wall-clock
  copies for restarts. Correct: the app's own verdict stands, a superseded run
  is final, the log tells each transition once, no outcome on disk is
  overwritten by "superseded", silence is noticed in the end and not too early.
* *Scheduler.* Claim and timer row are updated by two transactions with a crash
  or an edit in between; the clock jumps. Correct: each slot is fired once, none
  is lost or invented, `run_count` and `next_fire_utc` agree with the claims.
* *Event outbox.* Correct: every committed event reaches the log at least once,
  in order, readable, through rotation and crashes at any step.
* *Publication.* Correct: an older notification never replaces a newer one, an
  unconsumed one is offered again, a bounded number of times.
* *Slot channel.* Correct: a request takes effect once, and nothing replaces one that
  waits.
* *Wake.* One register is shared with other programs; probes, resumes and commands
  write it, a write may fail, and the note that it is ours outlives our alarm.
  Correct: theirs survives, ours is there when the machine sleeps.
* *Folders.* A directory follows a table that three threads change, without a
  transaction over both. Correct: it heals, and no pass deletes what is still due.
* *Calendar and rules.* Evidence comes in part and in any order, rules are edited by
  three front ends. Correct: a run is shown once and truly, no fire is left out, an
  edit changes what it names.
* *Crontab.* Read, changed and installed as a whole while its user may edit it.
  Correct: the lines of others stay, a change can be undone.

`PROJECT.json` lists the single hazards with their lines, and which property
is about which.

## 2. Modules

| Module | Models | Extended by |
|---|---|---|
| `ClaimLedger` | abstract: what the claims table promises whoever works on it | |
| `Dispatcher` | dispatcher, ledger operations, overlap disposition, run-now, crash and takeover; refines `ClaimLedger` | `MCDispatcher`, `DispatcherProofs` |
| `RunLifecycle` | abstract: how the runs of a timer may move, and what the log is told | |
| `ReplyLifecycle` | the reply channel of one timer with the fire transaction, the slot cursor and the app behind it; refines `RunLifecycle` | `MCReplyLifecycle`, `ReplyProofs` |
| `Scheduler` | the scheduler thread against clock, edits, run-now and crashes | `MCScheduler`, `SchedulerProofs` |
| `AtLeastOnceLog` | abstract: what the event log promises its readers | |
| `EventOutbox` | outbox, publisher, rotation, prune of the log, log queries; refines `AtLeastOnceLog` | `MCEventOutbox`, `OutboxProofs` |
| `Publication` | notification files and IPC: transport projections, attempts, pickups | `MCPublication`, `PublicationProofs` |
| `SlotChannel` | requests of apps through slot files | `MCSlotChannel`, `SharedFileProofs` |
| `Wake` | the one OS alarm on three systems | `MCWake`, `WakeProofs` |
| `Occurrence` | recurrence rules and civil time, as operators | `RuleEdits` |
| `RuleEdits` | what the three front ends make of a form, as operators | `Calendar` |
| `Calendar` | adding and editing a timer, the truth view and the snapshot | `MCCalendar`, `PublicationProofs` |
| `TimerFolders` | the timers table, its folder view, prune, sweep, reconcile, year recalibration | `MCTimerFolders`, `FolderProofs` |
| `Crontab` | the user's crontab as `bellman task` rewrites it | `MCCrontab`, `SharedFileProofs` |

Interactions are modelled inside the module that owns the state at stake, with
the other side reduced to what it does to that state: the fire transaction
appears in `Dispatcher` (claim and overlap), `ReplyLifecycle` (barrier, run row),
`Publication` (transport row), `Scheduler` (uniqueness of a slot) and
`TimerFolders` (gate and folder). In all modules a SQLite transaction is one
step, since SQLite commits them one at a time; whatever was read in an earlier
step may be stale.

### Dispatcher

Durable state is the row of each claim: `status`, `outcome`, `cancelReq`, and
`events`, the number of outcome events committed for it. A claim is a pair of a
timer and its `event_sequence`. `lock` is the owner of `dispatcher.lock`. Per
process there are the `Inner` fields: `state` (the atomic word), `hints` (the
bounded channel), `queued` and `active` (the lanes), `tokens`, `closed` (the
sender dropped), and program counters for the main thread, the pump thread and
each worker.

* The pump's pass is split where another thread can get in: taking the lock,
  the check for `STOPPING`, recovery, the store of `STARTED`, the cancel scan,
  the read of the pending claims (`PumpScan`), the lock of the lane book
  (`PumpLockLanes`), one step per claim, the end of the pass. Its snapshot of
  claims is state of its own (`snapshot`), stale as soon as it is read.
* A worker's `run_job` is split at the compare-and-swap, the lane update, the
  execution, the commit of the result, and the release of the reservation.
* `FireAdmitted`, `FireSkipped`, `FireReplacing` are the three results of
  `apply_overlap_disposition`, inside the fire transaction, by any process with
  a loaded copy of the timer (`loaded`), which may be stale.
* A crash drops everything of the process, a panic ends one job; a store call
  may fail where the code goes on after a failure; timers are deleted.

Merged on purpose: `get_run` with the compare-and-swap after it (only the swap
decides); the cancel scan with the signal; `begin_startup`, which runs before the
process has other threads at work; the swap of `STOPPING` with the drop of the
sender. A failing `get_timer` in the pump is `PumpLaneBusy` under the store
fault; a failing `open_store` is an empty pass. Left out: wake hints (the tick
is the backstop the code relies on), dispatchers without a data directory, edits
of the overlap policy between fires, children that survive a crash.

### ReplyLifecycle

One owned timer. Durable: `live`, `fired` (the current run's sequence, so that
`MaxRuns` fires give runs 1, 2, ...), `row` (`run_states`), `lines` (how often
the outbox was given each kind of event of a run), `cursor`
(`slot_event_acks`), the reply files `file`, `bad`, the slot request in
`work/`. In the app: `book` (the monotonic deadline book), `heap` (the
scheduler's deadline entries), the watcher's program counter with the files it
still has to read and the deadlines it found lapsed, the deadline the scheduler
found lapsed. `fire` is a fire in progress of the app or of a CLI process.
Holding the gate is being between `BeginPoll` and `EndPoll` or between
`FireBegin` and `FireProject`; all other mutators are single steps under
`GateFree`, since each takes the gate, works in one transaction and leaves.

A reply is a record of what ingest tells apart: its state, whether it names the
right owner, carries `acknowledged_at`, an estimate, `error_detection`; and a
version, so that equal replies are recognised as duplicates and others are not.
`invalid` is a document that names its run but is refused on sight (no schema,
state or app name).

`Ingest` is the whole of `ingest_inner` and `apply`: validation in the order of
the code (`Outcome`), the row (`Folded`), the events (`Says`), the book and the
heap. The book is changed inside the transaction but is no part of it:
`IngestFails` and `FireAbort` roll back the row and keep the book.
`WatcherDue` and `WatcherExpire` are the two halves of `expire_all_deadlines`,
outside and inside the gate; `SchedPop` and `SchedExpire` those of
`handle_due_deadline`. `FireBegin` reads the waiting reply, `FireCommit` is the
transaction, `FireProject` what follows it under the gate.

Time is what is left of a deadline. A `Tick` takes one unit from the book (down
to zero) and from the wall-clock copies (below zero, down to `-Jump`); a jump of
the wall clock moves only the copies. Abstractions: unparsable JSON with its
debounce, oversize and special files are not modelled; every firing selects the
file transport, while replies are taken from files and IPC, as the code does;
heap hints are forwarded at once and may pop at any time (the code treats them
as hints); one watcher pass reads the clock at each step rather than once; the
startup scan and the watcher's first pass are one pass; a standalone run-now's
own scan with the app down is `Boot` followed by `CrashApp`; `status.json`,
durations and quarantine housekeeping are not modelled.

### Scheduler

The store is `row` (phase, rule, next fire, last fire, run count, config of each
timer), the claims `open` and `closed` of scheduled slots and the two kinds of
miss events. The thread's program counter `pc` names the place between two
transactions: `fire` (deliver_one), `mark` / `marking` (the read and the write
of `mark_fired`), `ensure*` (`ensure_advanced_past`), `advance*`
(`advance_past_now`), `catch` / `anchor*` / `caught` (the catch-up loop). A
revision only grows, so instead of numbers `fresh` holds the readers whose row
nobody has written since. A write whose revision is stale ends the thread
(`stopped`), as an error returned from the tick does. A rule is its set of
instants; the occurrence arithmetic itself is `Occurrence`.

Around the thread: time (`Pass`, only while it waits), steps of the wall clock at
any point, edits by other processes with and without a nudge, another rule,
creation, deletion, pause, shutdown, `run_now` in its three transactions, the
dispatcher finishing claims, crash and restart. Not part of it: the prune and
the reply scan at boot (`TimerFolders`, `ReplyLifecycle`), the deadline entries
in the same heap (`ReplyLifecycle`).

### EventOutbox

An event is its number; a file is the sequence of the events on its lines, with
`Torn` for a line nobody can parse. A process that holds the publisher lease is
at one place of the cycle `at`: recover a rotation, scan the tail, append, mark,
rotate (journal, rename, compress, sync, publish the archive, remove the source,
clear the journal), or prune and stamp. Crashes come between any two, `Faults`
says what may fail: file operations (`io`), a write that leaves part of a line
(`torn`), the read of the journal row (`journal`). The reader takes archives,
rotating file and current file in three steps. Archive names sort as the strings
of the code do: the numbered names of a week before the first, unnumbered one.

### Publication

`rows` are the transport projections with their order, state and attempts,
`cursor` the target cursors, `file` what each notification file names. Two
threads attempt projections (`job`): the dispatcher's pump and the one that
fired or reconciles; each works from a snapshot of the row (`snap`) through
`check`, `write`, `mark`, `fallback`, `pickup`, `remove`, which are the points
where `attempt` and `record_pickup` take and leave the gate and the target lock.
Clients connect, take their queue, hang up; apps consume, answer, acknowledge,
delete files, or stay silent.

### SlotChannel

`free`, `work`, `done` map a slot id to what its file holds, `bad` collects what
was set aside. A producer claims a stub by renaming it, verifies what it got,
writes its request back on the same name; a consumer moves it to `work/`, applies
it in one transaction with the ledger row, answers, and unlinks. Every process
replenishes stubs, and any may die between two file operations, find a failed
write or a failed transaction; somebody may take the answer away.

### Wake

`facts` is what a probe of this machine finds, `hw` the controller and its
hardware, `target` what the bridge believes is programmed (`last_target`). The
command thread and the login1 thread each read the candidates and then re-arm.
`Overlap` says whether the two interleave: TRUE is what the code allows, and
`WakesByTimerfd` fails then (section 4); FALSE is used by the run. Another program
may set the register at any time, whoever holds it (`ForeignAlarm`). Each write of
the register may fail, before or after the clear that precedes it (`Unwritten`, the
`...Fails` operators), and does when the permission is gone. `exposed` is a history
variable: the alarm was set while `sysfs_owned` was true, or a write has failed since.

### Occurrence, RuleEdits, Calendar

A small calendar (days of four hours, weeks of three days, months of two to four
days) stands for the real one; a zone is its table of transitions, so that a gap
and a fold, inside a day and at midnight, are cases. `NextFire` is translated
from `Occurrence::next_fire` with its walk over candidates, and checked against
`Promised`, the set of instants the rule's words promise. `RuleEdits` has the
three ways a form becomes a rule (flags, dialog, slot payload) and the two ways an
edit is saved. `Calendar` first edits or adds a timer while the scheduler may fire
it, then builds a view: one action per event record and per claim that is merged,
so that every order of them occurs, then one per timer projected.

### TimerFolders

`rows` is the timers table, `folders` the directory with what each `timer.json`
shows. The engine's thread fires, prunes, sweeps, reconciles and recalibrates, one
timer at a time, on lists it has read before. Editors create, switch, re-arm (a new
instant, perhaps without the end of the validity), delete, and run by hand, which
takes the engine's path from `ProjectFire` on. A timer's file lock is `gate`, `runs`
counts its unfinished runs. The prune is three steps, as its store calls are:
`StartPrune` lists the rows and keeps the time the pass began (`since`), `PruneTimer`
looks at the runs of one, `DeletePruned` deletes that id. `unseen` is a history
variable: the timers re-armed after the listing, or run after the look.

### Crontab

A text is a sequence of lines; a line is its kind, command, schedule, spacing and
the number of markers before it. A command of `bellman task` scans, reads again,
makes its new text, backs up, installs; the user may install a text in between.

## 3. Runs

`PROJECT.json` gives, for every property, a changed definition (a plausible bug)
under which the run finds the property violated.

| Run | Instance | Checks |
|---|---|---|
| `dispatcher` | app with two workers and a run-now process, one Replace timer, 2 fires; one kind of crash, shutdown, panic, failed store call or deletion | `NoDoubleExecution`, `OneOutcomeEvent`, `ReservationsBacked`, `ReplaceKeepsNewest`, `SerialOrder`, `ImplementsLedger` |
| `dispatcher_liveness` | two processes, one Skip timer, 2 fires, a crash and a panic, fairness | `EveryClaimFinishes` |
| `reply` | 2 fires, 2 replies out of a heartbeat and a verdict, one kind of fault | `VerdictStands`, `ImplementsLifecycle`, `OutcomeNotDropped` |
| `reply_restart` | 1 fire, a reply, any two kinds of crash, failed transaction, aborted fire, clock step, deletion, slot acknowledgement, fairness | `NoEarlyNoAck`, `PickupResolves`, `ReplyIsHeard` |
| `scheduler` | one timer of each misfire policy, two environment events, fairness | `HeapComplete`, `MaxRunsKept`, `DueIsHandled`, `BacklogIsLogged` |
| `outbox` | two processes, 3 events, a prune, one crash, one failed file operation or journal read, a query, fairness | `NothingLost`, `ArtifactsAreJournaled`, `QuietHistoryIsWhole`, `StampedAfterRotation`, `ImplementsLog`, `OutboxDrains` |
| `publication` | two timers on one fixed file, one of them over each transport, 2 fires, one event of the environment | `NamesItsFiles`, `NewerStays`, `SettledStays` |
| `slots` | two producers (an add, a delete), one consumer, two faults, fairness | `PublishedStays`, `AppliedOnce`, `AnswersAreDurable`, `EveryRequestSettles` |
| `wake` | 16 machines, two timers, three commands or foreign alarms, one change of the facts, failing writes | `WakesByTimerfd`, `ForeignKept` |
| `calendar` | timers with every kind of rule in six zones, 16 views, edits from every front end, any part of a history | `HistoryIsHonest`, `ProjectionIsComplete`, `EditsKeepTheRest` |
| `folders` | two one-shots whose folders collide, each to come, due, past its validity or fired; one edit or run by hand; one crash or second prune | `ViewHeals`, `PendingPreserved` |
| `crontab` | one command line, five texts, three commands, one edit by the user, one backup kept | `BackedUp`, `SparesTheOthers`, `RestoreIsExact` |

Most runs take one to two and a half minutes with two workers. The deadlock check is
off where the system may stop: a scheduler that was shut down, publication and
slots when nobody has anything to send, and the bounded instances of `Wake`,
`Calendar`, `TimerFolders` and `Crontab`.

### Bounds, and why they are enough

* *Dispatcher.* `MaxFires = 2`: what is at stake between claims of a timer is one
  claim and its successor. Two processes: a takeover has one giver and one taker;
  a second app is excluded by the code's own instance lock. Two workers, since one
  cannot race another. `Budget` bounds each kind of environment event, `MaxKinds`
  how many kinds occur in one behaviour: one fault is enough for each safety
  property and the proofs cover any number; two are combined where the question
  is about the combination (`dispatcher_liveness`, `reply_restart`). The Parallel
  policy is in no run: `LaneLimit`, the property that is about it, is a theorem.
* *Reply channel.* `MaxRuns = 2` for properties between a run and its successor, 1
  for those of a single run. `Grace = Span = 1` tick: a deadline is running or
  over; `Jump = 1` moves a wall-clock deadline from one side to the other. The
  replies are the cases ingest tells apart.
* *Scheduler.* `MaxTime = 3` with rules `{1, 2}` and `{3}`: a backlog of two slots,
  a slot to come, a change between them; steps of the clock of two are beyond the
  jump threshold of one. `Total = 2` environment events: an edit against a clock
  step, a manual run against a crash. `max_runs` of one and two are reached.
* *Outbox.* A file rotates at two lines and there are three events, so a rotation
  happens with the outbox not empty; a tail scan of one line is shorter than the
  file, as 256 KiB may be; a budget of four lines makes retention delete.
* *Publication.* Two fires on one file are an older and a newer; one attempt is
  allowed, so that the fallback is reached; a queue of one can be full.
* *Slots.* Two producers race for one free slot (`MinFree = 1`); five ids leave room
  for every file two requests and two faults can leave behind.
* *Wake.* Time 0 to 4 holds two fires and a foreign alarm before, between and after
  them; the machines are the outcomes the probes tell apart.
* *Calendar.* 17 days hold five months, one transition and every clamped month day;
  the caps (three tasks, five fires, eight entries, one line per cell) are
  exceeded by some of the lists.
* *Folders, crontab.* One edit or run by hand, which may fall anywhere in a pass, a
  prune, and a crash or a second prune; the validity ends while the pass may be under
  way (`Ends = {2}`) and the grace is over at once, so that every row that can be
  pruned is. One command after another with an edit by the user at any point.

The proofs of section 5 do away with these bounds for the theorems they cover.

### Fairness

*Dispatcher* (`Fairness`). Weak fairness per process for the main thread and the
pump: they are threads of the OS that do not wait for each other except on
modelled conditions, and the pump wakes up by its tick. The app, not the command,
is started again (`WF(Spawn)`): without any process nothing executes. Strong
fairness for each worker: a worker's release needs the lane book's mutex, which
the pump takes again and again, with a sleep in between; a worker that waits for
it gets it in the end, though it is not continuously enabled. An action ends
because `launch.rs` bounds it by its timeout.

*Reply channel* (`FairSpec`). Weak fairness of time, of the boot after a crash,
of the watcher thread, of a fire under way and of the scheduler's expiry. Nothing
makes the app write, acknowledge or behave; no fault is fair. `Boot` is fair
since nothing of the promise holds while Bellman stays off.

*Scheduler* (`FairSpec`). The thread is scheduled and time passes; edits, clock
steps and restarts are not fair.

*Outbox* (`Fairness`). A process that has begun a cycle goes on with it, and the
watcher's loop starts one when the lease is free. A crash ends a cycle and is
bounded; nothing makes a producer or a prune come.

*Slots* (`FairSpec`). Weak fairness of each process that runs: a poll loop goes on
and so does whoever publishes; nobody has to begin.

## 4. What the runs show

**Dispatcher.** With one process dying and the other leaving cleanly at any
point, no claim runs twice at once, its outcome event is committed exactly once
also when a Replace fire races the worker, a Replace timer keeps its newest claim,
a serial timer its order unless an attempt failed. Reservations survive panics, a
full channel, deletions and failed store calls. `Dispatcher` implements
`ClaimLedger`: the mapping takes the claims in the hands of a worker as the
ledger's `running`. Every claim finishes under fairness in spite of a crash and a
panic.

**Reply channel.** The app's verdict stands against deadlines, cursors, fires
and stale heartbeats; a fire hears a waiting verdict before it supersedes; a restart
loses no deadline and no reply; the wall clock does not cut a monotonic countdown
short. `ReplyLifecycle` implements `RunLifecycle`: whatever file, frame or cursor
speaks, only the current run of an existing timer moves, Bellman's own verdicts
(`no_ack`, a watchdog's failure) are open to revision and the app's are not, and the
log is told of a move in the step that makes it. The mapping splits `failed` by who
said so and takes as told the event kinds the outbox has a line of.

**Scheduler.** The heap, with its horizon, stale entries and rebuilds, never
misses a due timer; a due timer is handled in the end; without a crash `max_runs`
is kept though the claim and the count are two transactions and a manual run may
come between; Skip and Coalesce log every slot they pass.

**Outbox.** Nothing committed is lost by a crash or a failed operation at any
point of drain, rotation, recovery and prune; leftovers of a rotation are always
under the journal; a query that meets no publisher is complete; the outbox empties.
`EventOutbox` implements `AtLeastOnceLog`.

**Publication.** A shared notification file never goes back to an older firing,
a settled notification is never revived, and what a file says of the current run
is there.

**Slots.** A request that waits in `free/` is not replaced by a stub or by another
producer; it is applied once, answered only when recorded, and, in this instance,
settled in the end.

**Wake, calendar, folders, crontab.** An alarm that another program sets while
Bellman does not hold the register survives until a write of the register fails; a
timerfd never loses ours. The calendar shows each recorded run once and rightly, and
every fire the rule promises; an edit leaves alone what its form does not show. The
folder view heals after crashes; the prune spares what is still to fire or runs,
except for a new instant or a run that it could not have seen. A crontab edit changes
one line and can be undone.

### Where the code falls short

The modules state some properties that documents or comments promise and that TLC
refutes; they are marked "does not hold" and belong to no run. Each entry names what
happens.

*Dispatcher.* `pump_loop` compares the state with `STOPPING`, recovers, and stores
`STARTED` without comparing again (`actions/dispatcher.rs:385`): a shutdown in
between is forgotten, the pump never exits and the lock is kept. A follower starts
pumping when it gets the lock, whether or not its process has made the startup
scan that `SCH1_fire_dispatcher_lanes.md:301` puts first. The pending claims are
read before the lane book is locked, so a panic or a failed store call in between
lets the next claim of a serial timer overtake; `SerialOrder` says so. After a
takeover, `begin_startup` of a process that already pumps returns its own executing
claims to pending. A failed commit in `finish_claim` leaves a claim active until
the owner restarts.

*Executor.* A command that exits while a descendant keeps its pipes open makes
`run_launch` wait for the readers beyond timeout and cancel; an error of `try_wait`
leaves the child running.

*Reply channel.* `WatchdogFair`: an expiry found before the gate is not looked at
again under it; a heartbeat accepted in between does not save the run (against
`INTEGRATION.md:556-559`). An expiry whose re-check says no drops a countdown that
was re-armed meanwhile, and the next pass rebuilds it from the wall clock. The
comment at `slots/service.rs:299-301` (a failed hook is retried) is not true once
the run is `no_ack`. The barrier logs a rejection again for content that was
rejected before. An older reply left in the file is applied again after a newer
one came over IPC. `handle_due_deadline` takes the kind from the heap entry and the
time from the book entry of the run without comparing their kinds
(`scheduler/engine/misfire.rs:113`): after a reply whose transaction failed, or a
fire that aborted behind its barrier, has re-armed the book as a watchdog, a pickup
hint that wakes early (the wall clock was set forward) ends the pickup as soon as
that watchdog has lapsed, before the grace has passed. `NoEarlyNoAck` leaves such a
run out (`exact`).

*Scheduler.* `MissesAreLogged` (against `delivery.rs:34`): the catch-up loop passes
slots beyond its grace or limit without an event, and `ensure_advanced_past` jumps the
backlog behind a finished claim after a crash. `RetryIsSafe` (against
`docs/CLI.md:139`): `run_now` answers `stale_revision` for a fire that happened. A stale
revision in `mark_fired` ends the scheduler's thread for good. A jitter that moves the
execution before the slot drops the heap entry until the next rebuild; `HeapComplete` is
checked with positive jitter; it is false, too, when small steps of the clock, each
below the jump threshold, add up to more than the horizon before the next rebuild; when
the clock is set back in the middle of a pass (`ensure_advanced_past` then moves the
timer to a fire that is still before the pass's `now`, and the entry pushed for it is
dropped as resolved); and for an interval under Skip that is handled late by exactly its
period: it still counts as in grace, fires, and is due again at the very instant of the
pass, while `drain_due` holds that "handle_due must leave the timer not-due"
(`misfire.rs:102`) and drops the entry that was just pushed; the Skip timer of the run
is of a calendar kind, whose grace is zero. `BacklogIsLogged` is false beyond its
instance: of a backlog longer than `WalkCap` only the first slots are logged; and a
clock set back and forward again within one fire, with an edit of a timer that never
fired between, passes slots in silence, as does a manual run that moves the last fire
back after the clock was set back. After a crash between claim and count, `max_runs` is
exceeded by one. An edit of an overdue timer that never fired drops its slot.

*Outbox.* A write that fails half way is appended to, and the event is unreadable
though its row is gone (`events/log.rs:291`; fault `torn`). `HistoryIsWhole`: a
query that has read the archives misses what a rotation then puts there
(`service/log_query.rs:100`). `TailIsNewest`: the numbered archives of a week sort
before the first (`log_query.rs:84`). Two unreadable journal reads in a row let a
rotation overwrite a rotating file that was not recovered.

*Publication.* `RetriesStop`: the sweep takes the eight oldest live rows, and eight
superseded rows keep it from the others. An app that consumes and deletes a newer
notification lets an older one be written after it; an IPC client that reconnects
between two sweeps is not sent again what its old connection did not confirm; after a
deletion the publication order may start again below the cursor.

*Slots.* What `PublishedStays` says of `free/` is not so of `work/`, where `claim_file`
renames over what is there: a published request can be lost (`NoRequestLost`, kept as a
definition) when two consumers poll, or when a process delayed between `next_slot_id`
and its creation of the stub makes an id again whose request is in `work/` (three
producers and one crash). `OnlyGarbageIsBad`: a consumer that reads a slot between a
producer's claim and its write puts a request into `bad/` (against comments at
`service.rs:184` and `layout.rs:62`). `publish` answers an error after publishing when
the replenish fails, and a retry with a new id applies twice. A refused operation still
commits its acknowledgement.

*Wake.* `WakesInTime` with an RTC register: it is cleared at resume while
`last_target` still says it is armed, and re-arming is skipped. An earlier foreign
alarm that was kept leaves none of ours after it rings. With both threads at work
(`Overlap`) the older list of candidates may be armed last. On Windows and macOS
nothing re-arms after a fire or a resume. The macOS client takes a refusal for a
success, and its probe cancels the armed wake. A crash loses a displaced alarm.
`ForeignAlwaysKept`: `sysfs_owned` stays true after Bellman's alarm has gone off on a
machine that is awake (it is cleared only at `linux.rs:239`, 343 and 355), so the next
cancel writes 0 over an alarm that another program has set meanwhile (348-353). And a
write that fails loses one: `write_wakealarm_clear_set` has cleared the register by
then (376-383), and `cancel_sysfs` has forgotten the displaced alarm (349).

*Calendar and rules.* `TruncationIsTold` (against `calendar/types.rs`): the cap of a
task is spent on fires before the range without a note. A save from the window and
a slot modify send the whole rule: run count, cap, validity, exclusions and pending
skips are dropped, even by a rename. Every store write spends pending skips, and a
later edit brings a skipped fire back. A full schedule in a slot payload is not
checked for its zone. A range that begins at a midnight inside a gap is refused. Two
runs of a timer within one second are shown as one. With a fold that holds a midnight
`jump_past_exclusion_day` goes back, and a fire in the part of the old date that is
repeated is in no view of a single day: the range ends at the first of the two
midnights, and the next day's filters by date (`calendar/truth.rs:581`).
The model differs from the code in three places that no property sees: `bellman edit`
refuses a `--time` of the wrong form for the timer's kind, where the model saves
without it; a slot modify of a zone, a day or a name alone is accepted and computes the
next fire anew, where the model refuses it; and as all events of a run share one
instant in the run, that a fire is shown at its earliest event is not exercised.

*Folders.* `AnyPendingPreserved`: the prune lists, looks at the claims and deletes by
id in separate calls (`pruner/mod.rs:301-311`), so a one-shot that is given a new
instant after the listing, or whose run begins after the look, is deleted all the same.
The look is at the claims only: an app that still works on a finished claim loses its
timer (a deletion in `ReplyLifecycle`). `OverdueIsHandled`: the year recalibration
before the misfire pass loses an overdue one-shot. Two syncs at once allocate two folders, a late
edit recreates the folder of a deleted timer, and a crash leaves removals unlogged;
the next pass heals the first two.

*Crontab.* `DisabledIsTask`: the fallback to a line number marks a line that is
disabled already. With `ReadFails` a failed `crontab -l` counts as an empty crontab
and `task new` installs over it (`write.rs:243`). With trailing spaces enabling does
not restore the line exactly. `BackedUp` holds for one command line at a time: two
backups in one second share a name, so with the user's edit between them the second
command replaces the first one's backup before the first has installed its text.

## 5. Proofs

`tlapm` checks every step of the proof modules; the theorems hold for all
values of the constants that satisfy the named assumptions of the modules.

| Module | Theorem | Says |
|---|---|---|
| `DispatcherProofs` | `TypeCorrect` | `Spec => []TypeOK` |
| | `OwnerExecutes` | only the holder of the OS lock executes |
| | `ExecutedOnce` | no claim is executed twice at once |
| | `LanesKeepLimit` | running actions never exceed the lane's limit |
| | `FinishedStays` | a finished claim is never rewritten |
| | `OutcomeToldOnce` | one outcome event per finished claim |
| | `NewestIsKept` | Replace marks all unfinished claims but the newest |
| | `LanesDoNotLeak` | each reservation is backed by a hint or a worker |
| | `SerialClaimsInOrder` | claims of a serial timer run in order while no attempt fails |
| | `DispatcherImplementsLedger` | the refinement of `ClaimLedger` |
| `ReplyProofs` | `ReplyTypes` | `Spec => []TypeOK` |
| | `VerdictIsKept` | the app's verdict is replaced only by its own |
| | `EarlierRunsAreFinal` | the state of a run that is not current never changes |
| | `ReplyImplementsLifecycle` | the refinement of `RunLifecycle` |
| | `WaitingVerdictIsHeard` | no fire supersedes over a waiting verdict |
| | `ToldOnce`, `ToldVerdict` | events are logged once, a verdict has been logged |
| | `GraceIsGiven` | no pickup ends before its grace while its countdown is monotonic |
| `SharedFileProofs` | `RequestsApplyOnce` | a request changes the timers at most once |
| | `AnswersAreRecorded` | an answer is there only for what the ledger holds |
| | `PublishedRequestsStay` | nothing replaces a request that waits in `free/` |
| | `ReplacedTextIsBackedUp` | with one command line at a time, a backup holds the text that is replaced |
| | `OthersLinesAreSpared` | while `crontab -l` does not fail, a command leaves all lines but its own alone |
| | `DisablingIsUndone` | without trailing blanks, disables and enables leave every line as it was written |
| `PublicationProofs` | `SettledIsFinal` | picked up and obsolete are final |
| | `FilesNeverGoBack` | a file never goes back to an older firing |
| | `NotificationsNameFiles` | a notification of the current run lies beside its `status.json` and stub |
| | `HistoryIsToldOnce` | the calendar shows each past fire once, truly, and leaves none out |
| | `EditsAreFaithful` | a saved edit changes what its form names and nothing else |
| `OutboxProofs` | `NothingIsLost`, `LeftoversAreJournaled`, `StampsAreEarned` | the safety properties of the outbox |
| | `QuietQueriesAreWhole` | a query that met no publisher returns the whole log |
| | `OutboxImplementsLog` | the refinement of `AtLeastOnceLog` |
| `WakeProofs` | `ForeignAlarmSurvives` | another program's alarm set in a free register is kept until a write fails |
| | `TimerfdWakes` | without overlap, a machine with a timerfd never sleeps over a fire |
| `SchedulerProofs` | `MaxRunsAreKept` | no more slots are claimed than `max_runs` allows |
| | `HeapIsComplete` | with room in the horizon for the clock's steps, a sleeping scheduler is woken for every due timer |
| | `BacklogsAreLogged` | while the clock is not set back and a walk passes any backlog, Skip and Coalesce pass no due slot in silence |
| `FolderProofs` | `ViewIsHealed` | after an undisturbed pass the folders show the table |
| | `PendingIsPreserved` | the prune takes no one-shot that is to fire or runs, but for what it could not see |

*Dispatcher.* `TypeInv` adds to `TypeOK` that a worker between receipt and release
holds a claim (`WorkersHold`): otherwise its row has no type. `LanesInv` is what
keeps two workers off one claim: a claim is in the channel once
(`HintsReserved`), a worker's claim is reserved (`HeldReserved`), is not hinted
again while it is held (`HeldNotHinted`) and is nobody else's in this process
(`HeldOnce`); between processes it is the lock: without it a process neither pumps
nor works nor has hints left (`IdleWithoutLock`), which `ShutdownRelease` keeps
because exited workers leave an empty channel (`ExitedDrained`). None of the safety
properties is inductive without these: from a state with a claim hinted twice, two
workers take it. `LaneWithinLimit` counts reservations, `LaneLimit` the running
actions among them. `ReplaceInv` adds that claims are inserted in order and that
only existing ones are asked to cancel. `SerialOrder` needs `OrderInv`, about
the order in which a process takes claims over: before its recovery nothing is
hinted or reserved; after it an active claim is in the hands of one of its workers,
and a worker lets go of finished claims only; what is older than a claim of the
pump's snapshot and not finished is in the snapshot or in the lane; so a reserved
claim of a serial timer waits for no older one. It holds while `Calm`: a panic or a
failed store call throws a claim back behind its successor. The refinement needs `TypeInv`,
`LanesInv` and `LaneWithinLimit`: every step starts, retries, finishes, forgets or
leaves alone what the ledger's mapping shows.

*Reply channel.* `FireInv` is about the gate: the watcher's pass and a fire exclude
each other (`GateHeldOnce`), so that what a fire has read still lies in the file
unless the app wrote (`ReadIsCurrent`); `FireKnows` and `FilesOfFired` bound the run
a fire and a file can name. `RowSteps` is the lemma the rest hangs on: whatever
action is taken, each run is kept, hears an applied reply, is closed by a fire,
picked up, lapses, times out, is cancelled or starts - and all but the first and the
last happen to the current run only. For the log, `StepTells` says of the events
that a step enqueues why they were not enqueued before, and `LogInv` relates lines
and row. For the grace, `ClockInv` says that what the book has left and what has
passed since the fire make up the grace (`InTime`), that a pickup found lapsed has
had all of it, and that nothing counts for a run that was not fired (`NotStarted`):
a lapse is found in one step and acted upon in a later one, with replies, fires and
clock steps between. The refinement needs two facts more (`LifeInv`): a pass with
files to read and a fire about to commit exist only while the timer does
(`BusyWhileLive`, which `Delete` keeps because it waits for the gate), and a run that
was fired stands somewhere, with no watchdog before the app has spoken (`Standing`) -
otherwise a reply could be heard after the deletion, or a run time out that nobody
picked up. A fire that hears a waiting reply is one abstract step: `FireCloses` finds
where the reply leaves the run and shows that the fire then closes it or not, and that
the log gets the lines of both.

*Slots.* `Entered` ties how often a request changed the timers to its ledger row,
`Held` says that a consumer about to answer has seen that row. One lemma
(`Elsewhere`) disposes of every step that leaves ledger and answers alone.
`PublishedRequestsStay` rests on the claim lock: two producers never hold one slot
(`Exclusive`), and until the holder writes there is a stub or nothing on its name, in
its claim file too (`Reserved`), so that its rename, its write and its way back never
meet a request.

*Crontab.* Its theorems stand beside those of the slots, the other files that Bellman
shares with other writers; the module's `CronSpec` and its like carry a prefix so that
one module can extend both. A command scans, reads again, saves and installs, and
anybody may install a text between two of these steps. `CronInv` says what it may rely
on as long as nobody did (`calm`): the task it found still stands in the crontab, and
the text it has read is the crontab (`Current`); and always, that what it will install
is the rewrite of what it has read (`Planned`). So the line it looks for is found
exactly (`ExactFound`) and the fallback to a line number is not taken. The rest is about
sequences: `Inserted` shows that the fence code splices its lines in at one place
(`Spliced`), `KeepsBare` that a transformed line says what it said. The hypotheses are
the ones without which the properties are false (section 4): a `crontab -l` that does
not fail, no trailing blanks, one command line at a time for the backup. `Backups` says
that files are named by seconds up to now, so the prune never takes the one just made
(`NewestIsKeptByPrune`).

*Publication.* The threads act on snapshots, so the invariant is about what a
snapshot still says: `Known` - the order and the timer of a row do not change while the row is
there - for what a thread holds and for what it has still to visit; `Numbered`
keeps the order of the rows below the fires. Each step is shown `Orderly`: rows only
move on, a file only goes forward. For `NotificationsNameFiles` the look for the files
and the write are two steps, with fires and deletions between: `Ready` says that the
files a writing thread has seen are there still if its run is still current, and
`FilesStay` what that asks of every step.

*Calendar.* Its theorem stands beside those of the notifications, the other account of
what was fired; `CalendarSpec` and its like carry a prefix for that. `Sorted` says what the two
indexes know while evidence is merged one piece after the other: each timer and
instant has one bucket, found by its second and by every run that has joined it, and its
kinds are those of the events taken so far. It is stated for any set of events and of
claims, so one lemma (`MergeSorts`) serves both loops. From it the entries are unique,
rightly labelled and complete (`Honest`), and the projection adds only what is not
covered, timer by timer (`Distinct`: ids are unique). It assumes that a run's events
carry the slot of its claim (`Identified`; each one is made with the claim's
`scheduled_for`), and `DatesInOrder`: clocks are not put back over a midnight of the range, where
the property is false (section 4). Edits and fires before the view keep the ids and are part of the
proof. `EditsAreFaithful` is about those: `EditInv` says that an open editor holds the row
as it is, or one with a smaller revision - every fire raises it - so that a save that
passes the comparison of revisions was made from the rule it replaces. What the
front ends make of that rule are facts about functions (`PatchKeepsTheRest`,
`DialogKeepsTheRest`), for rules that are `Plain`: the fields of other kinds are at
their defaults, which `OccurrenceKind`, an enum, does not have at all; edits and fires leave
them so (`PlainStays`).

*Outbox.* The theorems assume `Whole`: a write may fail, but leaves whole lines or none,
and the journal row can be read. Without it they are false (section 4). `Phase(p)` says
for every place of the cycle what journal, rotating file, temporary archive and archives
are there, and `Covered` that the lines of the rotating file are in the final archive
before it is removed; `Turn` that only the holder of the lease is at such a place.
`QuietQueriesAreWhole` needs no `Whole`: while nobody is elected, what a query has not
seen yet is in the files it has still to read (`StillToFind`), and whoever is in a cycle
holds the lease (`Leased`). Every step commits, publishes, settles or expires (`Moves`),
which gives the refinement too.

*Wake.* `Loose`: what is displaced is remembered only while the register is ours;
`Safe` adds that a foreign alarm to come that is not `exposed` is in a register that is
not ours, or remembered. What succeeds keeps `Safe`; what fails sets `exposed` and
keeps `Loose` (`RearmSafe`). They hold with `Overlap` too. `TimerfdWakes` assumes `~Overlap`, without which it is false
(section 4). Its `WakeInv` says what a re-arm may rely on (`Standing`: what
`last_target` names is programmed unless it has gone off), that the fire login1 has
elected is still none after the earliest when it is armed (`Elected`: a timer that
fires in between only moves it on), and that from then to the sleep the alarm is to
come and in time (`Covered`). A tick, a probe and a resume keep that because a probe
that finds the same mechanism keeps the descriptor (`TimerfdReprobed`).

*Scheduler.* A claim and its count are written by two transactions, so "no more
claims than counted runs" is not inductive: between `Fire` and `MarkFired` one claim
is uncounted, and a manual run may count in between. `Limits` keeps the balance by
where the thread is: the claims of a timer are counted (`Counted`), except that at
`mark` and `marking` the timer in hand may owe one (`Owed`, `Owing`), and before a
`Fire` it has a run left (`Ready`). A row names a next fire only while runs are left
and only after its last one (`RowOK`), which is what makes the due handler's decision
good for the transaction that follows. A restart or a new rule gives the balance up
(`Calm`): the property says nothing after them, because the code does not.

For `HeapIsComplete`, every push has looked to the horizon from its own now, not from
that of the rebuild; `Reach` is how far the heap has seen all the same at any later
moment: the horizon, less the time since the last rebuild, less what each step of the
clock can have taken (`Charge`). A live timer is queued up to its fire's execution,
or due beyond that reach (`Queued`), or the timer in hand (`Held`), or one that a pass
has still to come to; a pass re-reads what it pops, so stale entries only wake it for
nothing. A timer beyond the reach is not due before the floor has passed, and then
the heap is rebuilt. The hypotheses are those without which the property is false
(section 4): no jitter comes before its slot and no interval is under Skip (`Tunable`);
the clock is set back only while the thread sleeps (`SetBackWhileWaiting`); and the
horizon exceeds the floor by the largest jitter and by every step of the clock, each
at most `back` to the past and, unseen, below the jump threshold to the future. The
code's floor of 60 s and threshold of 3 s leave its default horizon of a day room for a
thousand steps of up to a minute. The bound is sufficient, not necessary: the instance
TLC checks has a shorter horizon, which lets fires lie beyond it, and the property holds
there too.

For `BacklogsAreLogged`, `Reached` says of an instant that nothing after it has been
passed: every later slot of the rule is still pending, or the rule is at its end. A
timer that is taken in hand brings its backlog with it (`Backlog`): each of its slots
is in the batch that is written with the next claim, or is that claim, or has been
logged (`Carried`). Between two fires a claim lies at or before the last fire, or the
mark that is owed for it (`Recorded`); manual runs and the scheduler move the last fire
to what has been reached only (`Aging`, `ManualAging`). It is stated for `Calm`, like the
limits, and assumes that the clock is not set back and that no rule has more instants
than one walk passes (`Uncapped`); both are needed (section 4).

*Folders.* `Typed` adds to the types that a folder with a readable `timer.json` bears
the id or the short form of the timer it names, which is what lets `Ours` find it.
`HealInv` says what an undisturbed pass has reached: while nobody interferes the engine
is on a pass (`Quiet`); what the sweep has passed names living timers (`Swept`); the
reconcile's list is the table, each timer it has passed is shown, and the folder it is
about to write is free or that timer's own (`Healing`) - so showing one timer never
hides another. It needs that no id is the short form of another (`IdsAssumption`).
`PendingIsPreserved` rests on `OneShots`. A one-shot is due at its instant or nowhere,
and nowhere only once it has fired, its instant has passed or its validity excludes it
(`RowsTimely`); an id is never used again (`Unborn`). So a row the prune has listed
without a next fire has none while it is not `unseen`, and its instant and validity are
what was listed (`ListTimely`). That needs a fact about threads that fire with a row
read long ago (`FiresOk`): at an equal revision it is the row that is there, so the
mark of a stale run by hand is refused and never brings a next fire back. The timer in
hand was finished by the list, and without a run when looked at (`Doomed`). `RowMoves`
says how a step changes a row: created, deleted, switched, re-armed, marked or
recalibrated.

### Only model-checked

Liveness (`EveryClaimFinishes`, `PickupResolves`, `ReplyIsHeard`, `DueIsHandled`,
`OutboxDrains`, `EveryRequestSettles`) is out of the prover's reach, since fairness
is. Of the safety properties only `ProjectionIsComplete` is checked and not proved: the
search of `Occurrence` is a recursive function over its candidates, the preview one over
its fires and the grid a fold over its cells; what they compute for every rule are
inductions over data.
`TypeOK` of `Dispatcher` and `ReplyLifecycle` is proved; in the other modules it
states the types and was checked while they were written, and each proof carries
the part it needs.

## 6. Not modelled

* *Executor.* The child process, its pipes and process group, the global limiter
  (`concurrency.rs`) and the notification backends: an execution is a step that
  ends with a result.
* *SQLite, schema, guards.* A transaction is a step or fails; migrations and
  file-system checks run once at open.
* *Reply channel.* Unparsable JSON with its debounce, oversize and special files,
  retention in `bad/`, `status.json`, durations.
* *Occurrence.* The cron kind (its search is an external crate), chrono, the zone
  database. The real calendar is replaced by a small one with the same rules.
* *IPC.* Sockets, framing, size limits.
* *Wake.* Status lines, `armed_epoch`, holding the system awake, the OS calls.
* *Visible schedules.* The scan and its snapshots, `run_task`, the systemd, at and
  anacron providers, `/etc/cron.d`, `CRON_TZ`: read-only, or external programs.
* *Calendar.* Names and labels, svg and png, `neighbours.rs`.
* *Folders.* The event lines of deletes and prunes, the JSON layout; the app's replies
  to a run, which the prune does not look at (`ReplyLifecycle` has them); a second
  engine (the code's instance lock excludes it).
* *Front ends.* Argument parsing, output, windows, tray, wizard, demo;
  `occurrence_input.rs`, which nothing calls.

## 7. What is left

The two-consumer slot channel once the code guards
`work/`; the providers of `visible/` beside cron.
