--------------------------- MODULE ReplyLifecycle ---------------------------
(***************************************************************************)
(* The reply channel of one owned timer: what an app says of a run         *)
(* (reply/engine.rs), how Bellman reads it (reply/watcher.rs,              *)
(* ipc/server.rs, slots/service.rs) and how the next fire supersedes it    *)
(* (tree/mod.rs).                                                          *)
(*                                                                         *)
(* The app writes reply files, sends IPC frames and moves the slot cursor. *)
(* Threads of the desktop app - the watcher, the scheduler, IPC clients -  *)
(* and fires of this and of other processes change the run rows, each      *)
(* under the timer's interprocess gate.  Deadlines count down on a         *)
(* monotonic clock; their wall-clock copies serve restarts.  Times are     *)
(* what remains of a deadline, in ticks.                                   *)
(***************************************************************************)
EXTENDS Integers, FiniteSets

CONSTANTS
    MaxRuns,     \* bound: fires of the timer
    Docs,        \* contents a reply can have
    Grace,       \* pickup_grace, in ticks
    Span,        \* expected_secs * watchdog_factor, in ticks
    Jump,        \* how far a wall-clock step goes
    Budget,      \* bound: how often each environment event may happen
    MaxKinds,    \* bound: the kinds of environment event one behaviour holds
    NoDoc, Stub, NoFile, NoTime, NoEntry

Runs == 1..MaxRuns
AppStates == {"acknowledged", "running", "completed", "failed"}
Terminal == {"completed", "failed", "no_ack", "superseded", "cancelled"}
States == AppStates \union Terminal \union {"none", "fired"}
LineKinds == AppStates \union Terminal \union {"late", "rejected"}
DeadlineKinds == {"pickup", "watchdog"}
EnvEvents == {"crash", "store", "abort", "jump", "write", "ack", "delete"}

\* A reply: `state` is "invalid" when the reply can be refused on sight (no
\* schema, run id, state or app name), `owner` says that it names the timer's
\* app, `version` tells replies of equal meaning apart.
Replies == [state : AppStates \union {"invalid"}, owner : BOOLEAN, ack : BOOLEAN,
            secs : BOOLEAN, detect : {"on", "off", "keep"}, version : Nat]

ASSUME DocsAssumption == Docs \subseteq Replies /\ NoDoc \notin Docs
ASSUME FilesAssumption == {Stub, NoFile} \intersect Docs = {} /\ Stub # NoFile
ASSUME TimesAssumption ==
    Grace \in Nat /\ Span \in Nat /\ Jump \in Nat /\ NoTime \notin Int
ASSUME EntryAssumption == NoEntry \notin [kind : DeadlineKinds, left : Nat]
ASSUME BoundsAssumption ==
    {MaxRuns, MaxKinds} \subseteq Nat /\ Budget \in [EnvEvents -> Nat]

VARIABLES
    (* durable: SQLite and the timer's folder *)
    live,        \* the timer row exists
    fired,       \* event_sequence of the current run, 0 before the first
    row,         \* run_states
    lines,       \* events of each run in the outbox
    cursor,      \* slot_event_acks.last_acked_sequence
    file,        \* reply-<run_id>.json
    bad,         \* quarantined contents
    request,     \* ack_through of the slot request in work/, 0 if none
    (* the desktop app *)
    up,          \* "down", "booting", "up"
    book,        \* DeadlineBook.entries
    heap,        \* deadline entries of the scheduler heap
    watcher,     \* program counter of the watcher thread
    toPoll,      \* reply files of the pass the watcher has not read yet
    due,         \* deadlines the watcher found lapsed
    popped,      \* the deadline the scheduler found lapsed
    (* the fire in progress, of any process *)
    fire,
    (* history and bounds *)
    age,         \* ticks since the commit of the fire, up to Grace
    quiet,       \* ticks since the last accepted reply, up to Span
    exact,       \* runs whose deadlines were never rebuilt from the wall clock and
                 \* never moved by a transaction that failed
    hasty,       \* runs failed by the watchdog before they were quiet for Span
    overtaken,   \* runs whose reply changed while a fire was reading it
    spent

ledger == <<live, fired, row, lines, cursor>>
folder == <<file, bad>>
appVars == <<up, book, heap>>
watchVars == <<watcher, toPoll, due>>
history == <<age, quiet, exact, hasty, overtaken>>
vars == <<ledger, folder, request, appVars, watchVars, popped, fire, history, spent>>

-----------------------------------------------------------------------------
Times == Int \union {NoTime}
Rows == [state : States, acked : BOOLEAN, secs : BOOLEAN, detect : {"on", "off", "keep"},
         kind : {"none", "reported", "timed_out"}, pickup : Times, watch : Times,
         ackLogged : BOOLEAN, runLogged : BOOLEAN, digest : Docs \union {NoDoc}]
Entries == [kind : DeadlineKinds, left : Nat]
WatcherPCs == {"slots", "hook", "scan", "polling", "due", "expire", "reconcile"}
Fires == [pc : {"idle", "read", "committed"}, by : {"app", "cli"},
          doc : Docs \union {NoDoc}, closes : 0..MaxRuns]

TypeOK ==
    /\ live \in BOOLEAN
    /\ fired \in 0..MaxRuns
    /\ row \in [Runs -> Rows]
    /\ lines \in [Runs -> [LineKinds -> Nat]]
    /\ cursor \in 0..MaxRuns
    /\ file \in [Runs -> Docs \union {Stub, NoFile}]
    /\ bad \subseteq Runs \X Docs
    /\ request \in 0..MaxRuns
    /\ up \in {"down", "booting", "up"}
    /\ book \in [Runs -> Entries \union {NoEntry}]
    /\ heap \subseteq Runs \X DeadlineKinds
    /\ watcher \in WatcherPCs
    /\ toPoll \subseteq Runs
    /\ due \subseteq Runs \X DeadlineKinds
    /\ popped \subseteq Runs \X DeadlineKinds /\ Cardinality(popped) <= 1
    /\ fire \in Fires
    /\ age \in [Runs -> 0..Grace]
    /\ quiet \in [Runs -> 0..Span]
    /\ exact \subseteq Runs
    /\ hasty \subseteq Runs
    /\ overtaken \subseteq Runs
    /\ spent \in [EnvEvents -> Nat]

NewRow(state, pickup) ==
    [state |-> state, acked |-> FALSE, secs |-> FALSE, detect |-> "keep", kind |-> "none",
     pickup |-> pickup, watch |-> NoTime, ackLogged |-> FALSE, runLogged |-> FALSE,
     digest |-> NoDoc]
NoFire == [pc |-> "idle", by |-> "app", doc |-> NoDoc, closes |-> 0]

Init ==
    /\ live = TRUE
    /\ fired = 0
    /\ row = [r \in Runs |-> NewRow("none", NoTime)]
    /\ lines = [r \in Runs |-> [k \in LineKinds |-> 0]]
    /\ cursor = 0
    /\ file = [r \in Runs |-> NoFile]
    /\ bad = {}
    /\ request = 0
    /\ up = "down"
    /\ book = [r \in Runs |-> NoEntry]
    /\ heap = {}
    /\ watcher = "scan"
    /\ toPoll = {}
    /\ due = {}
    /\ popped = {}
    /\ fire = NoFire
    /\ age = [r \in Runs |-> 0]
    /\ quiet = [r \in Runs |-> 0]
    /\ exact = {}
    /\ hasty = {}
    /\ overtaken = {}
    /\ spent = [e \in EnvEvents |-> 0]

Spend(e) ==
    /\ spent[e] < Budget[e]
    /\ Cardinality({f \in EnvEvents \ {e} : spent[f] > 0}) < MaxKinds
    /\ spent' = [spent EXCEPT ![e] = @ + 1]

\* Every mutator of the timer's runs holds the per-timer gate.
GateFree == watcher # "polling" /\ fire.pc = "idle"

\* The events of run r after one of each of `kinds` was enqueued.
Told(r, kinds) == [k \in LineKinds |-> lines[r][k] + IF k \in kinds THEN 1 ELSE 0]

-----------------------------------------------------------------------------
(* Ingest: what a reply `d` naming run `r` does when `current` is the      *)
(* timer's current run.                                                    *)

AppTerminal(w) == w.state = "completed" \/ (w.state = "failed" /\ w.kind = "reported")

Regresses(r, d) == AppTerminal(row[r]) /\ d.state \in {"acknowledged", "running"}
UnboundedDetection(r, d) == d.detect = "on" /\ ~d.secs /\ ~row[r].secs

\* Mutants: a reply may take its verdict back; a run that was superseded may
\* still be revised.
AcceptsRegression(r, d, current) ==
    CASE d.state = "invalid" -> "rejected"
      [] d.state # "invalid" /\ r # current ->
            IF row[r].digest = d THEN "stale_repeat" ELSE "stale"
      [] OTHER -> IF row[r].digest = d THEN "duplicate" ELSE "applied"
AcceptsStale(r, d, current) ==
    CASE d.state = "invalid" \/ ~d.owner \/ Regresses(r, d) \/ UnboundedDetection(r, d) ->
            "rejected"
      [] OTHER -> IF row[r].digest = d THEN "duplicate" ELSE "applied"

\* ingest_inner's validation, in its order.
Outcome(r, d, current) ==
    CASE d.state = "invalid" -> "rejected"
      [] d.state # "invalid" /\ r # current ->
            IF row[r].digest = d THEN "stale_repeat" ELSE "stale"
      [] d.state # "invalid" /\ r = current ->
            IF ~d.owner \/ Regresses(r, d) \/ UnboundedDetection(r, d) THEN "rejected"
            ELSE IF row[r].digest = d THEN "duplicate" ELSE "applied"

\* The reply leaves the watchdog running.
Arms(r, d) ==
    /\ d.state \notin Terminal
    /\ d.detect = "on" \/ (d.detect = "keep" /\ row[r].detect = "on")
    /\ d.secs \/ row[r].secs

\* The transitions that accepting the reply logs.
SaysAcknowledged(r, d) ==
    {k \in {"acknowledged"} :
        ~row[r].ackLogged /\ (row[r].acked \/ d.ack \/ d.state = k)}
SaysRunning(r, d) == {k \in {"running"} : d.state = k /\ ~row[r].runLogged}
SaysVerdict(r, d) == {k \in Terminal : d.state = k /\ row[r].state # k}
Says(r, d) == SaysAcknowledged(r, d) \union SaysRunning(r, d) \union SaysVerdict(r, d)

\* apply: the row that accepting the reply leaves.
Folded(r, d) ==
    [row[r] EXCEPT
        !.state = d.state,
        !.acked = @ \/ d.ack \/ d.state = "acknowledged",
        !.secs = @ \/ d.secs,
        !.detect = IF d.detect = "keep" THEN @ ELSE d.detect,
        !.kind = CASE d.state = "completed" -> "none"
                   [] d.state = "failed" -> "reported"
                   [] OTHER -> @,
        !.pickup = NoTime,
        !.watch = IF Arms(r, d) THEN Span
                  ELSE IF d.state \in Terminal \/ d.detect = "off" THEN NoTime ELSE @,
        !.ackLogged = @ \/ "acknowledged" \in Says(r, d),
        !.runLogged = @ \/ d.state = "running",
        !.digest = d]

IngestRow(r, d, current) ==
    CASE Outcome(r, d, current) = "applied" -> Folded(r, d)
      [] Outcome(r, d, current) = "stale" -> [row[r] EXCEPT !.digest = d]
      [] OTHER -> row[r]
IngestLines(r, d, current) ==
    CASE Outcome(r, d, current) = "applied" -> Says(r, d)
      [] Outcome(r, d, current) = "stale" -> {"late"}
      [] OTHER -> {}
\* The deadline book after it: pickup is consumed, the watchdog re-armed or
\* disarmed.  (The book changes at once, not when the transaction commits.)
IngestBook(r, d, current) ==
    IF Outcome(r, d, current) # "applied" THEN book
    ELSE [book EXCEPT ![r] = IF Arms(r, d) THEN [kind |-> "watchdog", left |-> Span]
                             ELSE NoEntry]
IngestHeap(r, d, current) ==
    IF Outcome(r, d, current) = "applied" /\ Arms(r, d)
    THEN heap \union {<<r, "watchdog">>} ELSE heap
IngestQuiet(r, d, current) ==
    IF Outcome(r, d, current) = "applied" THEN [quiet EXCEPT ![r] = 0] ELSE quiet

\* One reply of run r enters through a transport of the app, which logs a
\* rejection when `isNew`.
Ingest(r, d, isNew) ==
    /\ row' = [row EXCEPT ![r] = IngestRow(r, d, fired)]
    /\ lines' = [lines EXCEPT ![r] = Told(r, IngestLines(r, d, fired) \union
          IF Outcome(r, d, fired) = "rejected" /\ isNew THEN {"rejected"} ELSE {})]
    /\ book' = IngestBook(r, d, fired)
    /\ heap' = IngestHeap(r, d, fired)
    /\ quiet' = IngestQuiet(r, d, fired)
    /\ UNCHANGED exact

\* The book changed and the row did not.
MovedAlone == exact' = {r \in exact : book'[r] = book[r]}

\* Its transaction fails; the book has changed all the same.
IngestFails(r, d) ==
    /\ book' = IngestBook(r, d, fired)
    /\ heap' = IngestHeap(r, d, fired)
    /\ MovedAlone
    /\ UNCHANGED <<row, lines, quiet>>

-----------------------------------------------------------------------------
(* The app behind the timer.                                               *)

\* It writes the reply file of any run it has heard of.
AppWrites(r, d) ==
    /\ live /\ r <= fired
    /\ file[r] # d
    /\ Spend("write")
    /\ file' = [file EXCEPT ![r] = d]
    /\ overtaken' = IF fire.pc = "read" /\ r = fired THEN overtaken \union {r} ELSE overtaken
    /\ UNCHANGED <<ledger, bad, request, appVars, watchVars, popped, fire,
                   age, quiet, exact, hasty>>

\* It sends the reply over its IPC connection: handle_reply_frame.
AppSends(r, d) ==
    /\ live /\ r <= fired /\ up = "up"
    /\ GateFree
    /\ \/ Ingest(r, d, TRUE) /\ Spend("write")
       \/ IngestFails(r, d) /\ Spend("store")
    /\ UNCHANGED <<live, fired, cursor, folder, request, up, watchVars, popped, fire,
                   age, hasty, overtaken>>

\* It acknowledges firings through a slot request.
AppAcks(s) ==
    /\ live /\ request = 0
    /\ cursor < s /\ s <= fired
    /\ Spend("ack")
    /\ request' = s
    /\ UNCHANGED <<ledger, folder, appVars, watchVars, popped, fire, history>>

-----------------------------------------------------------------------------
(* Pickup through the slot cursor.                                         *)

AckedRow(r) == [row[r] EXCEPT !.state = "acknowledged", !.acked = TRUE, !.pickup = NoTime,
                              !.ackLogged = TRUE]
AckLines(r) == IF row[r].ackLogged THEN {} ELSE {"acknowledged"}

Loop(pc) == watcher' = pc /\ UNCHANGED <<toPoll, due>>

\* slot_execute_once: the cursor advances with the response.
SlotCommit ==
    /\ watcher = "slots" /\ up = "up"
    /\ request # 0 /\ live
    /\ cursor' = IF request > cursor THEN request ELSE cursor
    /\ Loop("hook")
    /\ UNCHANGED <<live, fired, row, lines, folder, request, appVars, popped, fire,
                   history, spent>>

\* reply_ack_hook, with an engine and a book of its own; a failure is only
\* logged.  The work file goes.
SlotHook ==
    /\ watcher = "hook"
    /\ GateFree
    /\ \/ /\ IF /\ live /\ fired # 0 /\ fired <= request
                /\ \/ row[fired].state = "fired" /\ row[fired].pickup # NoTime
                   \/ row[fired].state = "no_ack"
             THEN /\ row' = [row EXCEPT ![fired] = AckedRow(fired)]
                  /\ lines' = [lines EXCEPT ![fired] = Told(fired, AckLines(fired))]
             ELSE UNCHANGED <<row, lines>>
          /\ UNCHANGED spent
       \/ Spend("store") /\ UNCHANGED <<row, lines>>
    /\ request' = 0
    /\ Loop("scan")
    /\ UNCHANGED <<live, fired, cursor, folder, appVars, popped, fire, history>>

\* No request; the timer is gone (an error response); the request cannot be
\* executed and goes to bad/.
SlotsDone ==
    /\ watcher = "slots" /\ up = "up"
    /\ \/ request = 0 /\ UNCHANGED <<request, spent>>
       \/ ~live /\ request' = 0 /\ UNCHANGED spent
       \/ request # 0 /\ Spend("store") /\ request' = 0
    /\ Loop("scan")
    /\ UNCHANGED <<ledger, folder, appVars, popped, fire, history>>

-----------------------------------------------------------------------------
(* poll_once: the reply files.  The gate is held from BeginPoll to EndPoll. *)

BeginPoll ==
    /\ watcher = "scan" /\ up # "down"
    /\ GateFree
    /\ toPoll' = {r \in Runs : live /\ file[r] # NoFile}
    /\ watcher' = "polling"
    /\ UNCHANGED <<ledger, folder, request, appVars, due, popped, fire, history, spent>>

\* Mutant: a reply that acknowledges nothing is taken for the stub.
LooksLikeStub(c) == c = Stub \/ (c \in Docs /\ ~c.ack)
IsUntouchedStub(c) == c = Stub

\* handle_bytes.  A refused reply is copied to bad/ and logged when the copy is
\* new; a reply of an older run is deleted.
PollFile(r) ==
    /\ watcher = "polling" /\ r \in toPoll
    /\ toPoll' = toPoll \ {r}
    /\ \/ /\ file[r] = NoFile \/ IsUntouchedStub(file[r])
          /\ UNCHANGED <<row, lines, folder, book, heap, quiet, exact, spent>>
       \/ /\ file[r] # NoFile /\ ~IsUntouchedStub(file[r])
          /\ LET d == file[r]
                 outcome == Outcome(r, d, fired)
             IN \/ /\ Ingest(r, d, <<r, d>> \notin bad)
                   /\ bad' = IF outcome = "rejected" THEN bad \union {<<r, d>>} ELSE bad
                   /\ file' = IF outcome \in {"stale", "stale_repeat"}
                              THEN [file EXCEPT ![r] = NoFile] ELSE file
                   /\ UNCHANGED spent
                \/ IngestFails(r, d) /\ Spend("store") /\ UNCHANGED folder
    /\ UNCHANGED <<live, fired, cursor, request, up, watcher, due, popped, fire,
                   age, hasty, overtaken>>

EndPoll ==
    /\ watcher = "polling" /\ toPoll = {}
    /\ Loop("due")
    /\ UNCHANGED <<ledger, folder, request, appVars, popped, fire, history, spent>>

-----------------------------------------------------------------------------
(* Deadlines.                                                              *)

Remaining(t) == IF t > 0 THEN t ELSE 0

FromWall(r) ==
    CASE row[r].pickup # NoTime -> [kind |-> "pickup", left |-> Remaining(row[r].pickup)]
      [] row[r].pickup = NoTime /\ row[r].watch # NoTime ->
            [kind |-> "watchdog", left |-> Remaining(row[r].watch)]
      [] OTHER -> NoEntry

\* Mutants: the wall clock wins; only a watchdog is rebuilt.
SyncedFromWall(r) == IF FromWall(r) # NoEntry THEN FromWall(r) ELSE book[r]
SyncedWatchdog(r) == IF book[r] = NoEntry /\ row[r].pickup = NoTime THEN FromWall(r) ELSE book[r]

\* sync_deadline_book: what is not in the book is rebuilt from the row.
Synced(r) == IF book[r] = NoEntry THEN FromWall(r) ELSE book[r]

Lapsed(entry) == entry # NoEntry /\ entry.left = 0

\* startup_scan ends in a reconcile; the running watcher reconciles now and then.
AfterPass == IF up = "booting" THEN {"reconcile"} ELSE {"slots", "reconcile"}

\* The first half of expire_all_deadlines, outside the gate.
WatcherDue ==
    /\ watcher = "due"
    /\ book' = [r \in Runs |-> Synced(r)]
    /\ exact' = {r \in exact : book[r] # NoEntry \/ Synced(r) = NoEntry}
    /\ LET lapsed == {e \in Runs \X DeadlineKinds :
                        Lapsed(Synced(e[1])) /\ Synced(e[1]).kind = e[2]}
       IN IF lapsed = {}
          THEN due' = {} /\ watcher' \in AfterPass
          ELSE due' = lapsed /\ watcher' = "expire"
    /\ UNCHANGED <<ledger, folder, request, up, heap, toPoll, popped, fire,
                   age, quiet, hasty, overtaken, spent>>

\* expire_pickup_one and expire_watchdog_one look at the row again.
PickupLapses(r) == row[r].pickup # NoTime /\ r = fired /\ row[r].state = "fired"
WatchdogLapses(r) ==
    /\ row[r].watch # NoTime /\ row[r].state \notin Terminal /\ row[r].detect = "on"
    /\ r = fired
Expires(r, k) == (k = "pickup" /\ PickupLapses(r)) \/ (k = "watchdog" /\ WatchdogLapses(r))

\* The slot cursor counts as pickup.
ExpiredRow(r, k) ==
    CASE k = "pickup" /\ cursor >= r -> AckedRow(r)
      [] k = "pickup" /\ cursor < r -> [row[r] EXCEPT !.state = "no_ack", !.pickup = NoTime]
      [] OTHER -> [row[r] EXCEPT !.state = "failed", !.kind = "timed_out", !.watch = NoTime]
ExpiredLines(r, k) ==
    CASE k = "pickup" /\ cursor >= r -> AckLines(r)
      [] k = "pickup" /\ cursor < r -> {"no_ack"}
      [] OTHER -> {"failed"}

\* What the lapsed deadlines S do to the runs and the log.
Expire(S) ==
    LET hit == {x \in S : Expires(x[1], x[2])} IN
    /\ row' = [r \in Runs |-> IF \E k \in DeadlineKinds : <<r, k>> \in hit
                              THEN ExpiredRow(r, CHOOSE k \in DeadlineKinds : <<r, k>> \in hit)
                              ELSE row[r]]
    /\ lines' = [r \in Runs |->
          IF \E k \in DeadlineKinds : <<r, k>> \in hit
          THEN Told(r, ExpiredLines(r, CHOOSE k \in DeadlineKinds : <<r, k>> \in hit))
          ELSE lines[r]]
    /\ hasty' = hasty \union {r \in exact : <<r, "watchdog">> \in hit /\ quiet[r] < Span}

\* Which book entries go: a pickup found in the cursor leaves a watchdog alone.
Keeps(r, k) == /\ k = "pickup" /\ PickupLapses(r) /\ cursor >= r
               /\ book[r] # NoEntry /\ book[r].kind = "watchdog"

WatcherExpire ==
    /\ watcher = "expire"
    /\ GateFree
    /\ \/ /\ IF live THEN Expire(due) ELSE UNCHANGED <<row, lines, hasty>>
          /\ UNCHANGED spent
       \/ Spend("store") /\ UNCHANGED <<row, lines, hasty>>
    /\ book' = [r \in Runs |-> IF live /\ \E k \in DeadlineKinds :
                                          <<r, k>> \in due /\ ~Keeps(r, k)
                               THEN NoEntry ELSE book[r]]
    /\ due' = {}
    /\ watcher' \in AfterPass
    /\ UNCHANGED <<live, fired, cursor, folder, request, up, heap, toPoll, popped, fire,
                   age, quiet, exact, overtaken>>

\* A heap entry of the scheduler comes due (its time is only a hint): it is
\* dropped when the book has no entry, pushed again when time is left.
SchedPop(r, k) ==
    /\ up = "up" /\ popped = {}
    /\ <<r, k>> \in heap
    /\ book[r] = NoEntry \/ Lapsed(book[r])
    /\ heap' = heap \ {<<r, k>>}
    /\ popped' = IF book[r] = NoEntry THEN {} ELSE {<<r, k>>}
    /\ UNCHANGED <<ledger, folder, request, up, book, watchVars, fire, history, spent>>

\* handle_due_deadline, from the gate on.  A deadline that no longer holds
\* stays in the book.
SchedExpire ==
    /\ popped # {}
    /\ GateFree
    /\ IF live THEN Expire(popped) ELSE UNCHANGED <<row, lines, hasty>>
    /\ book' = [r \in Runs |-> IF live /\ \E k \in DeadlineKinds :
                                   <<r, k>> \in popped /\ Expires(r, k) /\ ~Keeps(r, k)
                               THEN NoEntry ELSE book[r]]
    /\ popped' = {}
    /\ UNCHANGED <<live, fired, cursor, folder, request, up, heap, watchVars, fire,
                   age, quiet, exact, overtaken, spent>>

\* reconcile: a missing stub is written; after startup_scan the app is up.
Reconcile ==
    /\ watcher = "reconcile"
    /\ GateFree
    /\ file' = IF live /\ fired # 0 /\ file[fired] = NoFile
               THEN [file EXCEPT ![fired] = Stub] ELSE file
    /\ up' = "up"
    /\ Loop("slots")
    /\ UNCHANGED <<ledger, bad, request, book, heap, popped, fire, history, spent>>

-----------------------------------------------------------------------------
(* project_fire: the gate is held from FireBegin to FireProject.           *)

\* Mutant: nobody looks at the reply file before the run is superseded.
BarrierSkipped == NoDoc
\* barrier_read: the reply the current run has waiting.
BarrierDoc == IF fired > 0 /\ file[fired] \in Docs THEN file[fired] ELSE NoDoc

FireBegin(by) ==
    /\ live /\ fired < MaxRuns
    /\ by = "app" => up = "up"
    /\ GateFree
    /\ fire' = [pc |-> "read", by |-> by, doc |-> BarrierDoc, closes |-> 0]
    /\ UNCHANGED <<ledger, folder, request, appVars, watchVars, popped, history, spent>>

\* The current run as the waiting reply leaves it, and the lines it earns; the
\* transaction logs a rejection whether or not it is new.
BarrierOutcome == IF fire.doc = NoDoc THEN "none" ELSE Outcome(fired, fire.doc, fired)
BarrierRow == IF fire.doc = NoDoc THEN row[fired] ELSE IngestRow(fired, fire.doc, fired)
BarrierLines ==
    CASE BarrierOutcome = "none" -> {}
      [] BarrierOutcome = "rejected" -> {"rejected"}
      [] OTHER -> IngestLines(fired, fire.doc, fired)
\* The effect on the book and the heap belongs to the process that fires.
BarrierBook ==
    IF fire.by = "app" /\ fire.doc # NoDoc
    THEN /\ book' = IngestBook(fired, fire.doc, fired)
         /\ heap' = IngestHeap(fired, fire.doc, fired)
    ELSE UNCHANGED <<book, heap>>

Unresolved(w) == w.state \notin Terminal
Superseded(w) == [w EXCEPT !.state = "superseded", !.pickup = NoTime, !.watch = NoTime]

\* The fire transaction.
FireCommit ==
    /\ fire.pc = "read"
    /\ LET closes == fired > 0 /\ Unresolved(BarrierRow)
       IN /\ row' = [r \in Runs |->
                CASE r = fired -> IF closes THEN Superseded(BarrierRow) ELSE BarrierRow
                  [] r = fired + 1 -> NewRow("fired", Grace)
                  [] OTHER -> row[r]]
          /\ lines' = [r \in Runs |->
                IF r = fired
                THEN Told(r, BarrierLines \union IF closes THEN {"superseded"} ELSE {})
                ELSE lines[r]]
          /\ fire' = [fire EXCEPT !.pc = "committed",
                                  !.doc = IF BarrierOutcome = "rejected" THEN @ ELSE NoDoc,
                                  !.closes = IF closes THEN fired ELSE 0]
    /\ fired' = fired + 1
    /\ BarrierBook
    /\ quiet' = IF fire.doc = NoDoc THEN quiet ELSE IngestQuiet(fired, fire.doc, fired)
    /\ exact' = IF fire.by = "app" THEN exact \union {fired + 1} ELSE exact
    /\ UNCHANGED <<live, cursor, folder, request, up, watchVars, popped,
                   age, hasty, overtaken, spent>>

\* The transaction fails (an occurrence already claimed, an I/O error).
FireAbort ==
    /\ fire.pc = "read"
    /\ Spend("abort")
    /\ fire' = NoFire
    /\ BarrierBook
    /\ MovedAlone
    /\ UNCHANGED <<ledger, folder, request, up, watchVars, popped,
                   age, quiet, hasty, overtaken>>

\* register_fire, clear_deadlines, the quarantine copy and the projections,
\* which may fail.
FireProject ==
    /\ fire.pc = "committed"
    /\ fire' = NoFire
    /\ IF fire.by = "app"
       THEN /\ book' = [r \in Runs |->
                  CASE r = fired -> [kind |-> "pickup", left |-> Grace]
                    [] r = fire.closes -> NoEntry
                    [] OTHER -> book[r]]
            /\ heap' = heap \union {<<fired, "pickup">>}
       ELSE UNCHANGED <<book, heap>>
    /\ bad' = IF fire.doc = NoDoc THEN bad ELSE bad \union {<<fired - 1, fire.doc>>}
    /\ \/ /\ file' = [r \in Runs |-> IF r # fired THEN NoFile
                                     ELSE IF file[r] = NoFile THEN Stub ELSE file[r]]
          /\ UNCHANGED spent
       \/ Spend("store") /\ UNCHANGED file
    /\ UNCHANGED <<ledger, request, up, watchVars, popped, history>>

-----------------------------------------------------------------------------
(* Deletion, time, crashes.                                                *)

\* delete_timer_lifecycle under the gate, and the folder with it.
Delete ==
    /\ live /\ GateFree
    /\ Spend("delete")
    /\ LET closes == {r \in {fired} \intersect Runs : Unresolved(row[r])}
       IN /\ row' = [r \in Runs |->
                IF r \in closes
                THEN [row[r] EXCEPT !.state = "cancelled", !.pickup = NoTime, !.watch = NoTime]
                ELSE row[r]]
          /\ lines' = [r \in Runs |-> IF r \in closes THEN Told(r, {"cancelled"}) ELSE lines[r]]
    /\ live' = FALSE
    /\ cursor' = 0
    /\ file' = [r \in Runs |-> NoFile]
    /\ UNCHANGED <<fired, bad, request, appVars, watchVars, popped, fire, history>>

Older(t, by) == IF t = NoTime \/ t - by < -Jump THEN t ELSE t - by
AgeRows(by) == row' = [r \in Runs |-> [row[r] EXCEPT !.pickup = Older(@, by),
                                                      !.watch = Older(@, by)]]

Min2(a, b) == IF a < b THEN a ELSE b

\* A tick of both clocks.
Tick ==
    /\ AgeRows(1)
    /\ book' = [r \in Runs |-> IF book[r] = NoEntry THEN NoEntry
                               ELSE [book[r] EXCEPT !.left = Remaining(@ - 1)]]
    /\ age' = [r \in Runs |-> IF r <= fired THEN Min2(age[r] + 1, Grace) ELSE 0]
    /\ quiet' = [r \in Runs |-> IF r <= fired THEN Min2(quiet[r] + 1, Span) ELSE 0]
    /\ UNCHANGED <<live, fired, lines, cursor, folder, request, up, heap, watchVars, popped,
                   fire, exact, hasty, overtaken, spent>>

\* The wall clock steps; only the persisted deadlines move.
JumpWall(by) ==
    /\ by # 0
    /\ Spend("jump")
    /\ AgeRows(by)
    /\ UNCHANGED <<live, fired, lines, cursor, folder, request, appVars, watchVars, popped,
                   fire, history>>

\* The app dies; a fire of a CLI process dies alone.
CrashApp ==
    /\ up # "down"
    /\ Spend("crash")
    /\ up' = "down"
    /\ book' = [r \in Runs |-> NoEntry]
    /\ heap' = {}
    /\ popped' = {}
    /\ watcher' = "scan" /\ toPoll' = {} /\ due' = {}
    /\ fire' = IF fire.by = "app" THEN NoFire ELSE fire
    /\ UNCHANGED <<ledger, folder, request, history>>
CrashCli ==
    /\ fire.pc # "idle" /\ fire.by = "cli"
    /\ Spend("crash")
    /\ fire' = NoFire
    /\ UNCHANGED <<ledger, folder, request, appVars, watchVars, popped, history>>

\* The scheduler's boot starts the startup_scan.
Boot ==
    /\ up = "down"
    /\ up' = "booting"
    /\ UNCHANGED <<ledger, folder, request, book, heap, watchVars, popped, fire, history, spent>>

-----------------------------------------------------------------------------
Watch ==
    \/ SlotCommit \/ SlotHook \/ SlotsDone
    \/ BeginPoll \/ (\E r \in Runs : PollFile(r)) \/ EndPoll
    \/ WatcherDue \/ WatcherExpire \/ Reconcile
Fire == FireCommit \/ FireAbort \/ FireProject
App == \E r \in Runs : \/ \E d \in Docs : AppWrites(r, d) \/ AppSends(r, d)
                       \/ AppAcks(r)
Fail == CrashApp \/ CrashCli \/ Delete \/ JumpWall(Jump) \/ JumpWall(-Jump)

Next ==
    \/ Watch \/ Fire \/ App \/ Fail \/ Tick \/ Boot
    \/ \E by \in {"app", "cli"} : FireBegin(by)
    \/ \E r \in Runs, k \in DeadlineKinds : SchedPop(r, k)
    \/ SchedExpire

Spec == Init /\ [][Next]_vars

\* Time passes, a crashed app is started again, and each thread that can take
\* a step takes one; a fire that began ends.  Nothing makes the app write.
FairSpec == /\ Spec
            /\ WF_vars(Tick) /\ WF_vars(Boot) /\ WF_vars(Watch) /\ WF_vars(Fire)
            /\ WF_vars(SchedExpire)

-----------------------------------------------------------------------------
(* Properties.                                                             *)

IsVerdict(d) == d.state \in Terminal

\* The app's own verdict on a run - completed, or failed by its own report -
\* is replaced by nothing but another verdict of the app: no deadline, no
\* superseding fire, no cursor movement, no deletion and no late heartbeat
\* takes it back (engine.rs, TerminalRegression and the re-checks of
\* expire_*_one; tree/mod.rs, `unresolved`).
VerdictStands ==
    [][\A r \in Runs : AppTerminal(row[r]) => AppTerminal(row[r]')]_vars

\* Once the timer has fired again, the lifecycle state of an earlier run is
\* final, whatever files, frames, cursors and deadlines still name it.
RevisedOnlyWhileCurrent ==
    [][\A r \in Runs : r < fired => row[r].state' = row[r].state]_vars

\* The log tells pickup, the start of the work, the lapse of pickup and the end
\* by the next fire at most once per run, however often the app repeats itself
\* over files, IPC and slots, and across restarts.
LineOnce ==
    \A r \in Runs : \A k \in {"acknowledged", "running", "no_ack", "superseded", "cancelled"} :
        lines[r][k] <= 1

\* Whatever verdict a run stands at, the log has told it (R10: transition and
\* outbox row commit together).
VerdictLogged ==
    \A r \in Runs : row[r].state \in Terminal => lines[r][row[r].state] > 0

\* The runs, whatever transport speaks of them and whatever fails, live the abstract life cycle, and
\* the log follows it (R10: transition and outbox row commit together).
Phase(w) == IF w.state = "failed" /\ w.kind # "reported" THEN "timed_out" ELSE w.state
Announced(r) == {k \in AppStates \union Terminal : lines[r][k] > 0}
Lifecycle == INSTANCE RunLifecycle WITH
    current <- fired, phase <- [r \in Runs |-> Phase(row[r])], told <- [r \in Runs |-> Announced(r)]
ImplementsLifecycle == Lifecycle!Spec

\* A fire never records a run as superseded while a verdict that the engine
\* would accept lies in the run's reply file - unless the app changed the file
\* while the fire was under way (tree/mod.rs, the pre-fire barrier).
OutcomeNotDropped ==
    [][\A r \in Runs :
          /\ Unresolved(row[r]) /\ row[r].state' = "superseded"
          /\ r \notin overtaken /\ file[r] \in Docs
          => ~(IsVerdict(file[r]) /\ Outcome(r, file[r], r) = "applied")]_vars

\* A run whose pickup countdown ran on the monotonic clock from its fire on is
\* not declared no_ack before the whole grace has passed, however the wall
\* clock is set meanwhile.  (A reply whose transaction fails has moved the
\* countdown all the same: README, section 4.)
NoEarlyNoAck ==
    \A r \in exact : row[r].state = "no_ack" => age[r] = Grace

\* Every run is picked up, declared no_ack, superseded or cancelled in the end,
\* also when the app dies with the countdown running.
PickupResolves ==
    \A r \in Runs : row[r].state = "fired" ~> row[r].state # "fired"

\* A reply that stays in its file is read: accepted, recognised or copied to
\* bad/ (unless the timer goes or the file is replaced or removed).
ReplyIsHeard ==
    \A r \in Runs : \A d \in Docs :
        (live /\ file[r] = d) ~> (~live \/ file[r] # d \/ row[r].digest = d \/ <<r, d>> \in bad)

\* As INTEGRATION.md promises: a run is failed by the watchdog only after the
\* whole expected_secs * factor has passed since the latest accepted reply.
\* It does not hold (README, section 4).
WatchdogFair == hasty = {}

=============================================================================
