----------------------------- MODULE Dispatcher -----------------------------
(***************************************************************************)
(* The bounded fire dispatcher (actions/dispatcher.rs) over the claim      *)
(* ledger it shares through SQLite (the `runs` table of store/mod.rs).     *)
(*                                                                         *)
(* Fire producers commit claims; the process that holds the dispatcher OS  *)
(* lock pumps pending claims as hints into a bounded channel; its workers  *)
(* activate a claim by compare-and-swap, run the action, and commit the    *)
(* result with its outbox event.  Several Bellman processes (the desktop   *)
(* app and standalone `run-now` commands) share the database and contend   *)
(* for the lock; any of them may crash or shut down.                       *)
(*                                                                         *)
(* A claim is <<timer, event_sequence>>.  Variables are durable (SQLite    *)
(* and the OS lock) or belong to a process and die with it.                *)
(***************************************************************************)
EXTENDS Integers, Sequences, FiniteSets

CONSTANTS
    Timers,      \* timers of the data directory
    Procs,       \* processes that may run a dispatcher
    Clis,        \* those that are one-shot `run-now` commands
    Workers,     \* worker lanes of one process (max_concurrent_actions)
    Policy,      \* overlap policy of each timer
    Cap,         \* the cap of a timer whose policy is "parallel"
    MaxFires,    \* bound: claims committed for one timer
    Budget,      \* bound: how often each environment event may happen
    MaxKinds,    \* bound: the kinds of environment event one behaviour holds
    NoProc, NoClaim

Policies == {"skip", "queue_one", "replace", "parallel"}
EnvEvents == {"crash", "panic", "store", "shutdown", "delete"}

ASSUME TimersAssumption == IsFiniteSet(Timers)
ASSUME ProcsAssumption == NoProc \notin Procs /\ Clis \subseteq Procs
ASSUME WorkersAssumption == IsFiniteSet(Workers) /\ Workers # {}
ASSUME PolicyAssumption == Policy \in [Timers -> Policies] /\ Cap \in [Timers -> Nat]
ASSUME BoundsAssumption == {MaxFires, MaxKinds} \subseteq Nat /\ Budget \in [EnvEvents -> Nat]

Claims == Timers \X (1..MaxFires)

ASSUME NoClaimAssumption == NoClaim \notin Claims

QueueCap == 2 * Cardinality(Workers)

\* How many claims of a timer one process may have in its lane at once.
Limit(t) == IF Policy[t] = "parallel" THEN Cap[t] ELSE 1

VARIABLES
    (* durable: SQLite and the OS lock file *)
    status,      \* runs.status of each claim, "absent" before its insert
    outcome,     \* runs.outcome / outcome_reason
    cancelReq,   \* claims with runs.cancel_requested = 1
    events,      \* outcome events of each claim committed to the outbox
    timerRows,   \* timers whose row exists
    lock,        \* holder of <data_dir>/locks/dispatcher.lock
    (* fire producers *)
    loaded,      \* timers some producer has read and may still fire
    (* one process each *)
    mode,        \* Inner.state
    main,        \* the thread that spawned the dispatcher
    scanned,     \* processes whose R10 startup scan is complete
    closed,      \* processes whose hint sender was taken
    pump,        \* program counter of the pump thread
    snapshot,    \* pending claims the pump read and has not yet considered
    hints,       \* the bounded hint channel
    queued,      \* LaneBook: claims whose hint was sent
    active,      \* LaneBook: claims a worker executes
    cancelled,   \* LaneBook: claims whose cancellation token is signalled
    wpc,         \* program counter of each worker
    wrun,        \* the claim each worker holds
    (* history and bounds *)
    starts,      \* how often the action of a claim was started
    spent        \* environment events so far

ledger == <<status, outcome, cancelReq, events>>
lanes == <<queued, active, cancelled>>
pumpVars == <<pump, snapshot>>
workerVars == <<wpc, wrun>>
procVars == <<mode, main, scanned, closed>>
vars == <<ledger, timerRows, lock, loaded, procVars, pumpVars, hints, lanes,
          workerVars, starts, spent>>

-----------------------------------------------------------------------------
Statuses == {"absent", "pending", "active", "finished"}
Outcomes == {"none", "delivered", "failed", "overlap_replace", "timer_deleted",
             "overlap_replace_before_start", "overlap_skip"}
PumpPCs == {"idle", "recovering", "marking", "signalled", "scanned", "dispatching", "exited"}
WorkerPCs == {"idle", "got", "activated", "orphaned", "executing", "releasing_queued",
              "releasing_lane", "exited"}
MainPCs == {"down", "booting", "ready", "running", "draining", "released"}

TypeOK ==
    /\ status \in [Claims -> Statuses]
    /\ outcome \in [Claims -> Outcomes]
    /\ cancelReq \subseteq Claims
    /\ events \in [Claims -> Nat]
    /\ timerRows \subseteq Timers
    /\ lock \in Procs \union {NoProc}
    /\ loaded \subseteq Timers
    /\ mode \in [Procs -> {"down", "primed", "started", "stopping"}]
    /\ main \in [Procs -> MainPCs]
    /\ scanned \subseteq Procs
    /\ closed \subseteq Procs
    /\ pump \in [Procs -> PumpPCs]
    /\ snapshot \in [Procs -> SUBSET Claims]
    /\ hints \in [Procs -> Seq(Claims)]
    /\ queued \in [Procs -> SUBSET Claims]
    /\ active \in [Procs -> SUBSET Claims]
    /\ cancelled \in [Procs -> SUBSET Claims]
    /\ wpc \in [Procs -> [Workers -> WorkerPCs]]
    /\ wrun \in [Procs -> [Workers -> Claims \union {NoClaim}]]
    /\ starts \in [Claims -> Nat]
    /\ spent \in [EnvEvents -> Nat]

Init ==
    /\ status = [c \in Claims |-> "absent"]
    /\ outcome = [c \in Claims |-> "none"]
    /\ cancelReq = {}
    /\ events = [c \in Claims |-> 0]
    /\ timerRows = Timers
    /\ lock = NoProc
    /\ loaded = {}
    /\ mode = [p \in Procs |-> "down"]
    /\ main = [p \in Procs |-> "down"]
    /\ scanned = {}
    /\ closed = {}
    /\ pump = [p \in Procs |-> "idle"]
    /\ snapshot = [p \in Procs |-> {}]
    /\ hints = [p \in Procs |-> <<>>]
    /\ queued = [p \in Procs |-> {}]
    /\ active = [p \in Procs |-> {}]
    /\ cancelled = [p \in Procs |-> {}]
    /\ wpc = [p \in Procs |-> [w \in Workers |-> "idle"]]
    /\ wrun = [p \in Procs |-> [w \in Workers |-> NoClaim]]
    /\ starts = [c \in Claims |-> 0]
    /\ spent = [e \in EnvEvents |-> 0]

-----------------------------------------------------------------------------
(* The claim ledger: the statements of store/mod.rs on the `runs` table.   *)

IsUnfinished(c) == status[c] \in {"pending", "active"}
ClaimsOf(t) == {c \in Claims : c[1] = t}
Unfinished(t) == {c \in ClaimsOf(t) : IsUnfinished(c)}

\* event_sequence = MAX(event_sequence) + 1 of the timer.
IsNextClaim(c) ==
    /\ status[c] = "absent"
    /\ \A d \in ClaimsOf(c[1]) : d[2] < c[2] => status[d] # "absent"

\* Mutant: the UPDATE forgets `status IN (pending, active)`.
FinishAlways(c, o) ==
    /\ status' = [status EXCEPT ![c] = "finished"]
    /\ outcome' = [outcome EXCEPT ![c] = o]
    /\ events' = [events EXCEPT ![c] = @ + 1]
    /\ UNCHANGED cancelReq

\* finish_run_conn with its outbox event: a row that is already finished is
\* left alone and then no event is enqueued.
FinishWithEvent(c, o) ==
    IF IsUnfinished(c)
    THEN /\ status' = [status EXCEPT ![c] = "finished"]
         /\ outcome' = [outcome EXCEPT ![c] = o]
         /\ events' = [events EXCEPT ![c] = @ + 1]
         /\ UNCHANGED cancelReq
    ELSE UNCHANGED ledger

\* repend_run: active -> pending; any other status is left alone.
Repend(c) ==
    /\ status' = [status EXCEPT ![c] = IF @ = "active" THEN "pending" ELSE @]
    /\ UNCHANGED <<outcome, cancelReq, events>>

\* repend_all_active.
RependAll ==
    /\ status' = [c \in Claims |-> IF status[c] = "active" THEN "pending" ELSE status[c]]
    /\ UNCHANGED <<outcome, cancelReq, events>>

Spend(e) ==
    /\ spent[e] < Budget[e]
    /\ Cardinality({f \in EnvEvents \ {e} : spent[f] > 0}) < MaxKinds
    /\ spent' = [spent EXCEPT ![e] = @ + 1]

\* The new owner's recovery; a failed statement is only logged.
RecoverClaims ==
    \/ RependAll /\ UNCHANGED spent
    \/ Spend("store") /\ UNCHANGED ledger

-----------------------------------------------------------------------------
(* Fire producers (scheduler loop, GUI and CLI run-now) of any process.    *)

\* The producer reads the timer before it takes the timer's gate, so the
\* copy it fires may be of a timer that is deleted meanwhile.
LoadTimer(t) ==
    /\ t \in timerRows \ loaded
    /\ loaded' = loaded \union {t}
    /\ UNCHANGED <<ledger, timerRows, lock, procVars, pumpVars, hints, lanes,
                   workerVars, starts, spent>>

AdmitBelow(t) == CASE Policy[t] = "skip" -> 1
                   [] Policy[t] = "queue_one" -> 2
                   [] OTHER -> Cap[t]

FireUnchanged == UNCHANGED <<timerRows, lock, procVars, pumpVars, hints, lanes,
                             workerVars, starts, spent>>

\* The fire transaction admits the claim: it is born pending.
FireAdmitted(t) ==
    /\ t \in loaded
    /\ Policy[t] # "replace"
    /\ Cardinality(Unfinished(t)) < AdmitBelow(t)
    /\ \E c \in ClaimsOf(t) :
          /\ IsNextClaim(c)
          /\ status' = [status EXCEPT ![c] = "pending"]
    /\ loaded' = loaded \ {t}
    /\ UNCHANGED <<outcome, cancelReq, events>>
    /\ FireUnchanged

\* The fire transaction skips the action: the claim is born finished.
FireSkipped(t) ==
    /\ t \in loaded
    /\ Policy[t] # "replace"
    /\ Cardinality(Unfinished(t)) >= AdmitBelow(t)
    /\ \E c \in ClaimsOf(t) :
          /\ IsNextClaim(c)
          /\ status' = [status EXCEPT ![c] = "finished"]
          /\ outcome' = [outcome EXCEPT ![c] = "overlap_skip"]
          /\ events' = [events EXCEPT ![c] = @ + 1]
    /\ loaded' = loaded \ {t}
    /\ UNCHANGED cancelReq
    /\ FireUnchanged

\* Mutant: nobody is asked to cancel.
NobodyRunning(t) == {}

\* pending_claims_for_timer_conn and request_cancel_active_conn.
WaitingClaims(t) == {d \in ClaimsOf(t) : status[d] = "pending"}
RunningClaims(t) == {d \in ClaimsOf(t) : status[d] = "active"}

\* Replace: older pending claims are finished before their start, older
\* active ones are asked to cancel, the new claim is pending.
FireReplacing(t) ==
    /\ t \in loaded
    /\ Policy[t] = "replace"
    /\ \E c \in ClaimsOf(t) :
          /\ IsNextClaim(c)
          /\ status' = [d \in Claims |-> IF d = c THEN "pending"
                                         ELSE IF d \in WaitingClaims(t) THEN "finished"
                                         ELSE status[d]]
    /\ outcome' = [d \in Claims |-> IF d \in WaitingClaims(t)
                                    THEN "overlap_replace_before_start" ELSE outcome[d]]
    /\ events' = [d \in Claims |-> IF d \in WaitingClaims(t) THEN events[d] + 1 ELSE events[d]]
    /\ cancelReq' = cancelReq \union RunningClaims(t)
    /\ loaded' = loaded \ {t}
    /\ FireUnchanged

\* delete_timer_lifecycle: the timer row goes, its claims stay.
DeleteTimer(t) ==
    /\ t \in timerRows
    /\ Spend("delete")
    /\ timerRows' = timerRows \ {t}
    /\ UNCHANGED <<ledger, lock, loaded, procVars, pumpVars, hints, lanes,
                   workerVars, starts>>

-----------------------------------------------------------------------------
(* Process life: spawn, boot, shutdown, crash.                             *)

Owns(p) == lock = p

\* Mutant: the lock is taken from its holder.
StealLock(p) == lock' = p

\* try_take_lock.
TryLock(p) == lock' = IF lock = NoProc THEN p ELSE lock

\* What a process forgets when it ends.
Forget(p) ==
    /\ lock' = IF Owns(p) THEN NoProc ELSE lock
    /\ mode' = [mode EXCEPT ![p] = "down"]
    /\ main' = [main EXCEPT ![p] = "down"]
    /\ scanned' = scanned \ {p}
    /\ closed' = closed \ {p}
    /\ pump' = [pump EXCEPT ![p] = "idle"]
    /\ snapshot' = [snapshot EXCEPT ![p] = {}]
    /\ hints' = [hints EXCEPT ![p] = <<>>]
    /\ queued' = [queued EXCEPT ![p] = {}]
    /\ active' = [active EXCEPT ![p] = {}]
    /\ cancelled' = [cancelled EXCEPT ![p] = {}]
    /\ wpc' = [wpc EXCEPT ![p] = [w \in Workers |-> "idle"]]
    /\ wrun' = [wrun EXCEPT ![p] = [w \in Workers |-> NoClaim]]

\* Dispatcher::spawn: primed, with the lock when nobody holds it.
Spawn(p) ==
    /\ main[p] = "down"
    /\ main' = [main EXCEPT ![p] = "booting"]
    /\ mode' = [mode EXCEPT ![p] = "primed"]
    /\ TryLock(p)
    /\ UNCHANGED <<ledger, timerRows, loaded, scanned, closed, pumpVars, hints, lanes,
                   workerVars, starts, spent>>

\* The R10 startup scan.  A run-now command makes it only when it sees that
\* it owns the lock; otherwise it goes straight to waiting for its claim.
BootScan(p) ==
    /\ main[p] = "booting"
    /\ p \in Clis => Owns(p)
    /\ main' = [main EXCEPT ![p] = "ready"]
    /\ scanned' = scanned \union {p}
    /\ UNCHANGED <<ledger, timerRows, lock, loaded, mode, closed, pumpVars, hints,
                   lanes, workerVars, starts, spent>>

CliFollows(p) ==
    /\ main[p] = "booting"
    /\ p \in Clis
    /\ ~Owns(p)
    /\ main' = [main EXCEPT ![p] = "running"]
    /\ UNCHANGED <<ledger, timerRows, lock, loaded, mode, scanned, closed, pumpVars,
                   hints, lanes, workerVars, starts, spent>>

\* begin_startup of a process that gets, or already has, the lock.
BeginStartup(p) ==
    /\ main[p] = "ready"
    /\ lock \in {NoProc, p}
    /\ lock' = p
    /\ RecoverClaims
    /\ mode' = [mode EXCEPT ![p] = "started"]
    /\ main' = [main EXCEPT ![p] = "running"]
    /\ UNCHANGED <<timerRows, loaded, scanned, closed, pumpVars, hints, lanes,
                   workerVars, starts>>

\* begin_startup of a process that does not: it stays a primed follower.
StayFollower(p) ==
    /\ main[p] = "ready"
    /\ lock \notin {NoProc, p}
    /\ main' = [main EXCEPT ![p] = "running"]
    /\ UNCHANGED <<ledger, timerRows, lock, loaded, mode, scanned, closed, pumpVars,
                   hints, lanes, workerVars, starts, spent>>

\* shutdown_drain up to the joins: STOPPING, and the hint sender is dropped.
ShutdownBegin(p) ==
    /\ main[p] = "running"
    /\ Spend("shutdown")
    /\ main' = [main EXCEPT ![p] = "draining"]
    /\ mode' = [mode EXCEPT ![p] = "stopping"]
    /\ closed' = closed \union {p}
    /\ UNCHANGED <<ledger, timerRows, lock, loaded, scanned, pumpVars, hints, lanes,
                   workerVars, starts>>

ThreadsJoined(p) == pump[p] = "exited" /\ \A w \in Workers : wpc[p][w] = "exited"

\* The rest of shutdown_drain: every thread is joined, then the lock is
\* released.
ShutdownRelease(p) ==
    /\ main[p] = "draining"
    /\ ThreadsJoined(p)
    /\ lock' = IF Owns(p) THEN NoProc ELSE lock
    /\ main' = [main EXCEPT ![p] = "released"]
    /\ UNCHANGED <<ledger, timerRows, loaded, mode, scanned, closed, pumpVars, hints,
                   lanes, workerVars, starts, spent>>

Exit(p) ==
    /\ main[p] = "released"
    /\ Forget(p)
    /\ UNCHANGED <<ledger, timerRows, loaded, starts, spent>>

\* The process dies at any point; the kernel drops its OS lock.
Crash(p) ==
    /\ main[p] # "down"
    /\ Spend("crash")
    /\ Forget(p)
    /\ UNCHANGED <<ledger, timerRows, loaded, starts>>

-----------------------------------------------------------------------------
(* The pump thread: pump_loop and pump_once.                               *)

LanesLocked(p) == pump[p] = "dispatching"
InLane(p, t) == {c \in queued[p] \union active[p] : c[1] = t}

PumpUnchanged == UNCHANGED <<timerRows, loaded, main, scanned, closed, active,
                             workerVars, starts>>

\* A follower finds the lock free on its tick.
PumpTakeLock(p) ==
    /\ pump[p] = "idle"
    /\ mode[p] \in {"primed", "started"}
    /\ lock = NoProc
    /\ lock' = p
    /\ pump' = [pump EXCEPT ![p] = "recovering"]
    /\ PumpUnchanged
    /\ UNCHANGED <<ledger, mode, snapshot, hints, queued, cancelled, spent>>

\* It runs the startup recovery unless the process is already stopping ...
PumpRecover(p) ==
    /\ pump[p] = "recovering"
    /\ IF mode[p] = "stopping"
       THEN pump' = [pump EXCEPT ![p] = "idle"] /\ UNCHANGED <<ledger, spent>>
       ELSE pump' = [pump EXCEPT ![p] = "marking"] /\ RecoverClaims
    /\ PumpUnchanged
    /\ UNCHANGED <<lock, mode, snapshot, hints, queued, cancelled>>

\* ... and stores STARTED over whatever the state is by then.
PumpMarkStarted(p) ==
    /\ pump[p] = "marking"
    /\ mode' = [mode EXCEPT ![p] = "started"]
    /\ pump' = [pump EXCEPT ![p] = "idle"]
    /\ PumpUnchanged
    /\ UNCHANGED <<ledger, lock, snapshot, hints, queued, cancelled, spent>>

PumpExit(p) ==
    /\ pump[p] = "idle"
    /\ mode[p] = "stopping"
    /\ pump' = [pump EXCEPT ![p] = "exited"]
    /\ PumpUnchanged
    /\ UNCHANGED <<ledger, lock, mode, snapshot, hints, queued, cancelled, spent>>

\* A pass begins: signal the tokens of the claims a Replace fire marked.
PumpSignal(p) ==
    /\ pump[p] = "idle"
    /\ mode[p] = "started"
    /\ Owns(p)
    /\ cancelled' = [cancelled EXCEPT ![p] =
          @ \union {c \in cancelReq \intersect (queued[p] \union active[p]) :
                      status[c] = "active"}]
    /\ pump' = [pump EXCEPT ![p] = "signalled"]
    /\ PumpUnchanged
    /\ UNCHANGED <<ledger, lock, mode, snapshot, hints, queued, spent>>

\* The pending claims are read before the lane book is locked.
PumpScan(p) ==
    /\ pump[p] = "signalled"
    /\ snapshot' = [snapshot EXCEPT ![p] = {c \in Claims : status[c] = "pending"}]
    /\ pump' = [pump EXCEPT ![p] = "scanned"]
    /\ PumpUnchanged
    /\ UNCHANGED <<ledger, lock, mode, hints, queued, cancelled, spent>>

PumpLockLanes(p) ==
    /\ pump[p] = "scanned"
    /\ pump' = [pump EXCEPT ![p] = "dispatching"]
    /\ PumpUnchanged
    /\ UNCHANGED <<ledger, lock, mode, snapshot, hints, queued, cancelled, spent>>

\* Mutant: the newest claim goes first.
IsNewestInSnapshot(p, c) ==
    /\ pump[p] = "dispatching"
    /\ c \in snapshot[p]
    /\ \A d \in snapshot[p] : d[1] = c[1] => c[2] >= d[2]

LaneHasRoom(p, t) == Cardinality(InLane(p, t)) < Limit(t)

\* The claim a timer's turn comes to: its oldest one not yet considered.
IsNextInSnapshot(p, c) ==
    /\ pump[p] = "dispatching"
    /\ c \in snapshot[p]
    /\ \A d \in snapshot[p] : d[1] = c[1] => c[2] <= d[2]

Reserved(p, c) == c \in queued[p] \union active[p]

PumpSkipReserved(p) ==
    /\ \E c \in Claims :
          /\ IsNextInSnapshot(p, c)
          /\ Reserved(p, c)
          /\ snapshot' = [snapshot EXCEPT ![p] = @ \ {c}]
    /\ PumpUnchanged
    /\ UNCHANGED <<ledger, lock, mode, pump, hints, queued, cancelled, spent>>

\* The timer is gone: its claim is closed, without an event.
PumpCloseOrphan(p) ==
    /\ \E c \in Claims :
          /\ IsNextInSnapshot(p, c)
          /\ ~Reserved(p, c)
          /\ c[1] \notin timerRows
          /\ snapshot' = [snapshot EXCEPT ![p] = @ \ {c}]
          /\ IF IsUnfinished(c)
             THEN /\ status' = [status EXCEPT ![c] = "finished"]
                  /\ outcome' = [outcome EXCEPT ![c] = "timer_deleted"]
             ELSE UNCHANGED <<status, outcome>>
    /\ PumpUnchanged
    /\ UNCHANGED <<cancelReq, events, lock, mode, pump, hints, queued, cancelled, spent>>

\* The lane is full, or the timer row could not be read: the timer's other
\* claims wait for a later pass.
PumpLaneBusy(p) ==
    /\ \E c \in Claims :
          /\ IsNextInSnapshot(p, c)
          /\ ~Reserved(p, c)
          /\ \/ /\ c[1] \in timerRows
                /\ ~LaneHasRoom(p, c[1])
                /\ UNCHANGED spent
             \/ Spend("store")
          /\ snapshot' = [snapshot EXCEPT ![p] = @ \ ClaimsOf(c[1])]
    /\ PumpUnchanged
    /\ UNCHANGED <<ledger, lock, mode, pump, hints, queued, cancelled>>

IsEligible(p, c) ==
    /\ IsNextInSnapshot(p, c)
    /\ ~Reserved(p, c)
    /\ c[1] \in timerRows
    /\ LaneHasRoom(p, c[1])

\* The hint is sent and the claim reserved in the lane.
PumpSend(p) ==
    /\ \E c \in Claims :
          /\ IsEligible(p, c)
          /\ p \notin closed
          /\ Len(hints[p]) < QueueCap
          /\ hints' = [hints EXCEPT ![p] = Append(@, c)]
          /\ queued' = [queued EXCEPT ![p] = @ \union {c}]
          /\ snapshot' = [snapshot EXCEPT ![p] = @ \ {c}]
    /\ PumpUnchanged
    /\ UNCHANGED <<ledger, lock, mode, pump, cancelled, spent>>

\* The pass ends: every claim was considered, or a hint found the channel
\* full or closed.
PumpEndPass(p) ==
    /\ pump[p] = "dispatching"
    /\ \/ snapshot[p] = {}
       \/ \E c \in Claims : IsEligible(p, c) /\ (p \in closed \/ Len(hints[p]) = QueueCap)
    /\ snapshot' = [snapshot EXCEPT ![p] = {}]
    /\ pump' = [pump EXCEPT ![p] = "idle"]
    /\ PumpUnchanged
    /\ UNCHANGED <<ledger, lock, mode, hints, queued, cancelled, spent>>

-----------------------------------------------------------------------------
(* The workers: worker_loop and run_job.                                   *)

WorkerUnchanged == UNCHANGED <<timerRows, lock, loaded, procVars, pumpVars>>

Goto(p, w, pc) == wpc' = [wpc EXCEPT ![p][w] = pc]

WorkerRecv(p, w) ==
    /\ mode[p] # "down"
    /\ wpc[p][w] = "idle"
    /\ hints[p] # <<>>
    /\ Goto(p, w, "got")
    /\ wrun' = [wrun EXCEPT ![p][w] = Head(hints[p])]
    /\ hints' = [hints EXCEPT ![p] = Tail(@)]
    /\ WorkerUnchanged
    /\ UNCHANGED <<ledger, lanes, starts, spent>>

\* The channel is closed and drained.
WorkerExit(p, w) ==
    /\ wpc[p][w] = "idle"
    /\ hints[p] = <<>>
    /\ p \in closed
    /\ Goto(p, w, "exited")
    /\ WorkerUnchanged
    /\ UNCHANGED <<ledger, hints, lanes, wrun, starts, spent>>

SwapWins(c) == status[c] = "pending"

\* activate_run wins the compare-and-swap pending -> active.
WorkerActivate(p, w) ==
    /\ wpc[p][w] = "got"
    /\ SwapWins(wrun[p][w])
    /\ status' = [status EXCEPT ![wrun[p][w]] = "active"]
    /\ Goto(p, w, "activated")
    /\ WorkerUnchanged
    /\ UNCHANGED <<outcome, cancelReq, events, hints, lanes, wrun, starts, spent>>

\* Mutant: the reservation of a stale hint is kept.
WorkerForgets(p, w) ==
    /\ wpc[p][w] = "got"
    /\ ~SwapWins(wrun[p][w])
    /\ Goto(p, w, "idle")
    /\ WorkerUnchanged
    /\ UNCHANGED <<ledger, hints, lanes, wrun, starts, spent>>

\* The hint was stale, or the database refused the read or the swap.
WorkerLose(p, w) ==
    /\ wpc[p][w] = "got"
    /\ \/ ~SwapWins(wrun[p][w]) /\ UNCHANGED spent
       \/ Spend("store")
    /\ Goto(p, w, "releasing_queued")
    /\ WorkerUnchanged
    /\ UNCHANGED <<ledger, hints, lanes, wrun, starts>>

\* The reservation moves from queued to active and the timer is loaded.
WorkerStart(p, w) ==
    /\ wpc[p][w] = "activated"
    /\ ~LanesLocked(p)
    /\ LET c == wrun[p][w]
       IN  /\ queued' = [queued EXCEPT ![p] = @ \ {c}]
           /\ active' = [active EXCEPT ![p] = @ \union {c}]
           /\ \/ /\ c[1] \in timerRows
                 /\ Goto(p, w, "executing")
                 /\ starts' = [starts EXCEPT ![c] = @ + 1]
                 /\ UNCHANGED <<ledger, spent>>
              \/ /\ c[1] \notin timerRows
                 /\ Goto(p, w, "orphaned")
                 /\ UNCHANGED <<ledger, starts, spent>>
              \/ /\ Spend("store")
                 /\ Repend(c)
                 /\ Goto(p, w, "releasing_lane")
                 /\ UNCHANGED starts
    /\ WorkerUnchanged
    /\ UNCHANGED <<hints, cancelled, wrun>>

\* One launch. The child is killed with its group when the token is seen or
\* the time is up; a child that ended by itself is never called cancelled.
RunLaunch(signalled) ==
    {"exit_zero", "exit_other", "by_signal", "not_spawned", "timed_out"}
        \union (IF signalled THEN {"cancelled"} ELSE {})

\* One attempt: no action and a notification always succeed.
ExecuteOnce(signalled) ==
    {CASE r = "exit_zero" -> "ok" [] r = "cancelled" -> "cancelled" [] OTHER -> "error" :
        r \in RunLaunch(signalled)}
        \union {"ok"}

\* The attempts of a run: the first success ends them, an error ends them when
\* no retry is left, and the token is looked at before each and in between.
Execute(signalled) ==
    {CASE r = "ok" -> "delivered" [] r = "error" -> "failed" [] OTHER -> "overlap_replace" :
        r \in ExecuteOnce(signalled)}

\* finish_claim: the result and its event commit in one transaction; when
\* the commit fails the claim is left as it is.
WorkerFinish(p, w) ==
    /\ LET c == wrun[p][w]
       IN  \/ /\ wpc[p][w] = "executing"
             /\ \E o \in Execute(c \in cancelled[p]) : FinishWithEvent(c, o)
             /\ UNCHANGED spent
          \/ /\ wpc[p][w] = "orphaned"
             /\ FinishWithEvent(c, "timer_deleted")
             /\ UNCHANGED spent
          \/ /\ wpc[p][w] \in {"executing", "orphaned"}
             /\ Spend("store")
             /\ UNCHANGED ledger
    /\ Goto(p, w, "releasing_lane")
    /\ WorkerUnchanged
    /\ UNCHANGED <<hints, lanes, wrun, starts>>

\* The action panics: the supervisor returns the claim to pending.
WorkerPanic(p, w) ==
    /\ wpc[p][w] = "executing"
    /\ Spend("panic")
    /\ Repend(wrun[p][w])
    /\ Goto(p, w, "releasing_lane")
    /\ WorkerUnchanged
    /\ UNCHANGED <<hints, lanes, wrun, starts>>

\* release_queued and finish_lane.
WorkerRelease(p, w) ==
    /\ wpc[p][w] \in {"releasing_queued", "releasing_lane"}
    /\ ~LanesLocked(p)
    /\ LET c == wrun[p][w]
       IN  /\ queued' = [queued EXCEPT ![p] = @ \ {c}]
           /\ active' = [active EXCEPT ![p] =
                 IF wpc[p][w] = "releasing_lane" THEN @ \ {c} ELSE @]
           /\ cancelled' = [cancelled EXCEPT ![p] = @ \ {c}]
    /\ Goto(p, w, "idle")
    /\ wrun' = [wrun EXCEPT ![p][w] = NoClaim]
    /\ WorkerUnchanged
    /\ UNCHANGED <<ledger, hints, starts, spent>>

-----------------------------------------------------------------------------
Environment ==
    \/ \E t \in Timers : LoadTimer(t) \/ DeleteTimer(t)
    \/ \E p \in Procs : ShutdownBegin(p) \/ Crash(p)

Fire(t) == FireAdmitted(t) \/ FireSkipped(t) \/ FireReplacing(t)

MainStep(p) ==
    \/ BootScan(p) \/ CliFollows(p) \/ BeginStartup(p) \/ StayFollower(p)
    \/ ShutdownRelease(p) \/ Exit(p)

PumpStep(p) ==
    \/ PumpTakeLock(p) \/ PumpRecover(p) \/ PumpMarkStarted(p) \/ PumpExit(p)
    \/ PumpSignal(p) \/ PumpScan(p) \/ PumpLockLanes(p)
    \/ PumpSkipReserved(p) \/ PumpCloseOrphan(p) \/ PumpLaneBusy(p)
    \/ PumpSend(p) \/ PumpEndPass(p)

WorkerStep(p, w) ==
    \/ WorkerRecv(p, w) \/ WorkerExit(p, w) \/ WorkerActivate(p, w)
    \/ WorkerLose(p, w) \/ WorkerStart(p, w) \/ WorkerFinish(p, w)
    \/ WorkerPanic(p, w) \/ WorkerRelease(p, w)

Next ==
    \/ Environment
    \/ \E t \in Timers : Fire(t)
    \/ \E p \in Procs : Spawn(p) \/ MainStep(p) \/ PumpStep(p)
    \/ \E p \in Procs, w \in Workers : WorkerStep(p, w)

Spec == Init /\ [][Next]_vars

\* Threads are scheduled; actions end (the launch timeout bounds them); the
\* lane book's mutex is eventually granted (the pump sleeps between passes).
\* The desktop app is started again after it ends.
Fairness ==
    /\ \A p \in Procs : WF_vars(MainStep(p)) /\ WF_vars(PumpStep(p))
    /\ \A p \in Procs \ Clis : WF_vars(Spawn(p))
    /\ \A p \in Procs, w \in Workers : SF_vars(WorkerStep(p, w))

FairSpec == Spec /\ Fairness

-----------------------------------------------------------------------------
(* What must hold.                                                         *)

Executing(p, w) == wpc[p][w] = "executing"
ExecutingClaims(t) ==
    {c \in ClaimsOf(t) : \E p \in Procs, w \in Workers : Executing(p, w) /\ wrun[p][w] = c}

\* Serial policies never run two actions of a timer at once, and "parallel"
\* never more than its cap, over all processes and whatever crashes,
\* takeovers, stale hints and retries do.
LaneLimit == \A t \in Timers : Cardinality(ExecutingClaims(t)) <= Limit(t)

\* No claim is executed by two workers at once: a duplicate or stale hint
\* loses the swap, and a takeover re-queues only what nobody runs.
NoDoubleExecution ==
    \A p, q \in Procs : \A v, w \in Workers :
        Executing(p, v) /\ Executing(q, w) /\ wrun[p][v] = wrun[q][w] => p = q /\ v = w

\* Only the holder of the OS lock executes: shutdown joins its workers
\* before it lets the lock go.
OnlyOwnerExecutes == \A p \in Procs, w \in Workers : Executing(p, w) => Owns(p)

\* A finished claim has told its outcome exactly once (a Replace fire and the
\* worker it races never both do); only the pump's close of an orphan is
\* silent.  An unfinished one has told none.
OneOutcomeEvent ==
    \A c \in Claims :
        IF status[c] = "finished"
        THEN events[c] = 1 \/ (events[c] = 0 /\ outcome[c] = "timer_deleted")
        ELSE events[c] = 0 /\ outcome[c] = "none"

\* Replace leaves one candidate: each unfinished claim older than another is
\* marked for cancellation, and the newest claim never is.
ReplaceKeepsNewest ==
    \A c \in Claims : Policy[c[1]] = "replace" /\ IsUnfinished(c) =>
        (c \in cancelReq <=> \E d \in ClaimsOf(c[1]) : d[2] > c[2] /\ status[d] # "absent")

\* A claim of a serial timer runs only when every older one is finished.  Only
\* a failed attempt lets the next claim overtake: a panic or a failed store
\* call throws the older claim back while the pump's snapshot holds the newer.
SerialOrder ==
    \A p \in Procs, w \in Workers : Executing(p, w) /\ Policy[wrun[p][w][1]] # "parallel" =>
        \A d \in ClaimsOf(wrun[p][w][1]) : d[2] < wrun[p][w][2] =>
            status[d] = "finished" \/ spent["panic"] + spent["store"] > 0

\* The lane book never leaks: each reservation is backed by a hint in the
\* channel or by the worker that will release it.
ReservationsBacked ==
    \A p \in Procs :
        /\ \A c \in queued[p] :
              \/ \E i \in 1..Len(hints[p]) : hints[p][i] = c
              \/ \E w \in Workers : /\ wrun[p][w] = c
                                   /\ wpc[p][w] \in {"got", "activated", "releasing_queued"}
        /\ \A c \in active[p] : \E w \in Workers :
              wrun[p][w] = c /\ wpc[p][w] \in {"orphaned", "executing", "releasing_lane"}

\* A finished claim is never rewritten: not by a late worker, not by a
\* recovery, not by a Replace fire.
FinishedIsFinal ==
    [][\A c \in Claims : status[c] = "finished" =>
          status'[c] = "finished" /\ outcome'[c] = outcome[c] /\ events'[c] = events[c]]_vars

\* The dispatcher, with its processes, lanes and hints, keeps the promises of
\* the abstract ledger: no start without a free slot, none of a claim that
\* already runs, and no way back from finished.
Running == {c \in Claims : \E p \in Procs, w \in Workers :
                wrun[p][w] = c /\ wpc[p][w] \in {"activated", "orphaned", "executing"}}
Ledger == INSTANCE ClaimLedger WITH Slots <- [t \in Timers |-> Limit(t)], running <- Running
ImplementsLedger == Ledger!Spec

\* Every admitted claim is finished in the end.
EveryClaimFinishes == \A c \in Claims : status[c] = "pending" ~> status[c] = "finished"

=============================================================================
