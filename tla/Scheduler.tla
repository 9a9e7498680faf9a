------------------------------ MODULE Scheduler ------------------------------
(***************************************************************************)
(* The scheduler thread (scheduler/engine/): boot, ticks, the heap of the  *)
(* near horizon, misfire policies and the claim -> act -> record path,     *)
(* against everything that moves at the same time: the wall clock and its  *)
(* steps, users and apps that edit timers on other connections, `run_now`  *)
(* (service/run_now.rs), the dispatcher that finishes claims, and crashes. *)
(*                                                                         *)
(* The database commits one transaction at a time, so an action is at most *)
(* one transaction; what the scheduler read in an earlier transaction may  *)
(* be stale.  A revision only ever grows: `fresh` holds the readers whose  *)
(* row nobody has written since they read it.                              *)
(***************************************************************************)
EXTENDS Integers, FiniteSets, Functions

CONSTANTS
    Timers,
    Rules,        \* recurrence rules: the set of instants of each
    Starts,       \* the timers a run may start with
    MaxTime,      \* bound: the last instant of the wall clock
    Horizon,      \* config.horizon
    MaxSleep,     \* config.max_sleep
    Floor,        \* config.external_rebuild_interval
    Jump,         \* config.jump_threshold
    HighFreq,     \* HIGH_FREQ_PERIOD_SECS
    WalkCap,      \* steps of walk_missed after the first (10 000)
    Steps,        \* by how much the wall clock may be set
    Budget,       \* bound: how often each environment event may happen,
    Total         \* bound: and how many of them

Never == -1
Instants == 0..MaxTime
EnvEvents == {"crash", "clock", "edit", "rule", "manual", "pause"}

Slots == UNION Rules

\* `every` is 0 for a calendar rule and the period of an interval; `limit`
\* is max_catch_up; `maxRuns` 0 stands for no limit; `jitter` is the offset
\* that the hash of timer and slot gives.
Configs == [misfire : {"skip", "coalesce", "catch_up"}, grace : Nat, every : Nat,
            limit : Nat, maxRuns : Nat, jitter : [Slots -> Int]]

ASSUME RulesAssumption == Rules \subseteq SUBSET Nat
ASSUME StartsAssumption ==
    Starts \subseteq [Timers -> [phase : {"live", "unborn"}, rule : Rules, config : Configs]]
ASSUME LimitsAssumption ==
    {MaxTime, Horizon, MaxSleep, Floor, Jump, HighFreq, WalkCap} \subseteq Nat
ASSUME ClockAssumption == Steps \subseteq Int
ASSUME BoundsAssumption == Budget \in [EnvEvents -> Nat] /\ Total \in Nat

VARIABLES
    (* clocks *)
    wall,
    drift,       \* wall minus monotonic time since last_wall/last_mono were set
    age,         \* monotonic time since the last rebuild, up to Floor
    nap,         \* what is left of the sleep
    (* the store *)
    row,         \* the timers table
    fresh,       \* readers whose row still has the revision they read
    open,        \* unfinished claims of scheduled slots
    closed,      \* finished claims of scheduled slots
    merged,      \* slots a `coalesced` event reports
    skipped,     \* slots a `skipped_misfire` event reports
    (* the scheduler thread *)
    pc, then,    \* where it is, and where it returns to
    heap, paused, foreign,
    ctrl,        \* pending control messages
    at,          \* the `now` of the pass
    todo,        \* misfire_pass: timers it has still to look at
    resolved,    \* drain_due
    cur,         \* the timer in hand,
    slot,        \* the instant it handles (while it advances: up to where),
    index,       \* the catch-up step,
    batch,       \* and the slots a coalesced fire stands for
    manual,      \* run_now in another thread or process
    spent

clocks == <<wall, drift, age, nap>>
events == <<merged, skipped>>
claims == <<open, closed>>
work == <<cur, slot, index, batch>>
local == <<at, todo, resolved, work>>
vars == <<clocks, row, fresh, claims, events, pc, then, heap, paused, foreign, ctrl,
          local, manual, spent>>

-----------------------------------------------------------------------------
Rows == [phase : {"unborn", "live", "gone"}, config : Configs, enabled : BOOLEAN, rule : Rules,
         next : Slots \union {Never}, last : Slots \union Instants \union {Never}, runs : Nat]
Ctrl == [refill : BOOLEAN, pause : {"none", "on", "off"}, stop : BOOLEAN]
Readers == {"scheduler", "manual"}
PCs == {"down", "stopped", "asleep", "check", "tick", "rebuild", "scan", "drain", "fire",
        "mark", "marking", "ensure", "ensuring", "requeue", "advance", "advancing",
        "catch", "anchor", "anchoring", "caught"}

Earliest(S) == IF S = {} THEN Never ELSE CHOOSE s \in S : \A u \in S : s <= u
Latest(S) == CHOOSE s \in S : \A u \in S : s >= u
Overdue(r, now) == r.phase = "live" /\ r.next # Never /\ r.next <= now
Due(r, now) == r.enabled /\ Overdue(r, now)

\* Mutant for MaxRunsKept: next_fire does not look at max_runs.
NextFireUnlimited(r, after) == Earliest({s \in r.rule : s > after})

\* Occurrence::next_fire: the first instant after `after`, none once max_runs
\* are done.
Exhausted(r) == r.config.maxRuns # 0 /\ r.runs >= r.config.maxRuns
NextFire(r, after) ==
    IF Exhausted(r) THEN Never ELSE Earliest({s \in r.rule : s > after})
\* update_timer: apply the patch, recompute next_fire, move the revision on.
Recomputed(r) ==
    [r EXCEPT !.next = NextFire(r, IF r.last = Never THEN wall ELSE r.last)]
Reading(t) == {p \in fresh : (IF p = "scheduler" THEN cur ELSE manual.timer) = t}
Write(t, r) ==
    /\ row' = [row EXCEPT ![t] = Recomputed(r)]
    /\ fresh' = fresh \ Reading(t)

GraceFor(t) == IF row[t].config.misfire = "skip" THEN row[t].config.every ELSE row[t].config.grace
Frequent(t) == row[t].config.every # 0 /\ row[t].config.every < HighFreq
ExecAt(t, s) == s + row[t].config.jitter[s]

\* walk_missed: the due slot and at most WalkCap later ones up to now.
Missed(r, now) == {s \in r.rule : r.next <= s /\ s <= now}
\* Mutant for BacklogIsLogged: only the slot the row names is missed.
WalkOfFirst(r, now) == {s \in Missed(r, now) : s = r.next}
Walk(r, now) == {s \in Missed(r, now) :
                    Cardinality({u \in Missed(r, now) : u < s}) <= WalkCap}
InGrace(t, S, now) == {s \in S : now - s <= GraceFor(t)}

\* push_if_in_horizon / requeue_timer
Pushed(t, s) == IF ExecAt(t, s) <= wall + Horizon \/ Frequent(t)
                THEN {<<ExecAt(t, s), t>>} ELSE {}
\* Mutant for HeapComplete: the timer is not queued for its next slot.
NotRequeued(t) == heap
Requeued(t) ==
    heap \union (IF row[t].phase = "live" /\ row[t].enabled /\ row[t].next # Never
                 THEN Pushed(t, row[t].next) ELSE {})
\* rebuild_horizon: due by the horizon, or a high-frequency interval.
Rebuilt == {<<ExecAt(t, row[t].next), t>> : t \in
               {t \in Timers : /\ row[t].phase = "live" /\ row[t].enabled
                               /\ row[t].next # Never
                               /\ row[t].next <= wall + Horizon \/ Frequent(t)}}

Claimed(t, s) == <<t, s>> \in open \union closed
Running == pc \notin {"down", "stopped"}
Happens(e) ==
    /\ spent[e] < Budget[e] /\ FoldFunction(LAMBDA n, m : n + m, 0, spent) < Total
    /\ spent' = [spent EXCEPT ![e] = @ + 1]
Absolute(x) == IF x < 0 THEN -x ELSE x

Init ==
    /\ wall = 0 /\ drift = 0 /\ age = 0 /\ nap = 0
    /\ \E start \in Starts :
          row = [t \in Timers |->
                   [phase |-> start[t].phase, config |-> start[t].config, enabled |-> TRUE,
                    rule |-> start[t].rule, last |-> Never, runs |-> 0,
                    next |-> Earliest({s \in start[t].rule : s > 0})]]
    /\ fresh = {} /\ open = {} /\ closed = {} /\ merged = {} /\ skipped = {}
    /\ pc = "down" /\ then = "boot"
    /\ heap = {} /\ paused = FALSE /\ foreign = FALSE
    /\ ctrl = [refill |-> FALSE, pause |-> "none", stop |-> FALSE]
    /\ at = 0 /\ todo = {} /\ resolved = {} /\ cur \in Timers /\ slot = 0 /\ index = 0 /\ batch = {}
    /\ manual = [pc |-> "idle", timer |-> cur, at |-> 0]
    /\ spent = [e \in EnvEvents |-> 0]

-----------------------------------------------------------------------------
(* Boot, ticks, sleep (drive.rs) *)

StartScan(why) ==
    /\ at' = wall
    /\ todo' = {t \in Timers : Due(row[t], wall)}
    /\ pc' = "scan" /\ then' = why
    /\ UNCHANGED <<resolved, work>>

\* boot: the misfire pass, then the first rebuild.  What it does before (prune,
\* reply scan, boot_complete) does not touch this state.
Boot ==
    /\ pc = "down"
    /\ drift' = 0
    /\ StartScan("boot")
    /\ UNCHANGED <<wall, age, nap, row, fresh, claims, events, heap, paused, foreign, ctrl,
                   manual, spent>>

\* rebuild_horizon, first half: data_version is read before the timers are.
Snapshot(return) ==
    /\ foreign' = FALSE /\ age' = 0
    /\ pc' = "rebuild" /\ then' = return

Rebuild ==
    /\ pc = "rebuild"
    /\ heap' = Rebuilt
    /\ pc' = then /\ then' = "drain"
    /\ IF then = "drain" THEN at' = wall /\ resolved' = {} ELSE UNCHANGED <<at, resolved>>
    /\ UNCHANGED <<clocks, row, fresh, claims, events, paused, foreign, ctrl, todo, work,
                   manual, spent>>

\* The wait returns on a message or when it times out; messages are applied
\* before anything fires.
Wake ==
    /\ pc = "asleep"
    /\ nap = 0 \/ ctrl.refill \/ ctrl.stop \/ ctrl.pause # "none"
    /\ nap' = 0
    /\ ctrl' = [refill |-> FALSE, pause |-> "none", stop |-> FALSE]
    /\ paused' = IF ctrl.pause = "none" THEN paused ELSE ctrl.pause = "on"
    /\ IF ctrl.stop
       THEN pc' = "stopped" /\ UNCHANGED <<then, foreign, age>>
       ELSE IF ctrl.refill THEN Snapshot("check")
       ELSE pc' = "check" /\ UNCHANGED <<then, foreign, age>>
    /\ UNCHANGED <<wall, drift, row, fresh, claims, events, heap, local, manual, spent>>

\* Mutant for DueIsHandled: foreign commits and the floor go unnoticed.
CheckNothing ==
    /\ pc = "check"
    /\ pc' = "tick"
    /\ UNCHANGED <<clocks, row, fresh, claims, events, then, heap, paused, foreign, ctrl, local,
                   manual, spent>>

\* external_store_changed
CheckStore ==
    /\ pc = "check"
    /\ IF foreign \/ age >= Floor THEN Snapshot("tick")
       ELSE pc' = "tick" /\ UNCHANGED <<then, foreign, age>>
    /\ UNCHANGED <<wall, drift, nap, row, fresh, claims, events, heap, paused, ctrl, local,
                   manual, spent>>

\* next_sleep: until the head of the heap, at most max_sleep.
SleepFor == LET head == Earliest({e[1] : e \in heap})
            IN IF heap = {} \/ head - wall >= MaxSleep THEN MaxSleep
               ELSE IF head <= wall THEN 0 ELSE head - wall
FallAsleep == pc' = "asleep" /\ nap' = SleepFor /\ then' = "drain"

\* tick, past the control messages: pause, clock jump, drain.
Tick ==
    /\ pc = "tick"
    /\ \/ /\ paused
          /\ FallAsleep
          /\ UNCHANGED <<drift, local>>
       \/ /\ ~paused /\ Absolute(drift) > Jump
          /\ drift' = 0
          /\ StartScan("jump")
          /\ UNCHANGED nap
       \/ /\ ~paused /\ Absolute(drift) <= Jump
          /\ drift' = 0
          /\ pc' = "drain" /\ then' = "drain" /\ at' = wall /\ resolved' = {}
          /\ UNCHANGED <<nap, todo, work>>
    /\ UNCHANGED <<wall, age, row, fresh, claims, events, heap, paused, foreign, ctrl, manual,
                   spent>>

\* misfire_pass: every timer the snapshot had due, through the due handler.
\* The jump path goes on to drain; after boot the first tick follows at once.
ScanDone ==
    /\ pc = "scan" /\ todo = {}
    /\ IF then = "boot" THEN Snapshot("asleep") ELSE Snapshot("drain")
    /\ nap' = 0 /\ at' = 0
    /\ UNCHANGED <<wall, drift, row, fresh, claims, events, heap, paused, ctrl, todo, resolved,
                   work, manual, spent>>

-----------------------------------------------------------------------------
(* The due handler: misfire policy, fire, mark, advance (delivery.rs) *)

Return == /\ pc' = (IF then = "drain" THEN "drain" ELSE "scan")
          /\ slot' = 0 /\ index' = 0 /\ batch' = {} /\ UNCHANGED cur
Turn(step, s) == pc' = step /\ slot' = s /\ UNCHANGED <<cur, index, batch>>

\* handle_due_timer(t, _, at) on a row that is due.  A skipped backlog is
\* logged before the timer moves; the event of a coalesced fire is part of
\* the fire transaction.
HandleDue(t) ==
    LET r == row[t]
        walk == Walk(r, at)
        graced == InGrace(t, walk, at)
        go(step, s, group) == pc' = step /\ cur' = t /\ slot' = s /\ index' = 0 /\ batch' = group
        drop == skipped' = skipped \union {<<t, s>> : s \in walk} /\ go("advance", at, {})
    IN /\ \/ /\ row[t].config.misfire = "skip"
             /\ IF at - r.next <= GraceFor(t) THEN go("fire", r.next, {}) /\ UNCHANGED skipped
                ELSE drop
          \/ /\ row[t].config.misfire = "coalesce"
             /\ IF graced # {} THEN go("fire", Latest(graced), walk) /\ UNCHANGED skipped
                ELSE drop
          \/ /\ row[t].config.misfire = "catch_up"
             /\ go("catch", r.next, {}) /\ UNCHANGED skipped
       /\ UNCHANGED merged

ScanNext ==
    /\ pc = "scan"
    /\ \E t \in todo :
          /\ todo' = todo \ {t}
          /\ IF Due(row[t], at) THEN HandleDue(t) /\ UNCHANGED heap
             ELSE heap' = Requeued(t) /\ UNCHANGED <<pc, work, events>>
    /\ UNCHANGED <<clocks, row, fresh, claims, then, paused, foreign, ctrl, at, resolved,
                   manual, spent>>

\* drain_due: the head of the heap, if its time has come.  The row decides;
\* jitter may put the execution later than the entry or before the slot.
DrainDone ==
    /\ pc = "drain"
    /\ \A e \in heap : e[1] > at
    /\ FallAsleep
    /\ resolved' = {} /\ at' = 0
    /\ UNCHANGED <<wall, drift, age, row, fresh, claims, events, heap, paused, foreign,
                   ctrl, todo, work, manual, spent>>

DrainNext ==
    /\ pc = "drain"
    /\ \E e \in heap :
          LET t == e[2]
              r == row[t]
              again(s) ==
                  heap' = (heap \ {e}) \union {<<s, t>>} /\ UNCHANGED <<pc, work, events>>
          IN /\ e[1] <= at /\ \A x \in heap : e[1] <= x[1]
             /\ resolved' = resolved \union {t}
             /\ IF t \in resolved \/ r.phase # "live" \/ ~r.enabled \/ r.next = Never
                THEN heap' = heap \ {e} /\ UNCHANGED <<pc, work, events>>
                ELSE IF ExecAt(t, r.next) > at THEN again(ExecAt(t, r.next))
                ELSE IF r.next > at THEN again(r.next)
                ELSE heap' = heap \ {e} /\ HandleDue(t)
    /\ UNCHANGED <<clocks, row, fresh, claims, then, paused, foreign, ctrl, at, todo,
                   manual, spent>>

\* deliver_one: the fire transaction claims the slot (an overlap skip closes
\* the claim at once).  A claim that is already there was left by a crash:
\* unfinished, its fire is recorded now; finished, the timer only moves on.
\* A deleted timer is claimed all the same: runs has no foreign key.
Fire ==
    /\ pc = "fire"
    /\ LET c == <<cur, slot>>
       IN \/ /\ ~Claimed(cur, slot)
             /\ \/ open' = open \union {c} /\ UNCHANGED closed
                \/ closed' = closed \union {c} /\ UNCHANGED open
             /\ merged' = IF Cardinality(batch) > 1
                          THEN merged \union {<<cur, s>> : s \in batch} ELSE merged
             /\ Turn("mark", slot)
          \/ /\ c \in open /\ Turn("mark", slot) /\ UNCHANGED <<claims, merged>>
          \/ /\ c \in closed /\ Turn("ensure", slot) /\ UNCHANGED <<claims, merged>>
    /\ UNCHANGED <<clocks, row, fresh, skipped, then, heap, paused, foreign, ctrl, at, todo,
                   resolved, manual, spent>>

\* After a delivery each policy goes its own way.
Delivered ==
    CASE row[cur].config.misfire = "skip" -> Turn("requeue", slot)
      [] row[cur].config.misfire = "coalesce" -> Turn("advance", at)
      [] OTHER -> Turn("caught", slot)

\* The scheduler reads a row to write it back under its revision.
ReadFor(step, s) ==
    IF row[cur].phase = "live"
    THEN fresh' = fresh \union {"scheduler"} /\ Turn(step, s)
    ELSE pc' = "stopped" /\ UNCHANGED <<fresh, work>>
\* A stale revision or a missing row is an error that ends the thread.
WriteBack(r, onward) ==
    IF "scheduler" \in fresh /\ row[cur].phase = "live"
    THEN Write(cur, r) /\ onward
    ELSE pc' = "stopped" /\ UNCHANGED <<row, fresh, work>>

\* act_and_close, after the action was handed to the dispatcher
Mark ==
    /\ pc = "mark"
    /\ IF row[cur].phase = "live" /\ row[cur].last < slot
       THEN ReadFor("marking", slot) /\ UNCHANGED heap
       ELSE heap' = Requeued(cur) /\ Delivered /\ UNCHANGED fresh
    /\ UNCHANGED <<clocks, row, claims, events, then, paused, foreign, ctrl, at, todo,
                   resolved, manual, spent>>

MarkFired ==
    /\ pc = "marking"
    /\ WriteBack([row[cur] EXCEPT !.last = slot, !.runs = @ + 1], Delivered)
    /\ UNCHANGED <<clocks, claims, events, then, heap, paused, foreign, ctrl, at, todo,
                   resolved, manual, spent>>

\* ensure_advanced_past
Ensure ==
    /\ pc = "ensure"
    /\ IF row[cur].phase = "live" /\ row[cur].next <= slot
       THEN ReadFor("ensuring", slot) /\ UNCHANGED heap
       ELSE heap' = Requeued(cur) /\ Delivered /\ UNCHANGED fresh
    /\ UNCHANGED <<clocks, row, claims, events, then, paused, foreign, ctrl, at, todo,
                   resolved, manual, spent>>

EnsureAdvanced ==
    /\ pc = "ensuring"
    /\ WriteBack([row[cur] EXCEPT !.last = slot],
                 IF Overdue(row'[cur], wall) THEN Turn("advance", wall) ELSE Delivered)
    /\ UNCHANGED <<clocks, claims, events, then, heap, paused, foreign, ctrl, at, todo,
                   resolved, manual, spent>>

\* advance_past_now(cur, slot): last_fired becomes the last instant walked,
\* or the instant given when nothing was walked and nothing ever fired.
Advance ==
    /\ pc = "advance"
    /\ ReadFor("advancing", slot)
    /\ UNCHANGED <<clocks, row, claims, events, then, heap, paused, foreign, ctrl, at, todo,
                   resolved, manual, spent>>

AdvancePastNow ==
    /\ pc = "advancing"
    /\ LET r == row[cur]
           from == IF r.last # Never THEN r.last ELSE IF r.next # Never THEN r.next - 1 ELSE slot
           walked == IF Exhausted(r) THEN {} ELSE {s \in r.rule : from < s /\ s <= slot}
           anchor == IF walked # {} THEN Latest(walked)
                     ELSE IF r.last # Never THEN r.last ELSE slot
       IN WriteBack([r EXCEPT !.last = anchor], Turn("requeue", 0))
    /\ UNCHANGED <<clocks, claims, events, then, heap, paused, foreign, ctrl, at, todo,
                   resolved, manual, spent>>

Requeue ==
    /\ pc = "requeue"
    /\ heap' = Requeued(cur)
    /\ Return
    /\ UNCHANGED <<clocks, row, fresh, claims, events, then, paused, foreign, ctrl, at, todo,
                   resolved, manual, spent>>

\* The catch-up loop: slots beyond the grace are passed one by one, the
\* others fire, `limit` of them at most; what is left is passed at the end.
Leftover == IF Overdue(row[cur], at) THEN Turn("advance", at)
            ELSE Turn("requeue", slot)

CatchUp ==
    /\ pc = "catch"
    /\ IF slot > at \/ index >= row[cur].config.limit \/ row[cur].phase # "live"
       THEN Leftover
       ELSE IF at - slot > row[cur].config.grace THEN Turn("anchor", slot) ELSE Turn("fire", slot)
    /\ UNCHANGED <<clocks, row, fresh, claims, events, then, heap, paused, foreign, ctrl, at,
                   todo, resolved, manual, spent>>

Anchor ==
    /\ pc = "anchor"
    /\ ReadFor("anchoring", slot)
    /\ UNCHANGED <<clocks, row, claims, events, then, heap, paused, foreign, ctrl, at, todo,
                   resolved, manual, spent>>

AnchorLastFired ==
    /\ pc = "anchoring"
    /\ WriteBack([row[cur] EXCEPT !.last = slot],
                 /\ pc' = IF row'[cur].next > slot THEN "catch" ELSE "requeue"
                 /\ slot' = row'[cur].next
                 /\ UNCHANGED <<cur, index, batch>>)
    /\ UNCHANGED <<clocks, claims, events, then, heap, paused, foreign, ctrl, at, todo,
                   resolved, manual, spent>>

Caught ==
    /\ pc = "caught"
    /\ IF Overdue(row[cur], at)
       THEN pc' = "catch" /\ slot' = row[cur].next /\ UNCHANGED heap
       ELSE heap' = Requeued(cur) /\ pc' = "requeue" /\ slot' = slot
    /\ index' = index + 1
    /\ UNCHANGED <<cur, batch>>
    /\ UNCHANGED <<clocks, row, fresh, claims, events, then, paused, foreign, ctrl, at, todo,
                   resolved, manual, spent>>

-----------------------------------------------------------------------------
(* Everything around the thread *)

scheduler == <<pc, then, heap, paused, local>>

\* Time passes while the thread waits: a pass takes none (but the clock may
\* be set in the middle of one).  At MaxTime only the monotonic clock goes on.
Pass ==
    /\ pc \in {"asleep", "down", "stopped"}
    /\ wall' = IF wall < MaxTime THEN wall + 1 ELSE wall
    /\ nap' = IF nap > 0 THEN nap - 1 ELSE 0
    /\ age' = IF age < Floor THEN age + 1 ELSE age
    /\ UNCHANGED <<drift, row, fresh, claims, events, scheduler, foreign, ctrl, manual, spent>>

\* The wall clock is set.
SetClock ==
    /\ Happens("clock")
    /\ \E d \in Steps :
          wall + d \in Instants /\ wall' = wall + d /\ drift' = drift + d
    /\ UNCHANGED <<age, nap, row, fresh, claims, events, scheduler, foreign, ctrl, manual>>

\* A user or an app edits a timer on another connection.  The desktop nudges
\* the scheduler, the command line and slots do not.
Foreign ==
    /\ foreign' = TRUE
    /\ \E nudge \in BOOLEAN : ctrl' = [ctrl EXCEPT !.refill = @ \/ (nudge /\ Running)]
    /\ UNCHANGED <<clocks, claims, events, scheduler, manual>>

SetEnabled ==
    /\ Happens("edit")
    /\ \E t \in Timers :
          row[t].phase = "live" /\ Write(t, [row[t] EXCEPT !.enabled = ~@])
    /\ Foreign

\* Another rule: a new occurrence has counted no run.
ChangeRule ==
    /\ Happens("rule")
    /\ \E t \in Timers : \E rule \in Rules \ {row[t].rule} :
          row[t].phase = "live" /\ Write(t, [row[t] EXCEPT !.rule = rule, !.runs = 0])
    /\ Foreign

Create ==
    /\ Happens("edit")
    /\ \E t \in Timers :
          row[t].phase = "unborn" /\ Write(t, [row[t] EXCEPT !.phase = "live"])
    /\ Foreign

Delete ==
    /\ Happens("edit")
    /\ \E t \in Timers :
          /\ row[t].phase = "live"
          /\ row' = [row EXCEPT ![t].phase = "gone"]
          /\ fresh' = fresh \ Reading(t)
    /\ Foreign

SendPause ==
    /\ Running
    /\ Happens("pause")
    /\ \E p \in {"on", "off"} : ctrl' = [ctrl EXCEPT !.pause = p]
    /\ UNCHANGED <<clocks, row, fresh, claims, events, scheduler, foreign, manual>>

SendShutdown ==
    /\ Running
    /\ Happens("crash")
    /\ ctrl' = [ctrl EXCEPT !.stop = TRUE]
    /\ UNCHANGED <<clocks, row, fresh, claims, events, scheduler, foreign, manual>>

\* run_now: read the timer, fire in a transaction of its own, then move
\* last_fired on under the revision read first.
ManualRead ==
    /\ manual.pc = "idle"
    /\ Happens("manual")
    /\ \E t \in Timers :
          /\ row[t].phase = "live"
          /\ manual' = [pc |-> "read", timer |-> t, at |-> wall]
    /\ fresh' = fresh \union {"manual"}
    /\ UNCHANGED <<clocks, row, claims, events, scheduler, foreign, ctrl>>

ManualFire ==
    /\ manual.pc = "read"
    /\ manual' = [manual EXCEPT !.pc = "fired"]
    /\ foreign' = TRUE
    /\ UNCHANGED <<clocks, row, fresh, claims, events, scheduler, ctrl, spent>>

ManualMark ==
    /\ manual.pc = "fired"
    /\ LET t == manual.timer
       IN IF "manual" \in fresh /\ row[t].phase = "live"
          THEN /\ Write(t, [row[t] EXCEPT !.last = manual.at, !.runs = @ + 1])
               /\ manual' = [pc |-> "idle", timer |-> t, at |-> 0]
               /\ foreign' = TRUE
          ELSE /\ manual' = [pc |-> "refused", timer |-> t, at |-> 0]
               /\ UNCHANGED <<row, fresh, foreign>>
    /\ UNCHANGED <<clocks, claims, events, scheduler, ctrl, spent>>

\* The dispatcher finishes a claim.
Finish ==
    /\ \E c \in open : open' = open \ {c} /\ closed' = closed \union {c}
    /\ foreign' = TRUE
    /\ UNCHANGED <<clocks, row, fresh, events, scheduler, ctrl, manual, spent>>

\* The process dies, or is started again after it was shut down; the pause
\* flag was persisted when it was asked for.
Crash ==
    /\ Running \/ pc = "stopped"
    /\ Happens("crash")
    /\ pc' = "down" /\ then' = "boot" /\ heap' = {} /\ nap' = 0
    /\ ctrl' = [refill |-> FALSE, pause |-> "none", stop |-> FALSE]
    /\ fresh' = fresh \ {"scheduler"}
    /\ at' = 0 /\ todo' = {} /\ resolved' = {} /\ slot' = 0 /\ index' = 0 /\ batch' = {}
    /\ paused' = IF ctrl.pause = "none" THEN paused ELSE ctrl.pause = "on"
    /\ UNCHANGED <<wall, drift, age, row, claims, events, cur, foreign, manual>>

Thread == \/ Boot \/ Rebuild \/ Wake \/ CheckStore \/ Tick \/ ScanNext \/ ScanDone
          \/ DrainNext \/ DrainDone \/ Fire \/ Mark \/ MarkFired \/ Ensure \/ EnsureAdvanced
          \/ Advance \/ AdvancePastNow \/ Requeue \/ CatchUp \/ Anchor \/ AnchorLastFired
          \/ Caught
Environment == \/ Pass \/ SetClock \/ SetEnabled \/ ChangeRule \/ Create \/ Delete
               \/ SendPause \/ SendShutdown \/ ManualRead
               \/ ManualFire \/ ManualMark \/ Finish \/ Crash
Next == Thread \/ Environment

Spec == Init /\ [][Next]_vars
\* The thread is scheduled, and time passes.
FairSpec == Spec /\ WF_vars(Thread) /\ WF_vars(Pass)

-----------------------------------------------------------------------------
(* Properties *)

TypeOK ==
    /\ wall \in Instants /\ drift \in Int /\ age \in 0..Floor /\ nap \in Nat
    /\ row \in [Timers -> Rows]
    /\ fresh \subseteq Readers
    /\ open \subseteq Timers \X Slots /\ closed \subseteq Timers \X Slots
    /\ merged \subseteq Timers \X Slots /\ skipped \subseteq Timers \X Slots
    /\ pc \in PCs /\ then \in {"boot", "jump", "asleep", "check", "tick", "drain"}
    /\ heap \subseteq Int \X Timers /\ paused \in BOOLEAN /\ foreign \in BOOLEAN
    /\ ctrl \in Ctrl
    /\ at \in Instants /\ todo \subseteq Timers /\ resolved \subseteq Timers
    /\ cur \in Timers /\ slot \in Slots \union Instants \union {Never} /\ index \in Nat
    /\ batch \subseteq Slots
    /\ manual \in [pc : {"idle", "read", "fired", "refused"}, timer : Timers, at : Instants]
    /\ spent \in [EnvEvents -> Nat]

\* The due slots a write of the scheduler moves t past without a claim and
\* without a coalesced or skipped event.  (Instants a rule brings in when it
\* is changed meanwhile were never missed.)
LostSilently(t) ==
    {s \in row[t].rule :
        /\ pc' # pc /\ spent["rule"] = 0
        /\ row[t].next # Never /\ row[t].next <= s /\ s <= wall
        /\ row'[t].next = Never \/ s < row'[t].next
        /\ ~Exhausted(row'[t])
        /\ <<t, s>> \notin open \union closed \union merged \union skipped}

\* "Every miss/outcome is logged to JSONL" (delivery.rs:34), whatever the
\* policy and whatever happened before.  It does not hold (README, section 4).
MissesAreLogged == [][\A t \in Timers : LostSilently(t) = {}]_vars

\* The policies that log keep that promise, when a clock step, an edit or a
\* manual run comes anywhere into a backlog that one walk can pass.  The jump
\* of the backlog behind a claim that a crash left finished is silent, and so
\* are two more cases out of this instance's reach (README, section 4).
BacklogIsLogged ==
    [][\A t \in Timers : row[t].config.misfire # "catch_up" /\ spent["crash"] = 0 =>
                             LostSilently(t) = {}]_vars

\* While it sleeps and nothing tells it to look again (no foreign commit, no
\* message, no floor, no clock jump), the heap wakes it for every due timer:
\* pushes limited to the horizon and stale entries never lose one.  (A jitter before
\* the slot, a Skip interval handled late by exactly its period and a clock set back
\* during a pass do: README, section 4.)
HeapComplete ==
    pc = "asleep" /\ ~foreign /\ ~ctrl.refill /\ age < Floor /\ Absolute(drift) <= Jump =>
        \A t \in Timers : Due(row[t], wall) =>
            \E e \in heap : e[2] = t /\ (e[1] <= wall \/ e[1] <= ExecAt(t, row[t].next))

\* max_runs "stop after this many delivered runs": without a crash or a new
\* rule no more slots are claimed than max_runs allows.
MaxRunsKept ==
    \A t \in Timers :
        row[t].config.maxRuns # 0 /\ spent["crash"] = 0 /\ spent["rule"] = 0 =>
            Cardinality({c \in open \union closed : c[1] = t}) <= row[t].config.maxRuns

\* stale_revision is an "optimistic concurrency conflict (retry)"
\* (docs/CLI.md:139): a run_now that answers it has not fired.  It does not hold (README, section 4).
RetryIsSafe == manual.pc # "refused"

\* A due timer is looked at while the thread runs: it stops being due, or is
\* disabled, deleted, or everything is paused.
DueIsHandled ==
    \A t \in Timers :
        Running /\ Due(row[t], wall) /\ ExecAt(t, row[t].next) <= wall
            ~> ~Due(row[t], wall) \/ ExecAt(t, row[t].next) > wall \/ paused \/ ~Running
=============================================================================
