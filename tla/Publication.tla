---------------------------- MODULE Publication ----------------------------
(***************************************************************************)
(* How an app learns that its timer fired (reply/publication.rs, the        *)
(* transport rows of store/mod.rs, the client registry of ipc/server.rs).   *)
(* A fire stores a projection: a notification for a file, of its own or at  *)
(* a fixed name all timers share, or for the timer's IPC clients.  The        *)
(* dispatcher's pump and another thread - the one that fired, or the reply  *)
(* watcher's reconciler - attempt projections from snapshots of their rows. *)
(* Apps consume files, drop connections, answer or stay silent.             *)
(***************************************************************************)
EXTENDS Integers, Sequences, FiniteSets, SequencesExt, FiniteSetsExt

CONSTANTS
    Timers,        \* ids, a set of positive numbers
    Modes,         \* the transports the timers may be stored with
    Fixed,         \* a fixed notification file is configured (fire_slot_file)
    Conns,         \* IPC connections
    Limit,         \* rows a pump or a sweep takes (8 in the code)
    MaxAttempts,   \* MAX_ATTEMPTS
    Depth,         \* OUT_QUEUE_DEPTH
    MaxRuns,       \* bound: fires
    Env,           \* the environment events that may happen
    MaxEnv         \* bound: how many of them

EnvEvents == {"crash", "io", "delete", "hangup", "consume", "ack", "silence"}
ASSUME TimersAssumption == Timers \subseteq Nat \ {0}
ASSUME ModesAssumption == Modes \subseteq [Timers -> {"json", "ipc", "auto"}]
ASSUME LimitsAssumption ==
    Limit \in Nat \ {0} /\ MaxAttempts \in Nat /\ Depth \in Nat \ {0} /\ MaxRuns \in Nat
ASSUME SwitchAssumption == Fixed \in BOOLEAN /\ Env \subseteq EnvEvents /\ MaxEnv \in Nat

Runs == 1..MaxRuns
Threads == {"pump", "other"}     \* "other": the thread that fires, the watcher that reconciles
FixedFile == <<"fixed", 0>>
OwnFile(r) == <<"fires", r>>
IpcOf(t) == <<"ipc", t>>
Files == {FixedFile} \cup {OwnFile(r) : r \in Runs}
Targets == Files \cup {IpcOf(t) : t \in Timers}

VARIABLES
    (* durable *)
    mode,        \* timers.transport; "gone" when the timer is deleted
    fired,       \* runs so far, in the order of their fires
    rows,        \* transport_projections
    cursor,      \* target_cursors
    selected,    \* run_states.selected_transport
    signals,     \* runs the app has answered
    acked,       \* runs the slot cursor has passed
    noAck,       \* runs with no_ack_at
    file,        \* the run whose notification a file holds, 0 if none
    status,      \* timers whose status.json exists
    stubs,       \* runs whose reply stub exists
    (* the desktop app *)
    live,        \* the IPC server is bound and accepting
    conns,       \* the client registry and the queue of each client
    waiting,     \* rows in backoff
    job,         \* what each thread is doing
    (* history and bounds *)
    shown,       \* runs whose notification has been in an app's reach
    spent

durable == <<mode, fired, rows, cursor, selected, signals, acked, noAck>>
folder == <<file, status, stubs>>
vars == <<durable, folder, live, conns, waiting, job, shown, spent>>

NoRow == [timer |-> 0, kind |-> "none", target |-> FixedFile, order |-> 0, state |-> "none",
          attempts |-> 0]
Rows == [timer : Timers \cup {0}, kind : {"none", "file", "ipc"}, target : Targets,
         order : 0..MaxRuns, state : {"none", "pending", "published", "picked_up", "obsolete"},
         attempts : 0..MaxAttempts]
Idle == [pc |-> "idle", run |-> 0, snap |-> NoRow, todo |-> {}, sweeps |-> FALSE]
Off == [state |-> "off", timer |-> 0, queue |-> <<>>]

TypeOK ==
    /\ mode \in [Timers -> {"json", "ipc", "auto", "gone"}]
    /\ fired \in 0..MaxRuns
    /\ rows \in [Runs -> Rows]
    /\ cursor \in [Targets -> 0..MaxRuns]
    /\ selected \in [Runs -> {"none", "json", "ipc"}]
    /\ signals \subseteq Runs /\ acked \subseteq Runs /\ noAck \subseteq Runs
    /\ file \in [Files -> 0..MaxRuns]
    /\ status \subseteq Timers /\ stubs \subseteq Runs
    /\ live \in BOOLEAN
    /\ \A c \in Conns : /\ conns[c].state \in {"off", "on", "dead"}
                        /\ conns[c].timer \in Timers \cup {0}
                        /\ Range(conns[c].queue) \subseteq Runs /\ Len(conns[c].queue) <= Depth
    /\ waiting \subseteq Runs
    /\ \A th \in Threads : /\ job[th].pc \in {"idle", "sweep", "next", "check", "write", "mark",
                                              "fallback", "pickup", "remove"}
                           /\ job[th].run \in 0..MaxRuns /\ job[th].snap \in Rows
    /\ shown \subseteq Runs
    /\ spent \in 0..MaxEnv

Init ==
    /\ mode \in Modes
    /\ fired = 0 /\ rows = [r \in Runs |-> NoRow] /\ cursor = [g \in Targets |-> 0]
    /\ selected = [r \in Runs |-> "none"]
    /\ signals = {} /\ acked = {} /\ noAck = {}
    /\ file = [f \in Files |-> 0] /\ status = {} /\ stubs = {}
    /\ live = FALSE /\ conns = [c \in Conns |-> Off] /\ waiting = {}
    /\ job = [th \in Threads |-> Idle]
    /\ shown = {} /\ spent = 0

-----------------------------------------------------------------------------
Happens(e) == e \in Env /\ spent < MaxEnv /\ spent' = spent + 1

RunsOf(t) == {r \in Runs : rows[r].timer = t}
Current(t) == IF RunsOf(t) = {} THEN 0 ELSE Max(RunsOf(t))
IsLive(r) == rows[r].state \in {"pending", "published"}
Settled(r) == rows[r].state \in {"picked_up", "obsolete"}

\* A thread between the write of a file and its mark holds the timer's gate and
\* the target's lock.
GateFree(t) == \A th \in Threads : job[th].pc = "mark" => job[th].snap.timer # t
TargetFree(g) == \A th \in Threads : job[th].pc = "mark" => job[th].snap.target # g

\* UPDATE ... WHERE state = 'pending' and its kin: nothing when the row has moved on.
SetState(r, from, to) ==
    rows' = [rows EXCEPT ![r].state = IF @ \in from THEN to ELSE @]
MarkPublished(r) == SetState(r, {"pending"}, "published")
MarkObsolete(r) == SetState(r, {"pending", "published"}, "obsolete")
MarkPickedUp(r) == SetState(r, {"pending", "published"}, "picked_up")
Requeue(r) == SetState(r, {"published"}, "pending") /\ waiting' = waiting \ {r}

\* The thread is done with the row; the pump goes on with its list, oldest first.
First(todo) == CHOOSE x \in todo : \A y \in todo : x.snap.order <= y.snap.order
Load(j) ==
    LET x == First(j.todo) IN
    [j EXCEPT !.pc = IF j.sweeps THEN "sweep" ELSE "check",
              !.run = x.run, !.snap = x.snap, !.todo = @ \ {x}]
After(th) ==
    IF job[th].todo # {} THEN Load(job[th])
    ELSE IF th = "pump" /\ ~job[th].sweeps THEN [Idle EXCEPT !.pc = "next"]
    ELSE Idle
Done(th) == job' = [job EXCEPT ![th] = After(th)]
Goto(th, pc) == job' = [job EXCEPT ![th].pc = pc]
Begin(th, r) == job' = [job EXCEPT ![th].pc = "check", ![th].run = r, ![th].snap = rows[r]]

\* defer: bounded retries, counted from the attempts of the snapshot.
Defer(th) ==
    LET r == job[th].run  n == job[th].snap.attempts + 1 IN
    /\ IF n > MaxAttempts
         THEN MarkObsolete(r) /\ UNCHANGED waiting
         ELSE /\ rows' = [rows EXCEPT ![r].attempts = IF rows[r].state = "pending" THEN n ELSE @]
              /\ waiting' = IF rows[r].state = "pending" THEN waiting \cup {r} ELSE waiting
    /\ Done(th)

(* ---- the IPC client registry ---- *)

Registered(t) == {c \in Conns : conns[c].state # "off" /\ conns[c].timer = t}
HasClient(t) == Registered(t) # {}
\* IpcHandle::send: to every client with room; a full queue keeps the client, one
\* whose receiver is gone is dropped from the registry.
Takers(t) == {c \in Registered(t) : conns[c].state = "on" /\ Len(conns[c].queue) < Depth}
Sent(cs, t, r) ==
    [c \in Conns |->
        IF cs[c].timer # t \/ cs[c].state = "off" THEN cs[c]
        ELSE IF cs[c].state = "dead" THEN Off
        ELSE IF Len(cs[c].queue) < Depth THEN [cs[c] EXCEPT !.queue = Append(@, r)]
        ELSE cs[c]]

(* ---- firing ---- *)

\* select_transport: a process without a live server falls to files.
Select(t, reach) ==
    IF reach /\ (mode[t] = "ipc" \/ (mode[t] = "auto" /\ HasClient(t))) THEN "ipc" ELSE "json"

\* next_publication_order_conn: one more than the rows that are still there.
NextOrder == 1 + Max({0} \cup {rows[r].order : r \in Runs})

NewProjection(t, r, sel) ==
    [timer |-> t, kind |-> IF sel = "ipc" THEN "ipc" ELSE "file",
     target |-> IF sel = "ipc" THEN IpcOf(t) ELSE IF Fixed THEN FixedFile ELSE OwnFile(r),
     order |-> NextOrder, state |-> "pending", attempts |-> 0]

\* fire_transaction and the folder writes after it, under the timer's gate.  A
\* fire of a CLI process reaches no server.
Fire(t, reach, io) ==
    LET r == fired + 1  sel == Select(t, reach)  p == NewProjection(t, r, sel) IN
    /\ job["other"].pc = "idle" /\ fired < MaxRuns /\ mode[t] # "gone" /\ GateFree(t)
    /\ reach => live
    /\ fired' = r
    /\ rows' = [rows EXCEPT ![r] = p]
    /\ cursor' = [cursor EXCEPT ![p.target] = Max({@, p.order})]
    /\ selected' = [selected EXCEPT ![r] = sel]
    /\ \/ /\ ~io /\ UNCHANGED spent
          /\ status' = status \cup {t}
          /\ stubs' = (stubs \ RunsOf(t)) \cup (IF sel = "json" THEN {r} ELSE {})
       \/ io /\ Happens("io") /\ UNCHANGED <<status, stubs>>
    /\ job' = [job EXCEPT !["other"] = [Idle EXCEPT !.pc = "check", !.run = r, !.snap = p]]
    /\ UNCHANGED <<mode, signals, acked, noAck, file, live, conns, waiting, shown>>

\* delete_timer_lifecycle: the timer's rows and the cursors nothing refers to.
Delete(t) ==
    LET left == {r \in Runs : rows[r].state # "none" /\ rows[r].timer # t} IN
    /\ mode[t] # "gone" /\ GateFree(t) /\ Happens("delete")
    /\ mode' = [mode EXCEPT ![t] = "gone"]
    /\ rows' = [r \in Runs |-> IF rows[r].timer = t THEN NoRow ELSE rows[r]]
    /\ cursor' = [g \in Targets |-> IF \E r \in left : rows[r].target = g THEN cursor[g] ELSE 0]
    /\ status' = status \ {t} /\ stubs' = stubs \ RunsOf(t)
    /\ waiting' = waiting \ RunsOf(t) /\ acked' = acked \ RunsOf(t)
    /\ UNCHANGED <<fired, selected, signals, noAck, file, live, conns, job, shown>>

-----------------------------------------------------------------------------
(* ---- attempt ---- *)

\* Before any lock: the cursor, then whether the run's files exist; for IPC the
\* answer of the app and the send.
Obsolete(th) ==
    LET s == job[th].snap IN
    /\ job[th].pc = "check" /\ cursor[s.target] > s.order
    /\ MarkObsolete(job[th].run) /\ Done(th)
    /\ UNCHANGED <<mode, fired, cursor, selected, signals, acked, noAck, folder, live, conns,
                   waiting, shown, spent>>

Eligible(th) == job[th].pc = "check" /\ cursor[job[th].snap.target] <= job[th].snap.order

\* Mutant: only status.json is looked for.
StatusExists(s, r) == s.timer \in status
FilesExist(s, r) == s.timer \in status /\ r \in stubs

CheckFiles(th) ==
    LET s == job[th].snap IN
    /\ Eligible(th) /\ s.kind = "file"
    /\ IF FilesExist(s, job[th].run)
         THEN Goto(th, "write") /\ UNCHANGED <<rows, waiting>>
         ELSE Defer(th)
    /\ UNCHANGED <<mode, fired, cursor, selected, signals, acked, noAck, folder, live, conns,
                   shown, spent>>

SendIpc(th) ==
    LET s == job[th].snap  r == job[th].run IN
    /\ Eligible(th) /\ s.kind = "ipc"
    /\ \/ /\ s.timer \notin status
          /\ Defer(th) /\ UNCHANGED conns
       \/ /\ s.timer \in status /\ r \in signals
          /\ Goto(th, "pickup") /\ UNCHANGED <<rows, waiting, conns>>
       \/ /\ s.timer \in status /\ r \notin signals
          /\ conns' = Sent(conns, s.timer, r)
          /\ IF Takers(s.timer) # {} THEN Goto(th, "mark") /\ UNCHANGED <<rows, waiting>>
             ELSE IF mode[s.timer] = "auto" THEN Goto(th, "fallback") /\ UNCHANGED <<rows, waiting>>
             ELSE Defer(th)
    /\ UNCHANGED <<mode, fired, cursor, selected, signals, acked, noAck, folder, live, shown, spent>>

\* Mutant: only a newer file of the same timer stays.
NewerOfTimer(s, there) == there # 0 /\ rows[there].timer = s.timer /\ rows[there].order > s.order
\* Under the locks: what the file holds decides.  A file of a newer run that is
\* still known stays.
NewerThere(s, there) == there # 0 /\ rows[there].order > s.order

Write(th) ==
    LET s == job[th].snap  r == job[th].run  there == file[s.target] IN
    /\ job[th].pc = "write" /\ GateFree(s.timer) /\ TargetFree(s.target)
    /\ IF there = r
         THEN Defer(th) /\ UNCHANGED <<file, shown, spent>>
       ELSE IF NewerThere(s, there)
         THEN MarkObsolete(r) /\ Done(th) /\ UNCHANGED <<file, shown, waiting, spent>>
       ELSE \/ /\ file' = [file EXCEPT ![s.target] = r] /\ shown' = shown \cup {r}
               /\ Goto(th, "mark") /\ UNCHANGED <<rows, waiting, spent>>
            \/ Happens("io") /\ Defer(th) /\ UNCHANGED <<file, shown>>
    /\ UNCHANGED <<mode, fired, cursor, selected, signals, acked, noAck, status, stubs, live, conns>>

Mark(th) ==
    /\ job[th].pc = "mark"
    /\ MarkPublished(job[th].run) /\ Done(th)
    /\ UNCHANGED <<mode, fired, cursor, selected, signals, acked, noAck, folder, live, conns,
                   waiting, shown, spent>>

\* Mutant: a settled row is converted too.
AnyRow(r) == rows[r].state # "none"
Convertible(r) == IsLive(r)

\* ipc_fallback: the stub first, then the same row becomes a file projection, unless
\* it has settled, and is attempted again.
Fallback(th) ==
    LET s == job[th].snap  r == job[th].run
        p == [rows[r] EXCEPT !.kind = "file", !.target = OwnFile(r), !.state = "pending"] IN
    /\ job[th].pc = "fallback"
    /\ IF mode[s.timer] = "gone" THEN Defer(th) /\ UNCHANGED stubs
       ELSE /\ stubs' = stubs \cup {r}
            /\ UNCHANGED waiting
            /\ IF Convertible(r)
                 THEN /\ rows' = [rows EXCEPT ![r] = p]
                      /\ job' = [job EXCEPT ![th].pc = "check", ![th].snap = p]
                 ELSE Done(th) /\ UNCHANGED rows
    /\ UNCHANGED <<mode, fired, cursor, selected, signals, acked, noAck, file, status, live, conns,
                   shown, spent>>

\* record_pickup: the mark, then the file goes if it is still this run's.
PickUp(th) ==
    LET s == job[th].snap IN
    /\ job[th].pc = "pickup"
    /\ MarkPickedUp(job[th].run)
    /\ IF s.kind = "file" /\ file[s.target] # 0 THEN Goto(th, "remove") ELSE Done(th)
    /\ UNCHANGED <<mode, fired, cursor, selected, signals, acked, noAck, folder, live, conns,
                   waiting, shown, spent>>

RemoveFile(th) ==
    LET s == job[th].snap IN
    /\ job[th].pc = "remove" /\ GateFree(s.timer) /\ TargetFree(s.target)
    /\ file' = [file EXCEPT ![s.target] = IF @ = job[th].run THEN 0 ELSE @]
    /\ Done(th)
    /\ UNCHANGED <<durable, status, stubs, live, conns, waiting, shown, spent>>

-----------------------------------------------------------------------------
(* ---- the pump of the dispatcher tick ---- *)

\* ORDER BY publication_order LIMIT: the oldest rows of a set.
Oldest(S) == {r \in S : Cardinality({q \in S : rows[q].order < rows[r].order}) < Limit}
Snapshots(S) == {[run |-> r, snap |-> rows[r]] : r \in S}

PumpStart ==
    LET due == Oldest({r \in Runs : rows[r].state = "pending"} \ waiting)
        j == [Idle EXCEPT !.todo = Snapshots(due)] IN
    /\ job["pump"].pc = "idle" /\ \E r \in Runs : IsLive(r)
    /\ job' = [job EXCEPT !["pump"] = IF due = {} THEN [j EXCEPT !.pc = "next"] ELSE Load(j)]
    /\ UNCHANGED <<durable, folder, live, conns, waiting, shown, spent>>

SweepStart ==
    LET alive == Oldest({r \in Runs : IsLive(r)})
        j == [Idle EXCEPT !.sweeps = TRUE, !.todo = Snapshots(alive)] IN
    /\ job["pump"].pc = "next"
    /\ job' = [job EXCEPT !["pump"] = IF alive = {} THEN Idle ELSE Load(j)]
    /\ UNCHANGED <<durable, folder, live, conns, waiting, shown, spent>>

\* sweep_pickups on one row: answered, given up, lost with its client, or taken.
PickedUp(r) == r \in signals \/ r \in acked
ClientLost(s) == s.kind = "ipc" /\ s.state = "published" /\ ~HasClient(s.timer)
FileTaken(s) == s.kind = "file" /\ s.state = "published" /\ file[s.target] = 0

Sweep ==
    LET r == job["pump"].run  s == job["pump"].snap IN
    /\ job["pump"].pc = "sweep"
    /\ \/ /\ PickedUp(r)
          /\ Goto("pump", "pickup") /\ UNCHANGED <<rows, waiting>>
       \/ /\ ~PickedUp(r) /\ r \in noAck
          /\ MarkObsolete(r) /\ Done("pump") /\ UNCHANGED waiting
       \/ /\ ~PickedUp(r) /\ r \notin noAck
          /\ IF ClientLost(s) /\ mode[s.timer] = "auto"
               THEN Goto("pump", "fallback") /\ UNCHANGED <<rows, waiting>>
             ELSE IF ClientLost(s) \/ FileTaken(s)
               THEN Requeue(r) /\ Done("pump")
             ELSE Done("pump") /\ UNCHANGED <<rows, waiting>>
    /\ UNCHANGED <<mode, fired, cursor, selected, signals, acked, noAck, folder, live, conns,
                   shown, spent>>

Elapse(r) ==
    /\ r \in waiting /\ waiting' = waiting \ {r}
    /\ UNCHANGED <<durable, folder, live, conns, job, shown, spent>>

\* reconcile_timer: the missing files, then the projection of the current run.
Reconcile(t) ==
    LET r == Current(t) IN
    /\ job["other"].pc = "idle" /\ live /\ mode[t] # "gone" /\ r # 0 /\ GateFree(t)
    /\ status' = status \cup {t}
    /\ stubs' = stubs \cup (IF selected[r] = "ipc" THEN {} ELSE {r})
    /\ \/ rows[r].state = "pending" /\ r \notin waiting
          /\ Begin("other", r) /\ UNCHANGED <<rows, waiting>>
       \/ FileTaken(rows[r]) /\ Requeue(r) /\ Begin("other", r)
       \/ ~(rows[r].state = "pending" /\ r \notin waiting) /\ ~FileTaken(rows[r])
          /\ <<status', stubs'>> # <<status, stubs>>
          /\ UNCHANGED <<rows, waiting, job>>
    /\ UNCHANGED <<mode, fired, cursor, selected, signals, acked, noAck, file, live, conns,
                   shown, spent>>

-----------------------------------------------------------------------------
(* ---- the apps and their connections ---- *)

\* serve_client: the claim names the timer's owner, the client is registered, and
\* the current run of an explicit-ipc timer is sent once more if unanswered.
Connect(c, t) ==
    LET r == Current(t)
        joined == [conns EXCEPT ![c] = [state |-> "on", timer |-> t, queue |-> <<>>]] IN
    /\ live /\ conns[c] = Off /\ mode[t] # "gone"
    /\ conns' = IF mode[t] = "ipc" /\ r # 0 /\ selected[r] = "ipc" /\ r \notin signals /\ rows[r].kind = "ipc"
                THEN Sent(joined, t, r) ELSE joined
    /\ UNCHANGED <<durable, folder, live, waiting, job, shown, spent>>

\* writer_loop hands a frame to the app.
Drain(c) ==
    /\ conns[c].state = "on" /\ conns[c].queue # <<>>
    /\ shown' = shown \cup {Head(conns[c].queue)}
    /\ conns' = [conns EXCEPT ![c].queue = Tail(@)]
    /\ UNCHANGED <<durable, folder, live, waiting, job, spent>>

\* A failed write ends the writer, and its queue with it, before it unregisters.
WriterFails(c) ==
    /\ conns[c].state = "on" /\ Happens("hangup")
    /\ conns' = [conns EXCEPT ![c].state = "dead", ![c].queue = <<>>]
    /\ UNCHANGED <<durable, folder, live, waiting, job, shown>>

\* The reader sees the end of the connection, or the writer has ended.
Unregister(c) ==
    /\ \/ conns[c].state = "on" /\ Happens("hangup")
       \/ conns[c].state = "dead" /\ UNCHANGED spent
    /\ conns' = [conns EXCEPT ![c] = Off]
    /\ UNCHANGED <<durable, folder, live, waiting, job, shown>>

\* An app deletes a notification file when it has read it.
Consume(f) ==
    /\ file[f] # 0 /\ Happens("consume")
    /\ file' = [file EXCEPT ![f] = 0]
    /\ UNCHANGED <<durable, status, stubs, live, conns, waiting, job, shown>>

\* A valid reply to the current run; the slot cursor, which covers every run before.
Answer(r) ==
    /\ r \in shown \ signals /\ r = Current(rows[r].timer)
    /\ signals' = signals \cup {r}
    /\ UNCHANGED <<mode, fired, rows, cursor, selected, acked, noAck, folder, live, conns, waiting,
                   job, shown, spent>>

Acknowledge(r) ==
    /\ r \in shown \ acked /\ rows[r].state # "none" /\ Happens("ack")
    /\ acked' = acked \cup {q \in RunsOf(rows[r].timer) : q <= r}
    /\ UNCHANGED <<mode, fired, rows, cursor, selected, signals, noAck, folder, live, conns, waiting,
                   job, shown>>

\* The pickup deadline of the current run lapses.
GiveUp(r) ==
    /\ rows[r].state # "none" /\ r = Current(rows[r].timer)
    /\ r \notin signals \cup acked \cup noAck /\ Happens("silence")
    /\ noAck' = noAck \cup {r}
    /\ UNCHANGED <<mode, fired, rows, cursor, selected, signals, acked, folder, live, conns, waiting,
                   job, shown>>

-----------------------------------------------------------------------------
(* ---- the process ---- *)

\* IpcServer::spawn; it may also fail and leave every fire to files.
Serve ==
    /\ ~live /\ live' = TRUE
    /\ UNCHANGED <<durable, folder, conns, waiting, job, shown, spent>>

Crash ==
    /\ Happens("crash")
    /\ live' = FALSE /\ conns' = [c \in Conns |-> Off]
    /\ job' = [th \in Threads |-> Idle]
    /\ UNCHANGED <<durable, folder, waiting, shown>>

Step(th) == \/ Obsolete(th) \/ CheckFiles(th) \/ SendIpc(th) \/ Write(th) \/ Mark(th)
            \/ Fallback(th) \/ PickUp(th) \/ RemoveFile(th)
Pump == PumpStart \/ SweepStart \/ Sweep

Next ==
    \/ \E t \in Timers, reach, io \in BOOLEAN : Fire(t, reach, io)
    \/ \E t \in Timers : Delete(t)
    \/ \E th \in Threads : Step(th)
    \/ Pump
    \/ \E r \in Runs : Elapse(r)
    \/ \E t \in Timers : Reconcile(t)
    \/ \E c \in Conns, t \in Timers : Connect(c, t)
    \/ \E c \in Conns : Drain(c)
    \/ \E c \in Conns : WriterFails(c)
    \/ \E c \in Conns : Unregister(c)
    \/ \E f \in Files : Consume(f)
    \/ \E r \in Runs : Answer(r)
    \/ \E r \in Runs : Acknowledge(r)
    \/ \E r \in Runs : GiveUp(r)
    \/ Serve
    \/ Crash

Spec == Init /\ [][Next]_vars

\* The dispatcher ticks, and a thread finishes the attempt it has begun; the app, its
\* connections and the reconciler promise nothing.
FairSpec == Spec /\ WF_vars(Step("other")) /\ WF_vars(Pump \/ Step("pump"))

-----------------------------------------------------------------------------
(* Properties *)

\* A file at a fixed name never goes from the notification of a newer fire to
\* that of an older one, of any timer, whichever thread holds which snapshot.
NewerStays ==
    [][\A f \in Files :
          file[f] # 0 /\ file'[f] # 0 /\ rows[file[f]].state # "none"
             => rows[file'[f]].state = "none" \/ rows[file'[f]].order >= rows[file[f]].order]_vars

\* Picked up and obsolete are final: no stale snapshot, retry, fallback or
\* redelivery revives a projection.
SettledStays == [][\A r \in Runs : Settled(r) => rows'[r].state \in {rows[r].state, "none"}]_vars

\* A notification in a file that names the current run names files that exist.
NamesItsFiles ==
    \A f \in Files, t \in Timers :
        file[f] # 0 /\ file[f] = Current(t) => t \in status /\ file[f] \in stubs

\* Retries stop: a run the app has answered, or acknowledged through the slot, is
\* recorded as picked up.  It does not hold (README, section 4).
RetriesStop == \A r \in Runs : r \in signals \cup acked ~> ~IsLive(r)

=============================================================================
