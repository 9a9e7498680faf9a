---------------------------- MODULE TimerFolders ----------------------------
(***************************************************************************)
(* The rows of the timers table, the folder view of them under timers/      *)
(* (tree/mod.rs) and the passes that keep both in order: the prune of       *)
(* finished one-shots, the orphan sweep, the reconciliation                 *)
(* (pruner/mod.rs) and the new-year recalibration (pruner/year.rs).  The    *)
(* window and the command line edit rows and run timers at any time; the    *)
(* engine fires, prunes and recalibrates on one thread.                     *)
(***************************************************************************)
EXTENDS Integers, FiniteSets, FiniteSetsExt

CONSTANTS
    Ids,          \* timers that may ever exist
    Slug, Prefix, \* of each timer: the slug of its name, the short form of its id
    Repeating,    \* those that fire at every instant; the others fire once
    Editors,      \* processes that edit and run timers: windows and command lines
    Rearm,        \* whether an edit may give a one-shot a new instant
    Ends,         \* the instants a timer's validity may end at
    Past,         \* instant, end of validity and last fire of the timers there may be at the start
    Grace,        \* ack_grace
    MaxTime, MaxEdits, MaxRounds   \* bounds: the clock, edits and runs by hand, crashes and fires of system.prune

ASSUME BoundsAssumption == {Grace, MaxTime, MaxEdits, MaxRounds} \cup Ends \subseteq Nat
ASSUME PastAssumption == Past \subseteq [at : 1..MaxTime, until : {0} \cup Ends, fired : {0, 1}]
ASSUME IdsAssumption == Repeating \subseteq Ids /\ Ids \cap {Prefix[t] : t \in Ids} = {}

Engine == "engine"
Threads == Editors \cup {Engine}
None == 0
Nobody == "nobody"

ASSUME ThreadsAssumption == {Engine, Nobody} \cap Editors = {}
Absent == [rev |-> 0]
Bare == [rev |-> 0]        \* a folder without a readable timer.json
Paths == {<<Slug[t], Prefix[t]>> : t \in Ids} \cup {<<Slug[t], t>> : t \in Ids}
Times == 1..MaxTime

VARIABLES
    now,
    rows,       \* the timers table
    folders,    \* path -> the id and revision its timer.json shows
    unborn,     \* ids no timer has had yet
    runs, slot, \* per timer: its unfinished runs, the instant claimed last
    gate,       \* per timer: the thread holding its file lock
    job,        \* what each thread is doing
    list,       \* the rows or ids the engine's pass has read
    todo,       \* what the pass has still to visit
    lastPrune, lastYear,   \* whether the stamps in `meta` are current
    calm,       \* nobody has interfered with the pass
    unseen,     \* history: timers re-armed after the prune listed them or run after it read their runs
    edits, rounds

dbVars == <<rows, unborn, runs, slot, lastPrune, lastYear>>
passVars == <<list, todo>>
bounds == <<edits, rounds>>
watch == <<calm, unseen>>
vars == <<now, dbVars, folders, gate, job, passVars, watch, bounds>>

Present(t) == rows[t] # Absent
Live == {t \in Ids : Present(t)}
NoList == [t \in {} |-> Absent]
Idle == [step |-> "idle"]
Doing(p, s) == job[p].step = s

(* ---- the schedule of a row ---- *)

\* compute_next_fire: strictly after the last fire, or after now for a timer that never fired, and
\* before the end of the validity.
NextFire(t, r, clock) ==
    LET from == IF r.fired = None THEN clock ELSE r.fired
        at == IF t \in Repeating THEN from + 1 ELSE r.at
    IN IF at > from /\ (r.until = None \/ at < r.until) THEN at ELSE None

\* create_timer_tx and update_timer_tx compute the next fire of what they write.
Row(t, at, until, fired, clock) ==
    LET r == [rev |-> 1, at |-> at, until |-> until, on |-> TRUE, fired |-> fired, next |-> None]
    IN [r EXCEPT !.next = NextFire(t, r, clock)]
Updated(t, r) == [r EXCEPT !.rev = @ + 1, !.next = NextFire(t, r, now)]

Due(t) == Present(t) /\ rows[t].on /\ rows[t].next # None /\ rows[t].next <= now

(* ---- finding and allocating a folder ---- *)

Names(path, t) == folders[path] # Bare /\ folders[path].id = t
Candidates(t) == {path \in DOMAIN folders : path[2] \in {t, Prefix[t]}}

\* folder_for: a single candidate is taken unless it names another timer; of several, the one that names this one.
Ours(t) == IF Cardinality(Candidates(t)) = 1 THEN {path \in Candidates(t) : folders[path] = Bare \/ Names(path, t)}
                                             ELSE {path \in Candidates(t) : Names(path, t)}

\* allocate_folder: the short form unless it is taken by another, then the long one.
Allocatable(t) ==
    LET short == <<Slug[t], Prefix[t]>>
        Free(path) == path \notin DOMAIN folders \/ Names(path, t)
    IN IF Free(short) THEN short ELSE <<Slug[t], t>>

With(path, content) == [q \in DOMAIN folders \cup {path} |-> IF q = path THEN content ELSE folders[q]]
Without(set) == [q \in DOMAIN folders \ set |-> folders[q]]

Alter(p) == calm' = (calm /\ p = Engine)
Become(p, j) == job' = [job EXCEPT ![p] = j]
Sync(t, row, at, then) == [step |-> "find", id |-> t, row |-> row, at |-> at, then |-> then]

ToWrite(p, path) == [step |-> "write", id |-> job[p].id, row |-> job[p].row, at |-> job[p].at,
                     then |-> job[p].then, path |-> path]

FindFolder(p) ==
    /\ Doing(p, "find")
    /\ \/ \E path \in Ours(job[p].id) : Become(p, ToWrite(p, path))
       \/ Ours(job[p].id) = {} /\ Become(p, [job[p] EXCEPT !.step = "allocate"])
    /\ Alter(p) /\ UNCHANGED <<now, dbVars, folders, gate, passVars, unseen, bounds>>

AllocateFolder(p) ==
    /\ Doing(p, "allocate")
    /\ LET path == Allocatable(job[p].id)
       IN /\ folders' = IF path \in DOMAIN folders THEN folders ELSE With(path, Bare)
          /\ Become(p, ToWrite(p, path))
    /\ Alter(p) /\ UNCHANGED <<now, dbVars, gate, passVars, unseen, bounds>>

\* The write creates the folder again when it has been removed meanwhile.
WriteTimerJson(p) ==
    /\ Doing(p, "write")
    /\ folders' = With(job[p].path, [id |-> job[p].id, rev |-> job[p].row.rev])
    /\ Become(p, IF job[p].then = "claim"
                 THEN [step |-> "claim", id |-> job[p].id, row |-> job[p].row, at |-> job[p].at]
                 ELSE [step |-> job[p].then])
    /\ Alter(p) /\ UNCHANGED <<now, dbVars, gate, passVars, unseen, bounds>>

(* ---- the window and the command line ---- *)

Edits == edits < MaxEdits /\ edits' = edits + 1 /\ calm' = FALSE

CreateTimer(p, t) ==
    /\ Doing(p, "idle") /\ t \in unborn /\ Edits
    /\ \E at \in Times, until \in {None} \cup Ends :
        /\ t \in Repeating \/ at > now
        /\ rows' = [rows EXCEPT ![t] = Row(t, at, until, None, now)]
        /\ Become(p, [Sync(t, rows'[t], None, "idle") EXCEPT !.step = "allocate"])
    /\ unborn' = unborn \ {t}
    /\ UNCHANGED <<now, runs, slot, lastPrune, lastYear, folders, gate, passVars, unseen, rounds>>

\* A patch of a stale revision is refused and changes nothing.  A new instant may come
\* without the end of the validity.
EditTimer(p, t) ==
    /\ Doing(p, "idle") /\ Present(t) /\ Edits
    /\ \/ /\ \E on \in BOOLEAN : rows' = [rows EXCEPT ![t] = Updated(t, [@ EXCEPT !.on = on])]
          /\ UNCHANGED unseen
       \/ /\ Rearm /\ t \notin Repeating /\ unseen' = unseen \cup {t}
          /\ \E at \in now + 1 .. MaxTime, until \in {rows[t].until, None} :
                rows' = [rows EXCEPT ![t] = Updated(t, [@ EXCEPT !.at = at, !.until = until])]
    /\ Become(p, Sync(t, rows'[t], None, "idle"))
    /\ UNCHANGED <<now, unborn, runs, slot, lastPrune, lastYear, folders, gate, passVars, rounds>>

\* run_now reads the row and the clock, then fires like the engine.
RunNow(p, t) ==
    /\ Doing(p, "idle") /\ Present(t) /\ Edits
    /\ Become(p, [step |-> "fire", id |-> t, row |-> rows[t], at |-> now])
    /\ UNCHANGED <<now, dbVars, folders, gate, passVars, unseen, rounds>>

\* The command line resolves the name before it waits for the gate.
ResolveDelete(p, t) ==
    /\ Doing(p, "idle") /\ Present(t) /\ Edits
    /\ Become(p, [step |-> "delete", id |-> t])
    /\ UNCHANGED <<now, dbVars, folders, gate, passVars, unseen, rounds>>

Free(t) == gate[t] = Nobody

\* delete_timer_lifecycle, one transaction under the gate.
DeleteTimerLifecycle(p) ==
    /\ Doing(p, "delete") /\ Free(job[p].id)
    /\ LET t == job[p].id
       IN /\ rows' = [rows EXCEPT ![t] = Absent]
          /\ IF Present(t) THEN Become(p, [job[p] EXCEPT !.step = "remove"]) /\ gate' = [gate EXCEPT ![t] = p]
                           ELSE Become(p, Idle) /\ UNCHANGED gate
    /\ Alter(p) /\ UNCHANGED <<now, unborn, runs, slot, lastPrune, lastYear, folders, passVars, unseen, bounds>>

\* remove_for: one folder is removed; the gate is dropped at the end.
Removed(t) == \/ \E path \in Ours(t) : folders' = Without({path})
              \/ Ours(t) = {} /\ UNCHANGED folders
RemoveFolder(p) ==
    /\ Doing(p, "remove") /\ Removed(job[p].id)
    /\ gate' = [gate EXCEPT ![job[p].id] = Nobody] /\ Become(p, Idle)
    /\ Alter(p) /\ UNCHANGED <<now, dbVars, passVars, unseen, bounds>>

(* ---- a timer fires ---- *)

\* The tick reads the row, then project_fire waits for the gate.
TickTimer(t) ==
    /\ Doing(Engine, "idle") /\ Due(t)
    /\ Become(Engine, [step |-> "fire", id |-> t, row |-> rows[t], at |-> rows[t].next])
    /\ UNCHANGED <<now, dbVars, folders, gate, passVars, watch, bounds>>

ProjectFire(p) ==
    /\ Doing(p, "fire") /\ Free(job[p].id)
    /\ gate' = [gate EXCEPT ![job[p].id] = p]
    /\ Become(p, Sync(job[p].id, job[p].row, job[p].at, "claim"))
    /\ Alter(p) /\ UNCHANGED <<now, dbVars, folders, passVars, unseen, bounds>>

\* The fire transaction: an instant that is due is claimed once, a run by hand is always a new one.
\* While an earlier run is unfinished the new one may be finished at once (overlap).
ClaimRun(p) ==
    /\ Doing(p, "claim")
    /\ LET t == job[p].id
       IN /\ gate' = [gate EXCEPT ![t] = Nobody]
          /\ slot' = IF p = Engine THEN [slot EXCEPT ![t] = job[p].at] ELSE slot
          /\ IF p = Engine /\ slot[t] = job[p].at THEN UNCHANGED <<runs, unseen>>
             ELSE /\ \/ runs' = [runs EXCEPT ![t] = @ + 1]
                     \/ runs[t] > 0 /\ UNCHANGED runs
                  /\ unseen' = IF Doing(Engine, "doomed") /\ job[Engine].id = t THEN unseen \cup {t} ELSE unseen
    /\ Become(p, [job[p] EXCEPT !.step = "mark"])
    /\ Alter(p) /\ UNCHANGED <<now, rows, unborn, lastPrune, lastYear, folders, passVars, bounds>>

\* mark_fired reads the row again, run_now patches the one it has read; then timer.json is refreshed.
\* Nothing for a row that is gone.
MarkFired(p) ==
    /\ Doing(p, "mark")
    /\ LET t == job[p].id
       IN IF Present(t) /\ (p = Engine \/ rows[t].rev = job[p].row.rev)
          THEN /\ rows' = [rows EXCEPT ![t] = Updated(t, [@ EXCEPT !.fired = job[p].at])]
               /\ Become(p, Sync(t, rows'[t], None, "idle"))
          ELSE Become(p, Idle) /\ UNCHANGED rows
    /\ Alter(p)
    /\ UNCHANGED <<now, unborn, runs, slot, lastPrune, lastYear, folders, gate, passVars, unseen, bounds>>

FinishRun(t) == /\ runs[t] > 0 /\ runs' = [runs EXCEPT ![t] = @ - 1]
                /\ UNCHANGED <<now, rows, unborn, slot, lastPrune, lastYear, folders, gate, job, passVars,
                               watch, bounds>>

(* ---- the prune pass ---- *)

PastValidity(r, clock) == r.until # None /\ clock >= r.until
TerminalAt(r, clock) == IF r.fired # None THEN r.fired ELSE IF r.until # None THEN r.until ELSE clock

\* A one-shot that is overdue and was never claimed is still pending.
Finished(t, row, clock) ==
    /\ t \notin Repeating
    /\ row.next <= clock
    /\ \/ row.next = None /\ (row.fired # None \/ ~row.on)
       \/ PastValidity(row, clock)
    /\ clock >= TerminalAt(row, clock) + Grace

\* Mutant: the runs are not looked at.
TerminalUnderWay(t, row, clock) == Finished(t, row, clock)

\* is_terminal_oneshot, on a row as it was listed, the time the pass began and the runs as they are now.
IsTerminalOneshot(t, row, clock) == runs[t] = 0 /\ Finished(t, row, clock)

PruneDue == ~lastPrune

\* At the start when the last pass is too long ago, and whenever system.prune fires.
StartPrune ==
    /\ \/ Doing(Engine, "boot") /\ PruneDue
       \/ Doing(Engine, "idle") /\ rounds < MaxRounds
    /\ rounds' = IF Doing(Engine, "boot") THEN rounds ELSE rounds + 1
    /\ list' = [t \in Live |-> rows[t]] /\ todo' = Live
    /\ Become(Engine, [step |-> "prune", boot |-> Doing(Engine, "boot"), since |-> now])
    /\ calm' = \A p \in Editors : Doing(p, "idle")
    /\ unseen' = {}
    /\ UNCHANGED <<now, dbVars, folders, gate, edits>>

Pass(s) == [step |-> s, boot |-> job[Engine].boot, since |-> job[Engine].since]
PassOn(s, t) == [step |-> s, id |-> t, boot |-> job[Engine].boot, since |-> job[Engine].since]

PruneTimer(t) ==
    /\ Doing(Engine, "prune") /\ t \in todo /\ todo' = todo \ {t}
    /\ IF IsTerminalOneshot(t, list[t], job[Engine].since) THEN Become(Engine, PassOn("doomed", t))
                                                           ELSE UNCHANGED job
    /\ UNCHANGED <<now, dbVars, folders, gate, list, watch, bounds>>

\* The row goes whatever has become of it since.
DeletePruned ==
    /\ Doing(Engine, "doomed")
    /\ LET t == job[Engine].id
       IN /\ rows' = [rows EXCEPT ![t] = Absent]
          /\ Become(Engine, IF Present(t) THEN PassOn("unfold", t) ELSE Pass("prune"))
    /\ UNCHANGED <<now, unborn, runs, slot, lastPrune, lastYear, folders, gate, passVars, watch, bounds>>

UnfoldPruned ==
    /\ Doing(Engine, "unfold") /\ Removed(job[Engine].id)
    /\ Become(Engine, Pass("prune"))
    /\ UNCHANGED <<now, dbVars, gate, passVars, watch, bounds>>

\* The sweep compares the folders with the ids listed before it.
ListLive ==
    /\ Doing(Engine, "prune") /\ todo = {}
    /\ list' = [t \in Live |-> rows[t]]
    /\ Become(Engine, [step |-> "list", boot |-> job[Engine].boot])
    /\ UNCHANGED <<now, dbVars, folders, gate, todo, watch, bounds>>

StartSweep ==
    /\ Doing(Engine, "list") /\ todo' = DOMAIN folders
    /\ Become(Engine, [job[Engine] EXCEPT !.step = "sweep"])
    /\ UNCHANGED <<now, dbVars, folders, gate, list, watch, bounds>>

\* Mutant: the timer.json is not looked at.
AliveByPrefix(path) == \E t \in DOMAIN list : path[2] \in {t, Prefix[t]}

Alive(path) == IF folders[path] # Bare THEN folders[path].id \in DOMAIN list
                                      ELSE \E t \in DOMAIN list : path[2] \in {t, Prefix[t]}

SweepFolder(path) ==
    /\ Doing(Engine, "sweep") /\ path \in todo /\ todo' = todo \ {path}
    /\ IF path \notin DOMAIN folders \/ Alive(path) THEN UNCHANGED folders
       ELSE folders' = Without({path})
    /\ UNCHANGED <<now, dbVars, gate, job, list, watch, bounds>>

\* reconcile_folders: every row listed now is written to its folder.
StartReconcile ==
    /\ Doing(Engine, "sweep") /\ todo = {}
    /\ list' = [t \in Live |-> rows[t]] /\ todo' = Live
    /\ Become(Engine, [step |-> IF job[Engine].boot THEN "bootview" ELSE "view"])
    /\ UNCHANGED <<now, dbVars, folders, gate, watch, bounds>>

View == Doing(Engine, "view") \/ Doing(Engine, "bootview")
ReconcileFolder(t) ==
    /\ View /\ t \in todo /\ todo' = todo \ {t}
    /\ Become(Engine, Sync(t, list[t], None, job[Engine].step))
    /\ UNCHANGED <<now, dbVars, folders, gate, list, watch, bounds>>

SetLastPrune ==
    /\ View /\ todo = {} /\ lastPrune' = TRUE /\ list' = NoList /\ calm' = FALSE
    /\ Become(Engine, IF Doing(Engine, "bootview") THEN [step |-> "boot"] ELSE Idle)
    /\ UNCHANGED <<now, rows, unborn, runs, slot, lastYear, folders, gate, todo, unseen, bounds>>

(* ---- the start of the engine and the new year ---- *)

StartYear ==
    /\ Doing(Engine, "boot") /\ ~PruneDue /\ ~lastYear
    /\ list' = [t \in Live |-> rows[t]] /\ todo' = Live
    /\ Become(Engine, [step |-> "year"])
    /\ UNCHANGED <<now, dbVars, folders, gate, watch, bounds>>

\* An empty patch recomputes the next fire; a row that changed or went away ends the pass without its stamp.
Recalibrate(t) ==
    /\ Doing(Engine, "year") /\ t \in todo /\ todo' = (IF Present(t) /\ rows[t].rev = list[t].rev THEN todo \ {t} ELSE {})
    /\ IF Present(t) /\ rows[t].rev = list[t].rev
       THEN rows' = [rows EXCEPT ![t] = Updated(t, @)] /\ UNCHANGED <<job, list>>
       ELSE Become(Engine, Idle) /\ list' = NoList /\ UNCHANGED rows
    /\ UNCHANGED <<now, unborn, runs, slot, lastPrune, lastYear, folders, gate, watch, bounds>>

SetLastRecalibration ==
    /\ Doing(Engine, "year") /\ todo = {} /\ lastYear' = TRUE /\ list' = NoList /\ Become(Engine, Idle)
    /\ UNCHANGED <<now, rows, unborn, runs, slot, lastPrune, folders, gate, todo, watch, bounds>>

Booted ==
    /\ Doing(Engine, "boot") /\ ~PruneDue /\ lastYear /\ Become(Engine, Idle)
    /\ UNCHANGED <<now, dbVars, folders, gate, passVars, watch, bounds>>

(* ---- time, crashes ---- *)

Tick == now < MaxTime /\ now' = now + 1 /\ UNCHANGED <<dbVars, folders, gate, job, passVars, watch, bounds>>

\* The locks of a dead process are free; the engine starts again, perhaps a week or a year later.
Crash(p) ==
    /\ p = Engine \/ ~Doing(p, "idle")
    /\ rounds < MaxRounds /\ rounds' = rounds + 1 /\ calm' = FALSE
    /\ Become(p, IF p = Engine THEN [step |-> "boot"] ELSE Idle)
    /\ gate' = [t \in Ids |-> IF gate[t] = p THEN Nobody ELSE gate[t]]
    /\ IF p = Engine THEN lastPrune' \in {lastPrune, FALSE} /\ lastYear' \in {lastYear, FALSE}
                        /\ list' = NoList /\ todo' = {}
                     ELSE UNCHANGED <<lastPrune, lastYear, passVars>>
    /\ UNCHANGED <<now, rows, unborn, runs, slot, folders, unseen, edits>>

\* A data directory from before the folders: some timers exist, no folder does.
Init ==
    /\ now = 1 /\ folders = [path \in {} |-> Bare]
    /\ \E old \in SUBSET Ids, past \in [Ids -> Past] :
        /\ rows = [t \in Ids |-> IF t \in old THEN Row(t, past[t].at, past[t].until, past[t].fired, 0) ELSE Absent]
        /\ unborn = Ids \ old
    /\ runs = [t \in Ids |-> 0] /\ slot = [t \in Ids |-> None]
    /\ gate = [t \in Ids |-> Nobody]
    /\ job = [p \in Threads |-> IF p = Engine THEN [step |-> "boot"] ELSE Idle]
    /\ list = NoList /\ todo = {}
    /\ lastPrune = FALSE /\ lastYear = FALSE
    /\ calm = FALSE /\ unseen = {} /\ edits = 0 /\ rounds = 0

Next ==
    \/ \E p \in Threads : \/ FindFolder(p) \/ AllocateFolder(p) \/ WriteTimerJson(p) \/ Crash(p)
                         \/ ProjectFire(p) \/ ClaimRun(p) \/ MarkFired(p)
    \/ \E p \in Editors, t \in Ids : CreateTimer(p, t) \/ EditTimer(p, t) \/ RunNow(p, t) \/ ResolveDelete(p, t)
    \/ \E p \in Editors : DeleteTimerLifecycle(p) \/ RemoveFolder(p)
    \/ \E t \in Ids : TickTimer(t) \/ FinishRun(t)
    \/ StartPrune \/ DeletePruned \/ UnfoldPruned \/ ListLive \/ StartSweep \/ StartReconcile \/ SetLastPrune
    \/ \E t \in Ids : PruneTimer(t) \/ ReconcileFolder(t) \/ Recalibrate(t)
    \/ \E path \in Paths : SweepFolder(path)
    \/ StartYear \/ SetLastRecalibration \/ Booted \/ Tick

Spec == Init /\ [][Next]_vars

(* ---- properties ---- *)

\* The state has its types; a row's next fire comes after its last one (compute_next_fire); a thread
\* holds the lock of the timer it works on.
TypeOK ==
    /\ now \in Times
    /\ \A t \in Ids : Present(t) =>
          /\ rows[t].rev \in Nat /\ rows[t].at \in Times /\ rows[t].on \in BOOLEAN
          /\ rows[t].fired \in 0..MaxTime /\ (rows[t].next = None \/ rows[t].fired < rows[t].next)
          /\ rows[t].until \in {None} \cup Ends
    /\ DOMAIN folders \subseteq Paths
    /\ \A path \in DOMAIN folders : folders[path] # Bare => folders[path].id \in Ids
    /\ unborn \cup unseen \subseteq Ids
    /\ \A t \in Ids : runs[t] \in Nat
    /\ gate \in [Ids -> Threads \cup {Nobody}]
    /\ \A p \in Threads : \A t \in Ids : gate[t] = p => job[p].id = t

\* After a pass nobody interfered with, whatever crashes and edits came before it, every timer has a
\* folder that shows its current row and no timer.json names a timer that is gone.
ViewHeals ==
    View /\ todo = {} /\ calm =>
        /\ \A t \in Live : \E path \in Ours(t) : folders[path] = [id |-> t, rev |-> rows[t].rev]
        /\ \A path \in DOMAIN folders : folders[path] # Bare => Present(folders[path].id)

Over(r) == r.next = None \/ (r.next <= now /\ PastValidity(r, now))
Pruned(t) == Doing(Engine, "doomed") /\ job[Engine].id = t /\ Present(t) /\ rows'[t] = Absent

\* A timer the prune takes has no unfinished run, and it has fired, or was switched off, or is past its
\* validity - whatever is edited, fired, run by hand or left behind by a crash before and during the
\* pass, save what the pass could not have seen (is_terminal_oneshot, run_prune).
PendingPreserved == [][\A t \in Ids : Pruned(t) /\ t \notin unseen => runs[t] = 0 /\ Over(rows[t])]_vars

\* The same of every timer.  It does not hold (README, section 4).
AnyPendingPreserved == [][\A t \in Ids : Pruned(t) => runs[t] = 0 /\ Over(rows[t])]_vars

\* A one-shot whose instant has passed without a fire is still due (run_year_recalibration).
\* It does not hold (README, section 4).
OverdueIsHandled == \A t \in Live \ Repeating : rows[t].fired = None /\ rows[t].at <= now => rows[t].next # None
=============================================================================
