------------------------------ MODULE Calendar ------------------------------
(***************************************************************************)
(* The calendar (calendar/, list_calendar_truth, bellman calendar/agenda): *)
(* the truth view merges the event history and the run ledger into recorded *)
(* entries and projects the timers' rules after now; the snapshot projects  *)
(* over the whole range and lays its entries out in a grid of weeks.  A     *)
(* timer may be added or edited first, while the scheduler fires it.        *)
(***************************************************************************)
EXTENDS RuleEdits

CONSTANTS
    Requests,    \* views asked for: the command, its zone, its instant and its arguments
    TaskLists,   \* the timers as an app registered them, in order
    EditCases,   \* a view of timers one of which is edited, or another added, first
    Born,        \* the instant the timers were registered
    History,     \* outcome events the log may still hold
    Ledger,      \* finished runs the claim ledger may hold
    MaxTasks, MaxFires, MaxEntries, MaxPerCell   \* CalendarCaps

ASSUME CapsAssumption == {MaxTasks, MaxFires, MaxEntries, MaxPerCell} \subseteq Nat \ {0}

VARIABLES
    input,      \* the request, the edit before it, the events and the runs the builder reads
    tasks,      \* the timers in the store: asked and since are what its last write started from
    editor,     \* the row an editor opened
    unread,     \* events, then runs, not merged yet; the log keeps no order
    buckets,    \* bucket id -> what is known of one fire
    byRun, bySec,
    entries, warnings,
    todo,       \* timers still to project
    grid,
    at          \* where the builder is

calendarVars == <<input, tasks, editor, unread, buckets, byRun, bySec, entries, warnings, todo, grid, at>>
store == <<input, tasks, editor>>
request == input.request

NoRun == "none"
Labels == <<[of |-> {"WakeFailed", "NoAck"}, is |-> "failed"], [of |-> {"SkippedMisfire"}, is |-> "skipped"],
            [of |-> {"Coalesced"}, is |-> "coalesced"], [of |-> {"FiredLate"}, is |-> "late"],
            [of |-> {"Fired", "WakeDelivered"}, is |-> "delivered"]>>
OutcomeEvents == UNION {l.of : l \in Range(Labels)}

(* ---- the range asked for ---- *)

Today == DateOf(request.zone, request.now)
ThisMonth == MonthOf(Today)
MonthBounds(m) == <<MonthStart[m], MonthStart[m] + MonthLengths[m] - 1>>
\* A bare month name is read in the year of now.
ResolveMonth(spec) ==
    CASE spec = "this" -> ThisMonth
      [] spec = "next" -> ThisMonth + 1
      [] spec = "first" -> ((ThisMonth - 1) \div YearMonths) * YearMonths + 1
NextWeekday(first, wd) == Min({d \in first .. first + Week - 1 : Weekday(d) = wd})
ResolveDay(phrase) ==
    CASE phrase.word = "today" -> Today
      [] phrase.word = "tomorrow" -> Today + 1
      [] phrase.word = "next" -> NextWeekday(Today + 1, phrase.day)
      [] phrase.word = "weekday" -> NextWeekday(Today, phrase.day)
ResolveRange ==
    CASE request.form = "range" -> request.range
      [] request.form = "month" -> MonthBounds(ResolveMonth(request.month))
      [] request.form = "day" -> <<ResolveDay(request.phrase), ResolveDay(request.phrase)>>
From == ResolveRange[1]
To == ResolveRange[2]

\* Local midnight, the earlier of two; no answer when it falls in a gap.
Midnight(d) == IF Instants(request.zone, d * Day) = {} THEN None ELSE Min(Instants(request.zone, d * Day))
RangeStart == Midnight(From)
RangeEnd == Midnight(To + 1)
Rejected == To < From \/ RangeStart = None \/ RangeEnd = None
InRange(u) == RangeStart <= u /\ u < RangeEnd /\ DateOf(request.zone, u) \in From..To

(* ---- recorded entries ---- *)

Truth == request.view = "truth"
Relevant(e) == e.at < request.now /\ RangeStart <= e.at /\ e.at < RangeEnd
Slot(e) == <<e.timer, e.at>>

\* Mutant: evidence without a run never joins a run.
BucketByRun(e) == IF e.run = NoRun THEN <<"slot", Slot(e)>>
                  ELSE IF e.run \in DOMAIN byRun THEN byRun[e.run] ELSE <<"run", e.run>>
\* A fire is found by its run first, then by its timer and second.
Bucket(e) ==
    IF e.run # NoRun /\ e.run \in DOMAIN byRun THEN byRun[e.run]
    ELSE IF Slot(e) \in DOMAIN bySec THEN bySec[Slot(e)]
    ELSE IF e.run # NoRun THEN <<"run", e.run>> ELSE <<"slot", Slot(e)>>

\* A fire is as early as its earliest event; a claim does not move it.
Merged(b, e, kinds) ==
    IF b \notin DOMAIN buckets THEN [timer |-> e.timer, run |-> e.run, at |-> e.at, kinds |-> kinds]
    ELSE [buckets[b] EXCEPT !.run = IF @ = NoRun THEN e.run ELSE @,
                            !.at = IF kinds = {} THEN @ ELSE Min({@, e.at}), !.kinds = @ \cup kinds]

Put(map, key, value) == [k \in DOMAIN map \cup {key} |-> IF k = key THEN value ELSE map[k]]

TakeEvent(e) ==
    /\ at = "events"
    /\ unread' = unread \ {e}
    /\ IF Relevant(e) /\ e.kind \in OutcomeEvents
       THEN LET b == Bucket(e) IN
            /\ buckets' = Put(buckets, b, Merged(b, e, {e.kind}))
            /\ byRun' = IF e.run = NoRun THEN byRun ELSE Put(byRun, e.run, b)
            /\ bySec' = Put(bySec, Slot(e), b)
       ELSE UNCHANGED <<buckets, byRun, bySec>>
    /\ UNCHANGED <<store, entries, warnings, todo, grid, at>>
EventsRead ==
    /\ at = "events" /\ unread = {}
    /\ unread' = input.ledger
    /\ at' = "claims"
    /\ UNCHANGED <<store, buckets, byRun, bySec, entries, warnings, todo, grid>>

\* Only a delivered run counts; without an event its bucket stays without a kind.
TakeClaim(c) ==
    /\ at = "claims"
    /\ unread' = unread \ {c}
    /\ IF c.outcome = "WakeDelivered" /\ Relevant(c)
       THEN LET b == Bucket(c) IN
            /\ buckets' = Put(buckets, b, Merged(b, c, {}))
            /\ byRun' = IF b \in DOMAIN buckets /\ buckets[b].run # NoRun THEN byRun ELSE Put(byRun, c.run, b)
            /\ bySec' = Put(bySec, Slot(c), b)
       ELSE UNCHANGED <<buckets, byRun, bySec>>
    /\ UNCHANGED <<store, entries, warnings, todo, grid, at>>

\* A bucket without an outcome event is never called delivered.
LabelOf(kinds) ==
    IF kinds = {} THEN "unknown" ELSE Labels[Min({i \in DOMAIN Labels : Labels[i].of \cap kinds # {}})].is

Entry(timer, run, u, source, label) == [timer |-> timer, run |-> run, at |-> u, source |-> source, label |-> label]
Taken == SubSeq(tasks, 1, Min({Len(tasks), MaxTasks}))
TasksWarning == IF Len(tasks) > MaxTasks THEN {"tasks"} ELSE {}
Record ==
    /\ at = "claims" /\ unread = {}
    /\ entries' = {Entry(b.timer, b.run, b.at, "recorded", LabelOf(b.kinds)) :
                    b \in {x \in Range(buckets) : InRange(x.at)}}
    /\ warnings' = TasksWarning /\ todo' = Taken
    /\ at' = "project"
    /\ UNCHANGED <<store, unread, buckets, byRun, bySec, grid>>

(* ---- projection ---- *)

\* The truth view projects after now, the snapshot from the start of its range.
Cursor == IF Truth THEN request.now ELSE RangeStart - 1
Covered(t, u) == \E x \in entries : x.source = "recorded" /\ x.timer = t.id /\ x.at = u
StatusOf(t, u) ==
    IF Truth \/ (t.enabled /\ u > request.now) THEN "upcoming" ELSE IF t.enabled THEN t.past ELSE "disabled"

FireCap == Min({MaxFires, MaxEntries - Cardinality(entries)})
Shown(t) == {u \in Range(Preview(t.rule, Cursor, FireCap)) : InRange(u) /\ ~Covered(t, u)}

ProjectTask ==
    /\ at = "project" /\ todo # <<>>
    /\ Cardinality(entries) < MaxEntries
    /\ LET t == Head(todo) IN
       /\ entries' = entries \cup {Entry(t.id, NoRun, u, "projected", StatusOf(t, u)) : u \in Shown(t)}
       /\ warnings' = warnings \cup (IF Cardinality(Shown(t)) = MaxFires THEN {t.id} ELSE {})
    /\ todo' = Tail(todo)
    /\ UNCHANGED <<store, unread, buckets, byRun, bySec, grid, at>>
EntriesFull ==
    /\ at = "project" /\ todo # <<>>
    /\ Cardinality(entries) >= MaxEntries
    /\ warnings' = warnings \cup {"entries"}
    /\ todo' = <<>>
    /\ UNCHANGED <<store, unread, buckets, byRun, bySec, entries, grid, at>>

(* ---- the grid ---- *)

\* The column of a date when the week starts on request.weekStart.
Column(d) == (Weekday(d) - request.weekStart) % Week
StartOfWeek(d) == d - Column(d)
EndOfWeek(d) == d + (Week - 1 - Column(d))
OnDate(d) == {x \in entries : DateOf(request.zone, x.at) = d}
BuildGrid ==
    [d \in StartOfWeek(From) .. EndOfWeek(To) |->
        LET total == Cardinality(OnDate(d)) IN
        [inside |-> d \in From..To, total |-> total, shown |-> Min({MaxPerCell, total}),
         overflow |-> Max({0, total - MaxPerCell})]]
Finish ==
    /\ at = "project" /\ todo = <<>>
    /\ grid' = IF Truth THEN <<>> ELSE BuildGrid
    /\ at' = "done"
    /\ UNCHANGED <<store, unread, buckets, byRun, bySec, entries, warnings, todo>>

Reject ==
    /\ at = "start" /\ Rejected
    /\ at' = "failed"
    /\ UNCHANGED <<store, unread, buckets, byRun, bySec, entries, warnings, todo, grid>>
StartTruth ==
    /\ at = "start" /\ ~Rejected /\ Truth
    /\ unread' = input.history
    /\ at' = "events"
    /\ UNCHANGED <<store, buckets, byRun, bySec, entries, warnings, todo, grid>>
StartSnapshot ==
    /\ at = "start" /\ ~Rejected /\ ~Truth
    /\ warnings' = TasksWarning /\ todo' = Taken
    /\ at' = "project"
    /\ UNCHANGED <<store, unread, buckets, byRun, bySec, entries, grid>>

(* ---- the store before the view ---- *)

edit == input.edit
form == edit.form
NoEdit == [by |-> "nobody", form |-> <<>>]
NoTimer == <<>>
Row(t) == CreateTimer([id |-> t.id, rule |-> t.rule, enabled |-> t.enabled, past |-> t.past, next |-> None,
                       last |-> None, revision |-> 0, asked |-> t.rule, since |-> None], Born)

\* The rule a front end makes of its form, for the row it looks at.
Submitted(row) ==
    CASE edit.by = "cli edit" -> PatchOccurrence(row.rule, form)
      [] edit.by = "cli add" -> BuildOccurrence(form, request.now)
      [] edit.by = "window" -> IntoCoreOccurrence(Dialog(row.rule, form), request.now)
      [] edit.by = "window add" -> IntoCoreOccurrence(form, request.now)
      [] edit.by \in {"slot", "slot add"} -> OccurrenceFromPayload(form, request.now)
IsSubmitted(row) ==
    CASE edit.by = "cli edit" -> ~NothingToEdit(form)
      [] edit.by \in {"cli add", "window add"} -> IsFilled(form, Wanted(form))
      [] edit.by = "window" -> IsFilled(Dialog(row.rule, form), Dialog(row.rule, form).kind)
      [] edit.by \in {"slot", "slot add"} -> IsPayload(form)
Accepted(row) == IsSubmitted(row) /\ Validate(Submitted(row))
EditDone == at' = "start" /\ UNCHANGED <<input, editor, unread, buckets, byRun, bySec, entries, warnings, todo, grid>>

\* bellman edit and the dialog read the timer, and save against its revision.
OpenEditor ==
    /\ at = "edit" /\ edit.by \in {"cli edit", "window"} /\ editor = NoTimer
    /\ editor' = tasks[1]
    /\ UNCHANGED <<input, tasks, unread, buckets, byRun, bySec, entries, warnings, todo, grid, at>>
\* Mutant: the revision is not compared.
CurrentAnyway(row) == TRUE
IsCurrent(row) == row.revision = tasks[1].revision
SaveEdit ==
    /\ at = "edit" /\ editor # NoTimer
    /\ Accepted(editor) /\ IsCurrent(editor)
    /\ tasks' = [tasks EXCEPT ![1] = UpdateRule(@, Submitted(editor), request.now)]
    /\ EditDone
RefuseEdit ==
    /\ at = "edit" /\ editor # NoTimer
    /\ ~Accepted(editor) \/ ~IsCurrent(editor)
    /\ EditDone /\ UNCHANGED tasks

\* A slot request reads and writes in one transaction.
SlotModify ==
    /\ at = "edit" /\ edit.by = "slot" /\ Accepted(tasks[1])
    /\ tasks' = [tasks EXCEPT ![1] = UpdateRule(@, Submitted(@), request.now)]
    /\ EditDone
AddTimer ==
    /\ at = "edit" /\ edit.by \in {"cli add", "window add", "slot add"} /\ Accepted(NoTimer)
    /\ tasks' = Append(tasks, CreateTimer([tasks[1] EXCEPT !.id = "new", !.rule = Submitted(NoTimer), !.revision = 0], request.now))
    /\ EditDone
RefuseRequest ==
    /\ at = "edit" /\ edit.by \notin {"cli edit", "window"} /\ ~Accepted(tasks[1])
    /\ EditDone /\ UNCHANGED tasks

\* The scheduler fires the timer meanwhile.
FireMeanwhile ==
    /\ at = "edit" /\ tasks[1].next # None /\ tasks[1].next <= request.now
    /\ tasks' = [tasks EXCEPT ![1] = MarkFired(@, request.now)]
    /\ UNCHANGED <<input, editor, unread, buckets, byRun, bySec, entries, warnings, todo, grid, at>>

CalendarInit ==
    /\ input \in [request : Requests, edit : {NoEdit}, tasks : TaskLists, history : SUBSET History, ledger : SUBSET Ledger]
                 \cup [request : EditCases.requests, edit : EditCases.edits, tasks : EditCases.tasks, history : {{}}, ledger : {{}}]
    /\ Truth \/ (input.history = {} /\ input.ledger = {})
    /\ tasks = [i \in DOMAIN input.tasks |-> Row(input.tasks[i])]
    /\ editor = NoTimer
    /\ unread = {} /\ buckets = <<>> /\ byRun = <<>> /\ bySec = <<>>
    /\ entries = {} /\ warnings = {} /\ todo = <<>> /\ grid = <<>>
    /\ at = IF edit = NoEdit THEN "start" ELSE "edit"

CalendarNext == OpenEditor \/ SaveEdit \/ RefuseEdit \/ SlotModify \/ AddTimer \/ RefuseRequest \/ FireMeanwhile
        \/ Reject \/ StartTruth \/ StartSnapshot \/ (\E e \in unread : TakeEvent(e)) \/ EventsRead
        \/ (\E c \in unread : TakeClaim(c)) \/ Record \/ ProjectTask \/ EntriesFull \/ Finish
CalendarSpec == CalendarInit /\ [][CalendarNext]_calendarVars

(* ---- properties ---- *)

Instant == 0 .. LastDate * Day + Day
\* The state is well formed: a view that is built has bounds, and what it shows lies between them.
CalendarTypeOK ==
    /\ at \in {"edit", "start", "events", "claims", "project", "done", "failed"}
    /\ Range(byRun) \cup Range(bySec) \subseteq DOMAIN buckets
    /\ \A x \in entries : x.at \in Instant /\ x.source \in {"recorded", "projected"}
    /\ at \notin {"edit", "start", "failed"} => RangeStart \in Instant /\ \A x \in entries : RangeStart <= x.at /\ x.at < RangeEnd

Outcomes == {e \in input.history : e.kind \in OutcomeEvents}
Evidence(timer, u) == {e \in Outcomes : e.timer = timer /\ e.at = u}
Delivered == {c \in input.ledger : c.outcome = "WakeDelivered"}
Recorded == {x \in entries : x.source = "recorded"}

\* A fire is one entry, and a true one.  However its events and its ledger row
\* identify it and whatever order they come in, it is neither shown twice nor
\* shown recorded and projected; it is failed exactly when an event says so and
\* unknown when only the ledger knows the run; and no evidence in the range is
\* left out (resolve_or_create_bucket, the claim merge, recorded_keys).
HistoryIsHonest ==
    at = "done" =>
        /\ \A x, y \in entries : x.timer = y.timer /\ x.at = y.at => x = y
        /\ \A x \in Recorded :
            /\ x.label = "failed" <=> \E e \in Evidence(x.timer, x.at) : e.kind \in {"WakeFailed", "NoAck"}
            /\ x.label = "unknown" <=> Evidence(x.timer, x.at) = {}
        /\ \A e \in Outcomes \cup Delivered : Relevant(e) => \E x \in Recorded : x.timer = e.timer /\ x.at = e.at

\* What a view projects of a timer is what its rule promises in the range,
\* less what is already recorded.
Complete(t) ==
    {x.at : x \in {y \in entries : y.source = "projected" /\ y.timer = t.id}}
        = {u \in Promised(t.rule, Cursor) : InRange(u) /\ ~Covered(t, u)}
\* The cap counts fires from the cursor on, those before the range included.
WithinCap(t) == Cardinality({u \in Promised(t.rule, Cursor) : u < RangeEnd}) <= MaxFires

\* The next fire in a row is the first its rule promised when it was written.
NextIsFirst(t) ==
    LET promised == Promised(t.asked, t.since) IN t.next = IF promised = {} THEN None ELSE Min(promised)

\* The grid is whole weeks and accounts for every entry in one cell.
GridHoldsEverything ==
    ~Truth =>
        /\ Cardinality(DOMAIN grid) % Week = 0 /\ From..To \subseteq DOMAIN grid
        /\ FoldFunction(LAMBDA c, n : c.shown + c.overflow + n, 0, grid) = Cardinality(entries)

\* A timer's next fire is the first its rule promises, whichever front end
\* wrote the rule.  For a timer the caps do not reach, the view shows every fire of the rule
\* and nothing else, across gaps, folds, short months, excluded days, pending
\* skips, run caps and validity windows (next_fire, preview, the two builders).
ProjectionIsComplete ==
    /\ at \in {"edit", "start"} => \A t \in Range(tasks) : NextIsFirst(t)
    /\ at = "done" => GridHoldsEverything
    /\ at = "done" /\ warnings \cap {"tasks", "entries"} = {} /\ Cardinality(entries) < MaxEntries =>
        \A t \in Range(tasks) : WithinCap(t) => Complete(t)

\* A saved edit changes what its form names and nothing else of the rule as it
\* stands when it is saved: fires counted while the editor was open are kept,
\* and through bellman edit so are limits and excluded days (update_timer's
\* revision, patch_occurrence, the dialog's prefill).
EditsKeepTheRest ==
    [][at = "edit" /\ at' = "start" /\ editor # NoTimer /\ tasks' # tasks =>
        LET rule == tasks[1].rule
            kept == IF edit.by = "window" THEN DOMAIN WebTimer(rule) ELSE DOMAIN rule \ {"skips"}
        IN  /\ "kind" \in DOMAIN form \/ \A f \in kept \ DOMAIN form : tasks'[1].rule[f] = rule[f]
            /\ \A f \in DOMAIN form \cap Needs[tasks'[1].rule.kind] : tasks'[1].rule[f] = form[f]]_calendarVars

\* types.rs promises a note when a cap trimmed the expansion: without one, a
\* view is complete.  It does not hold (README, section 4).
TruncationIsTold ==
    at = "done" /\ warnings = {} => \A t \in Range(tasks) : Complete(t)
=============================================================================
