----------------------------- MODULE Occurrence -----------------------------
(***************************************************************************)
(* Recurrence rules (occurrence/): from a rule and an instant, the next     *)
(* fire strictly after it.  Instants are seconds of a small calendar: a day *)
(* has Day seconds, a week Week days, month m MonthLengths[m] days, a year  *)
(* YearMonths months.  A zone is its table of transitions: the instants its *)
(* offset changes, each with the new offset.                                *)
(***************************************************************************)
EXTENDS Integers, Sequences, FiniteSets, FiniteSetsExt, Functions

CONSTANTS
    Day, Week, MonthLengths, YearMonths,
    GapLimit,        \* how far first_valid_after_gap looks
    MaxCandidates,   \* MAX_CANDIDATES
    LastDate         \* bound: the last date of the calendar

ASSUME CalendarAssumption ==
    /\ {Day, Week, YearMonths, GapLimit, MaxCandidates, LastDate} \subseteq Nat \ {0}
    /\ MonthLengths \in Seq(Nat \ {0})

None == -99

(* ---- civil time ---- *)

Offset(z, u) == z[Max({c \in DOMAIN z : c <= u})]
Local(z, u) == u + Offset(z, u)
DateOf(z, u) == Local(z, u) \div Day
Weekday(d) == d % Week

\* The instants at which clocks in z show l: none in a gap, two in a fold.
Instants(z, l) == {u \in {l - o : o \in Range(z)} : Local(z, u) = l}

FirstValidAfterGap(z, l) ==
    LET valid == {p \in l + 1 .. l + GapLimit : Instants(z, p) # {}} IN
    IF valid = {} THEN None ELSE Min(Instants(z, Min(valid)))

\* Mutant: the later of two ambiguous instants.
ResolveLate(z, l) == IF Instants(z, l) = {} THEN FirstValidAfterGap(z, l) ELSE Max(Instants(z, l))
\* The earlier of two ambiguous instants; past a gap, the first valid second.
Resolve(z, l) == IF Instants(z, l) = {} THEN FirstValidAfterGap(z, l) ELSE Min(Instants(z, l))

MonthStart[m \in 1..Len(MonthLengths)] == IF m = 1 THEN 0 ELSE MonthStart[m - 1] + MonthLengths[m - 1]
Months == 1..Len(MonthLengths)
MonthOf(d) == Max({m \in Months : MonthStart[m] <= d} \cup {1})
ClampMonthDay(m, day) == MonthStart[m] + Min({day, MonthLengths[m]}) - 1

(* ---- the candidate of each kind ---- *)

\* The first of the dates, in order, whose resolved fire is strictly after a.
FirstAfter(z, dates, at, a) ==
    LET live == {d \in dates : Resolve(z, d * Day + at) > a} IN
    IF live = {} THEN None ELSE Resolve(z, Min(live) * Day + at)

NextOnce(o, a) == IF Resolve(o.tz, o.once) > a THEN Resolve(o.tz, o.once) ELSE None
NextInterval(o, a) ==
    IF a < o.anchor THEN o.anchor ELSE o.anchor + ((a - o.anchor) \div o.every + 1) * o.every
NextDaily(o, a) == FirstAfter(o.tz, DateOf(o.tz, a) .. LastDate, o.at, a)
NextWeekly(o, a) == FirstAfter(o.tz, {d \in DateOf(o.tz, a) .. LastDate : Weekday(d) \in o.days}, o.at, a)
MonthsFrom(o, a) == {m \in Months : m >= MonthOf(DateOf(o.tz, a))}
NextMonthly(o, a) == FirstAfter(o.tz, {ClampMonthDay(m, o.day) : m \in MonthsFrom(o, a)}, o.at, a)
NextYearly(o, a) ==
    FirstAfter(o.tz, {ClampMonthDay(m, o.day) : m \in {n \in Months : n % YearMonths = o.month % YearMonths
        /\ (n - 1) \div YearMonths >= (MonthOf(DateOf(o.tz, a)) - 1) \div YearMonths}}, o.at, a)

RawNextAfter(o, a) ==
    CASE o.kind = "once" -> NextOnce(o, a)
      [] o.kind = "interval" -> NextInterval(o, a)
      [] o.kind = "daily" -> NextDaily(o, a)
      [] o.kind = "weekly" -> NextWeekly(o, a)
      [] o.kind = "monthly" -> NextMonthly(o, a)
      [] o.kind = "yearly" -> NextYearly(o, a)

(* ---- the next fire ---- *)

\* Just before the midnight that ends an excluded day.
JumpPast(o, c) ==
    LET midnight == Resolve(o.tz, (DateOf(o.tz, c) + 1) * Day) IN
    IF midnight = None THEN c ELSE midnight - 1

\* The fire, and the pending skips left: those that matched a candidate are
\* spent, whether or not a fire was found.
NextFire(o, after) ==
    LET search[c \in Int, skipped \in Nat, tries \in Nat] ==
            LET next == RawNextAfter(o, c)
                left == o.skips - skipped
            IN  IF tries = MaxCandidates \/ next = None \/ next >= o.until THEN [fire |-> None, skips |-> left]
                ELSE IF next < o.from THEN search[next, skipped, tries + 1]
                ELSE IF DateOf(o.tz, next) \in o.excluded THEN search[JumpPast(o, next), skipped, tries + 1]
                ELSE IF skipped < o.skips THEN search[next, skipped + 1, tries + 1]
                ELSE [fire |-> next, skips |-> left]
    IN  IF o.runs >= o.maxRuns THEN [fire |-> None, skips |-> o.skips]
        ELSE search[IF o.from > after THEN o.from - 1 ELSE after, 0, 0]

\* The next n fires, each delivered before the next is asked for.
Preview(o, after, n) ==
    LET fires[k \in 0..n] ==
            IF k = 0 THEN [seq |-> <<>>, left |-> o, at |-> after, over |-> FALSE]
            ELSE LET p == fires[k - 1]
                     next == NextFire(p.left, p.at)
                 IN  IF p.over \/ next.fire = None THEN [p EXCEPT !.over = TRUE]
                     ELSE [seq |-> Append(p.seq, next.fire), at |-> next.fire, over |-> FALSE,
                           left |-> [p.left EXCEPT !.skips = next.skips, !.runs = @ + 1]]
    IN  fires[n].seq

(* ---- what a rule promises ---- *)

\* The first instant at which clocks in z show l or later.
FirstReach(z, l) == Min({u \in (l - Day) .. (l + Day) : Local(z, u) >= l})
Dates == 0..LastDate
IsLastOfMonth(d) == d + 1 = MonthStart[MonthOf(d)] + MonthLengths[MonthOf(d)]
DayOfMonth(d) == d - MonthStart[MonthOf(d)] + 1
OnMonthDay(d, day) == DayOfMonth(d) = day \/ (IsLastOfMonth(d) /\ day > DayOfMonth(d))
RuleDates(o) ==
    CASE o.kind = "daily" -> Dates
      [] o.kind = "weekly" -> {d \in Dates : Weekday(d) \in o.days}
      [] o.kind = "monthly" -> {d \in Dates : OnMonthDay(d, o.day)}
      [] o.kind = "yearly" -> {d \in Dates : OnMonthDay(d, o.day) /\ MonthOf(d) % YearMonths = o.month % YearMonths}
Slots(o) ==
    CASE o.kind = "once" -> {FirstReach(o.tz, o.once)}
      [] o.kind = "interval" -> {o.anchor + k * o.every : k \in 0..LastDate * Day}
      [] OTHER -> {FirstReach(o.tz, d * Day + o.at) : d \in RuleDates(o)}

\* The fires of o after an instant: its slots inside the validity window and
\* off the excluded days, less the pending skips, up to the runs it has left.
Promised(o, after) ==
    LET live == {u \in Slots(o) : u > after /\ u >= o.from /\ u < o.until /\ DateOf(o.tz, u) \notin o.excluded}
        Rank(u) == Cardinality({v \in live : v < u})
    IN  {u \in live : Rank(u) >= o.skips /\ Rank(u) < o.skips + o.maxRuns - o.runs}
=============================================================================
