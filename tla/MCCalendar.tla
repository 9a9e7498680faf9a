----------------------------- MODULE MCCalendar -----------------------------
(* Days of four hours, weeks of three days, years of two months; zones whose clocks change inside a day and at midnight. *)
EXTENDS Calendar, TLC

Months17 == <<4, 3, 4, 2, 4>>

Utc == -50 :> 0
East == -50 :> 2
Spring == 18 :> 1 @@ -50 :> 0
Autumn == 18 :> 0 @@ -50 :> 1
SpringMidnight == 16 :> 1 @@ -50 :> 0
AutumnMidnight == 16 :> 0 @@ -50 :> 1

Rule(kind, tz) == NewRule(kind, tz, KindOf([at |-> 2, days |-> {0}, day |-> 1, month |-> 1, every |-> 3, once |-> 18], kind, 1))
Timer(id, rule) == [id |-> id, rule |-> rule, enabled |-> TRUE, past |-> "ok"]
Rules ==
    {Rule("daily", z) : z \in {Utc, Spring, Autumn, East}} \cup {[Rule("daily", SpringMidnight) EXCEPT !.at = 0, !.excluded = {3}]}
    \cup {[Rule("once", z) EXCEPT !.skips = k] : z \in {Spring, Autumn}, k \in 0..1}
    \cup {[Rule("interval", z) EXCEPT !.excluded = {4}] : z \in {Utc, AutumnMidnight, SpringMidnight}}
    \cup {[Rule("weekly", Autumn) EXCEPT !.days = {0, 1}, !.skips = 1], [Rule("monthly", Utc) EXCEPT !.day = 4],
          [Rule("monthly", East) EXCEPT !.day = 3, !.from = 22], [Rule("yearly", Spring) EXCEPT !.month = 2, !.day = 3],
          [Rule("daily", Utc) EXCEPT !.from = 22, !.until = 30], [Rule("interval", East) EXCEPT !.maxRuns = 3, !.runs = 1]}

Fixed == Timer("t2", [Rule("daily", Utc) EXCEPT !.at = 1])
\* More timers than the cap, and more fires.
Crowded == {<<[Timer("t1", Rule("daily", Utc)) EXCEPT !.enabled = FALSE], Fixed, Timer("t3", Rule("interval", Utc)), Timer("t4", Rule("weekly", Utc))>>,
            <<Timer("t1", Rule("interval", Utc)), Timer("t3", Rule("interval", East)), Fixed>>}
Lists == {<<Timer("t1", r), Fixed>> : r \in Rules} \cup Crowded

View(view, by, zone, now) ==
    [view |-> view, form |-> by, zone |-> zone, now |-> now, range |-> <<3, 5>>, month |-> "this",
     phrase |-> [word |-> "today", day |-> 0], weekStart |-> 0]
Views ==
    {View("truth", "range", z, 19) : z \in {Utc, Autumn}}
    \cup {[View("truth", "range", East, 14) EXCEPT !.range = <<3, 6>>]}
    \cup {[View("truth", "range", SpringMidnight, 14) EXCEPT !.range = r] : r \in {<<4, 5>>, <<5, 4>>}}
    \cup {[View("calendar", "month", Spring, 17) EXCEPT !.month = m, !.weekStart = w] : m \in {"this", "next", "first"}, w \in {0, 2}}
    \cup {[View("calendar", "range", AutumnMidnight, 19) EXCEPT !.weekStart = 2]}
    \cup {[View("agenda", "day", Utc, 17) EXCEPT !.phrase = [word |-> w, day |-> 1]] : w \in {"today", "tomorrow", "next", "weekday"}}

Event(kind, run, u) == [kind |-> kind, run |-> run, timer |-> "t1", at |-> u]
Claim(run, u, outcome) == [run |-> run, timer |-> "t1", at |-> u, outcome |-> outcome]
\* Two runs, one of them at the second of a dropped backlog; any of it may have been pruned.
Logged == {Event("Fired", "r1", 14), Event("WakeFailed", "r1", 14), Event("SkippedMisfire", NoRun, 18),
           Event("Coalesced", "r2", 18)}
Finished == {Claim("r2", 18, "WakeDelivered"), Claim("r3", 13, "WakeDelivered")}

\* A timer with a cap, an excluded day and a run behind it, of each kind; forms that
\* fit its kind, another kind, or none.
Limited(kind, tz) == [Rule(kind, tz) EXCEPT !.maxRuns = 6, !.runs = 1, !.excluded = {5}, !.skips = 1]
Forms == {[at |-> 3], [every |-> 2], [every |-> 0], [days |-> {1}, at |-> 1], [day |-> 3, month |-> 2], [once |-> 20], [tz |-> East]}
Whole == {[kind |-> "weekly", at |-> 1, days |-> d] : d \in {{}, {1, 2}}}
         \cup {[kind |-> "interval", every |-> 2], [kind |-> "yearly", at |-> 1, day |-> 3, month |-> 2], [kind |-> "monthly", at |-> 1, tz |-> East]}
Payloads ==
    {[shape |-> "fields", form |-> f] : f \in Forms \cup Whole}
    \cup {[shape |-> s, form |-> [tz |-> East], rule |-> r] :
            s \in {"kind", "schedule"}, r \in {Limited("interval", Spring)} \cup {[Limited("weekly", Spring) EXCEPT !.days = d] : d \in {{}, {0}}}}
Edited ==
    [requests |-> {View("truth", "range", Utc, 17)},
     tasks |-> {<<Timer("t1", Limited(k, z))>> : k \in Kinds, z \in {Utc, Spring}},
     edits |-> {[by |-> b, form |-> f] : b \in {"cli edit", "window"}, f \in Forms}
                \cup {[by |-> "window", form |-> f] : f \in Whole}
                \cup {[by |-> b, form |-> f] : b \in {"cli add", "window add"}, f \in Whole}
                \cup {[by |-> b, form |-> p] : b \in {"slot", "slot add"}, p \in Payloads}]
=============================================================================
