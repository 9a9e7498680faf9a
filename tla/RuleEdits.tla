------------------------------ MODULE RuleEdits ------------------------------
(***************************************************************************)
(* The front ends' ways to a recurrence rule: the flags of bellman add and  *)
(* edit, the dialog of the window, the payload of a slot request; and what  *)
(* the store makes of the rule it is given.  A form is the function of the  *)
(* fields its author filled in.                                             *)
(***************************************************************************)
EXTENDS Occurrence

CONSTANTS
    SystemZone,   \* the zone the command line finds in its environment
    UtcZone

Needs == [once |-> {"once"}, interval |-> {"every"}, daily |-> {"at"}, weekly |-> {"at", "days"},
          monthly |-> {"at", "day"}, yearly |-> {"at", "day", "month"}]
Kinds == DOMAIN Needs
Longest == Max(Range(MonthLengths))

Validate(o) ==
    /\ o.kind = "interval" => o.every >= 1
    /\ o.kind = "weekly" => o.days # {}
    /\ o.kind \in {"monthly", "yearly"} => o.day \in 1..Longest
    /\ o.kind = "yearly" => o.month \in 1..YearMonths

\* A new rule has no limits; a field its kind does not have is never read.
End == (LastDate + 1) * Day
NoLimits == [from |-> 0, until |-> End, maxRuns |-> End, runs |-> 0, excluded |-> {}, skips |-> 0]
Unread == [at |-> 0, once |-> 0, every |-> 1, anchor |-> 0, days |-> {}, day |-> 1, month |-> 1]
RuleFields == {"kind", "tz"} \cup DOMAIN Unread \cup DOMAIN NoLimits
Given(form, f, default) == IF f \in DOMAIN form THEN form[f] ELSE default
NewRule(kind, tz, fields) ==
    [f \in RuleFields |->
        CASE f = "kind" -> kind [] f = "tz" -> tz [] f \in DOMAIN NoLimits -> NoLimits[f]
          [] f \in DOMAIN Unread -> Given(fields, f, Unread[f])]

IsFilled(form, kind) == kind \in Kinds /\ Needs[kind] \subseteq DOMAIN form
\* An interval counts from the anchor given, or from now.
Own(kind) == Needs[kind] \cup (IF kind = "interval" THEN {"anchor"} ELSE {})
KindOf(form, kind, anchor) == [f \in Own(kind) |-> IF f = "anchor" THEN anchor ELSE form[f]]
Wanted(form) == Given(form, "kind", "none")

(* ---- the command line ---- *)

BuildOccurrence(form, now) ==
    NewRule(form.kind, Given(form, "tz", SystemZone), KindOf(form, form.kind, now))

\* An edit keeps kind and zone, and ignores the flags of other kinds.
EditFlags == UNION Range(Needs)
NothingToEdit(form) == DOMAIN form \cap EditFlags = {}
Patched(rule, form) ==
    [f \in Needs[rule.kind] \cup {"anchor"} |-> IF f \in Needs[rule.kind] THEN Given(form, f, rule[f]) ELSE rule[f]]
PatchOccurrence(rule, form) ==
    [f \in RuleFields |->
        IF f \in DOMAIN NoLimits THEN rule[f] ELSE NewRule(rule.kind, rule.tz, Patched(rule, form))[f]]

(* ---- the window ---- *)

\* What the dialog shows of a timer, and what it sends back: the whole rule,
\* whichever field was changed.
WebTimer(rule) == Restrict(rule, {"kind", "tz"} \cup Own(rule.kind))
Dialog(rule, form) == [f \in DOMAIN form \cup DOMAIN WebTimer(rule) |-> Given(form, f, rule[f])]
IntoCoreOccurrence(dto, now) ==
    NewRule(dto.kind, Given(dto, "tz", UtcZone), KindOf(dto, dto.kind, Given(dto, "anchor", now)))

(* ---- the slot channel ---- *)

\* A payload is a kind in full, a schedule in full, or fields: with a kind, or
\* without one.
InferredKind(form) ==
    IF "kind" \in DOMAIN form THEN form.kind
    ELSE IF "every" \in DOMAIN form THEN "interval"
    ELSE IF "at" \in DOMAIN form THEN "daily" ELSE "none"
OccurrenceFromPayload(p, now) ==
    CASE p.shape = "schedule" -> p.rule
      [] p.shape = "kind" -> NewRule(p.rule.kind, Given(p.form, "tz", UtcZone),
                                     Restrict(p.rule, Needs[p.rule.kind] \cup {"anchor"}))
      [] p.shape = "fields" -> NewRule(InferredKind(p.form), Given(p.form, "tz", UtcZone),
                                       KindOf(p.form, InferredKind(p.form), now))
IsPayload(p) == p.shape = "fields" => IsFilled(p.form, InferredKind(p.form))

(* ---- the store ---- *)

\* Every write finds the next fire anew, from the last one or else from now,
\* and spends the pending skips it passes.
ComputeNextFire(row, rule, last, now) ==
    LET since == IF last = None THEN now ELSE last
        next == NextFire(rule, since)
    IN  [row EXCEPT !.rule = [rule EXCEPT !.skips = next.skips], !.next = next.fire, !.last = last, !.revision = @ + 1,
                    !.asked = rule, !.since = since]
CreateTimer(row, now) == ComputeNextFire(row, row.rule, None, now)
UpdateRule(row, rule, now) == ComputeNextFire(row, rule, row.last, now)
MarkFired(row, now) == ComputeNextFire(row, [row.rule EXCEPT !.runs = @ + 1], row.next, now)
=============================================================================
