--------------------------- MODULE SchedulerProofs ---------------------------
(***************************************************************************)
(* Three properties of the scheduler, for any set of timers, rules, clock  *)
(* steps, edits and manual runs.                                           *)
(*                                                                         *)
(* max_runs is kept: the claim and the run count are written by two        *)
(* transactions, and the count may be moved by a manual run in between;    *)
(* the argument is a balance of claims against counted runs that knows     *)
(* which step the scheduler owes.                                          *)
(*                                                                         *)
(* The heap is complete: every push looked up to the horizon from its own  *)
(* now; the argument bounds how far that reaches at every later moment.    *)
(*                                                                         *)
(* Backlogs are logged: what is pending when a timer is taken in hand is   *)
(* in its walk, and what its last fire leaves behind is on record.         *)
(***************************************************************************)
EXTENDS Scheduler, FiniteSetTheorems, WellFoundedInduction, TLAPS

\* A row, as far as the argument looks at it.
RowType(r) ==
    /\ {"phase", "config", "rule", "next", "last", "runs"} \subseteq DOMAIN r
    /\ r.phase \in {"unborn", "live", "gone"} /\ r.config.maxRuns \in Nat
    /\ r.rule \subseteq Nat /\ r.rule \subseteq Slots
    /\ r.next \in Int /\ r.next >= Never /\ r.last \in Int /\ r.runs \in Nat

\* A row with a next fire has runs left, and the fire is one of its rule after the last one.
RowOK(r) == r.next # Never => ~Exhausted(r) /\ r.last < r.next /\ r.next \in r.rule

\* What the threads hold.
Locals ==
    /\ wall \in Nat /\ at \in Nat /\ slot \in Int /\ slot >= Never /\ cur \in Timers
    /\ todo \subseteq Timers /\ \A e \in heap : e[2] \in Timers
    /\ {"pc", "timer", "at"} \subseteq DOMAIN manual /\ manual.timer \in Timers /\ manual.at \in Nat
    /\ then \in {"boot", "jump", "asleep", "check", "tick", "drain"}
Rowed == DOMAIN row = Timers /\ \A t \in Timers : RowType(row[t]) /\ RowOK(row[t])
Types ==
    /\ Locals /\ Rowed
    /\ IsFiniteSet(open) /\ IsFiniteSet(closed)
    /\ spent \in [EnvEvents -> Nat]

Of(t) == {c \in open \union closed : c[1] = t}
Count(t) == Cardinality(Of(t))

Capped(t) == row[t].config.maxRuns # 0 => Count(t) <= row[t].config.maxRuns
Room(t) == row[t].config.maxRuns # 0 => Count(t) < row[t].config.maxRuns

\* Every claim of a timer that is not deleted has been counted as a run.
Counted(t) == row[t].phase # "gone" => Count(t) <= row[t].runs

\* One more claim may be made, and it will be counted - or was, by a manual run that moved
\* last_fired past the slot.
Ready ==
    /\ row[cur].phase # "unborn" /\ Room(cur)
    /\ row[cur].phase # "gone" => \/ row[cur].last < slot /\ Count(cur) <= row[cur].runs
                                  \/ Count(cur) + 1 <= row[cur].runs
Owed ==
    /\ row[cur].phase # "unborn"
    /\ row[cur].phase # "gone" => \/ row[cur].last < slot /\ Count(cur) <= row[cur].runs + 1
                                  \/ Count(cur) <= row[cur].runs
Owing == row[cur].phase # "gone" => Count(cur) <= row[cur].runs + 1

Limits ==
    /\ \A t \in Timers : Capped(t)
    /\ pc # "stopped" => \A t \in Timers \ {cur} : Counted(t)
    /\ pc \notin {"mark", "marking", "stopped"} => Counted(cur)
    /\ pc \in {"fire", "catch"} => Ready
    /\ pc = "mark" => Owed
    /\ pc = "marking" => Owing

Calm == spent["crash"] = 0 /\ spent["rule"] = 0

Inv == Types /\ (Calm => Limits)

-----------------------------------------------------------------------------
(* Instants, rows, counts *)

LEMMA SmallestMember ==
    ASSUME NEW T, T \subseteq Nat, T # {}
    PROVE  \E x \in T : \A y \in T : x <= y
<1> DEFINE R == OpToRel(<, Nat)
<1>1. IsWellFoundedOn(R, Nat)
  BY NatLessThanWellFounded
<1>2. \A x, y \in Nat : x < y => <<x, y>> \in R
  BY DEF OpToRel
<1> HIDE DEF R
<1>3. PICK x \in T : \A y \in T : ~(<<y, x>> \in R)
  BY <1>1, WFMin
<1>4. ASSUME NEW y \in T PROVE x <= y
  <2>1. x \in Nat /\ y \in Nat /\ ~(y < x)
    BY <1>2, <1>3
  <2> QED BY <2>1
<1> QED BY <1>4

LEMMA GreatestMember ==
    ASSUME NEW T, T \subseteq Nat, T # {}, NEW n \in Nat, \A y \in T : y <= n
    PROVE  \E x \in T : \A y \in T : x >= y
<1> DEFINE B == {b \in Nat : \A y \in T : y <= b}
<1>1. PICK b \in B : \A c \in B : b <= c
  <2>1. n \in B
    OBVIOUS
  <2>2. B \subseteq Nat /\ B # {}
    BY <2>1
  <2> QED BY <2>2, SmallestMember
<1>2. b \in T
  <2> SUFFICES ASSUME b \notin T PROVE FALSE
    OBVIOUS
  <2>1. PICK y \in T : TRUE
    OBVIOUS
  <2>2. b \in Nat /\ \A z \in T : z \in Nat /\ z <= b /\ z # b
    BY <1>1
  <2>3. b - 1 \in Nat /\ \A z \in T : z <= b - 1
    BY <2>1, <2>2
  <2>4. b - 1 \in B
    BY <2>3
  <2> HIDE DEF B
  <2> QED BY <1>1, <2>2, <2>4
<1> QED BY <1>1, <1>2

LEMMA LatestIsThere ==
    ASSUME NEW T, T \subseteq Nat, T # {}, NEW n \in Nat, \A y \in T : y <= n
    PROVE  Latest(T) \in T /\ \A y \in T : Latest(T) >= y
<1>1. \E x \in T : \A y \in T : x >= y
  BY GreatestMember
<1> QED BY <1>1 DEF Latest

LEMMA NextIsLater ==
    ASSUME NEW r, RowType(r), NEW after \in Int
    PROVE  /\ NextFire(r, after) \in Int /\ NextFire(r, after) >= Never
           /\ NextFire(r, after) # Never =>
                  ~Exhausted(r) /\ NextFire(r, after) > after /\ NextFire(r, after) \in r.rule
<1> DEFINE S == {s \in r.rule : s > after}
<1>1. S \subseteq Nat
  BY DEF RowType
<1>2. CASE Exhausted(r)
  BY <1>2 DEF NextFire, Never
<1>3. CASE ~Exhausted(r) /\ S = {}
  BY <1>3 DEF NextFire, Never, Earliest
<1>4. CASE ~Exhausted(r) /\ S # {}
  <2>1. Earliest(S) \in S
    BY <1>1, <1>4, SmallestMember DEF Earliest
  <2>2. NextFire(r, after) = Earliest(S)
    BY <1>4 DEF NextFire
  <2> HIDE DEF S
  <2>3. NextFire(r, after) \in S
    BY <2>1, <2>2
  <2> QED BY <1>1, <1>4, <2>3 DEF S, Never
<1> QED BY <1>2, <1>3, <1>4

LEMMA RecomputedRow ==
    ASSUME NEW r, RowType(r), wall \in Nat
    PROVE  /\ RowType(Recomputed(r)) /\ RowOK(Recomputed(r))
           /\ Recomputed(r).last = r.last /\ Recomputed(r).runs = r.runs
           /\ Recomputed(r).phase = r.phase /\ Recomputed(r).config = r.config
<1> DEFINE from == IF r.last = Never THEN wall ELSE r.last
           n == NextFire(r, from)
           q == [r EXCEPT !.next = n]
<1>1. from \in Int /\ r.last <= from
  BY DEF RowType, Never
<1>2. n \in Int /\ n >= Never /\ (n # Never => ~Exhausted(r) /\ n > from /\ n \in r.rule)
  BY <1>1, NextIsLater
<1>3. Recomputed(r) = q
  BY DEF Recomputed
<1> HIDE DEF from, n
<1>4. /\ DOMAIN q = DOMAIN r /\ q.last = r.last /\ q.runs = r.runs /\ q.phase = r.phase /\ q.config = r.config
      /\ q.next = n /\ q.rule = r.rule
  BY DEF RowType
<1> HIDE DEF q
<1>5. RowType(q)
  BY <1>2, <1>4 DEF RowType
<1>6. Exhausted(q) = Exhausted(r)
  BY <1>4 DEF Exhausted
<1>7. RowOK(q)
  BY <1>1, <1>2, <1>4, <1>6 DEF RowOK, RowType
<1> QED BY <1>3, <1>4, <1>5, <1>7

LEMMA CountIsNat ==
    ASSUME Types, NEW t
    PROVE  IsFiniteSet(Of(t)) /\ Count(t) \in Nat
<1>1. IsFiniteSet(open \union closed)
  BY FS_Union DEF Types
<1>2. Of(t) \subseteq open \union closed
  BY DEF Of
<1>3. IsFiniteSet(Of(t))
  BY <1>1, <1>2, FS_Subset
<1> QED BY <1>3, FS_CardinalityType DEF Count

LEMMA CountsSame ==
    ASSUME open' \union closed' = open \union closed, NEW t
    PROVE  Count(t)' = Count(t)
<1>1. Of(t)' = Of(t)
  BY DEF Of
<1> QED BY <1>1 DEF Count

\* A new claim adds to the count of its timer.
LEMMA CountsOneMore ==
    ASSUME Types, ~Claimed(cur, slot),
           open' \union closed' = (open \union closed) \union {<<cur, slot>>}, NEW t
    PROVE  Count(t)' = IF t = cur THEN Count(t) + 1 ELSE Count(t)
<1> DEFINE c == <<cur, slot>>
<1>1. CASE t = cur
  <2>1. c \notin Of(t)
    BY DEF Of, Claimed
  <2>2. Of(t)' = Of(t) \union {c}
    BY <1>1 DEF Of
  <2>3. Cardinality(Of(t) \union {c}) = Cardinality(Of(t)) + 1
    BY <2>1, CountIsNat, FS_AddElement
  <2> QED BY <1>1, <2>2, <2>3 DEF Count
<1>2. CASE t # cur
  <2>1. Of(t)' = Of(t)
    BY <1>2 DEF Of
  <2> QED BY <1>2, <2>1 DEF Count
<1> QED BY <1>1, <1>2

-----------------------------------------------------------------------------
(* Writes of a row *)

\* The row of t is replaced, its next fire is computed anew.
LEMMA WriteRows ==
    ASSUME Types, NEW t \in Timers, NEW r, RowType(r), Write(t, r)
    PROVE  /\ Rowed' /\ \A u \in Timers \ {t} : row'[u] = row[u]
           /\ row'[t].last = r.last /\ row'[t].runs = r.runs
           /\ row'[t].phase = r.phase /\ row'[t].config = r.config
<1> DEFINE q == Recomputed(r)
<1>1. /\ RowType(q) /\ RowOK(q)
      /\ q.last = r.last /\ q.runs = r.runs /\ q.phase = r.phase /\ q.config = r.config
  BY RecomputedRow DEF Types, Locals
<1>2. row' = [row EXCEPT ![t] = q]
  BY DEF Write
<1> HIDE DEF q
<1>3. DOMAIN row' = Timers /\ row'[t] = q /\ \A u \in Timers \ {t} : row'[u] = row[u]
  BY <1>2 DEF Types, Rowed
<1> QED BY <1>1, <1>3 DEF Types, Rowed

\* A row whose last fire is moved, and whose run is counted or not.
LEMMA FiredRow ==
    ASSUME NEW r, RowType(r), NEW s \in Int
    PROVE  LET a == [r EXCEPT !.last = s]
               b == [r EXCEPT !.last = s, !.runs = @ + 1]
           IN  /\ RowType(a) /\ RowType(b) /\ a.last = s /\ b.last = s
               /\ a.runs = r.runs /\ b.runs = r.runs + 1
               /\ a.phase = r.phase /\ a.config = r.config /\ b.phase = r.phase /\ b.config = r.config
<1> DEFINE a == [r EXCEPT !.last = s]
           b == [r EXCEPT !.last = s, !.runs = @ + 1]
<1>1. /\ DOMAIN a = DOMAIN r /\ a.last = s /\ a.runs = r.runs /\ a.phase = r.phase
      /\ a.config = r.config /\ a.next = r.next /\ a.rule = r.rule
  BY DEF RowType
<1>2. /\ DOMAIN b = DOMAIN r /\ b.last = s /\ b.runs = r.runs + 1 /\ b.phase = r.phase
      /\ b.config = r.config /\ b.next = r.next /\ b.rule = r.rule
  BY DEF RowType
<1> HIDE DEF a, b
<1>3. RowType(a)
  BY <1>1 DEF RowType
<1>4. RowType(b)
  BY <1>2 DEF RowType
<1> QED BY <1>1, <1>2, <1>3, <1>4 DEF a, b

-----------------------------------------------------------------------------
(* Steps *)

\* What a step keeps.
Keeps == Types' /\ (Calm' => Calm) /\ (Calm /\ Limits => Limits')

\* No row changes what the balance looks at.
RowsKept ==
    \A t \in Timers : /\ row'[t].config = row[t].config /\ row'[t].phase = row[t].phase
                      /\ row'[t].runs = row[t].runs
SameClaims == open' \union closed' = open \union closed

LEMMA PlainStep ==
    ASSUME Types, Limits, RowsKept, SameClaims, cur \in Timers, cur' \in Timers,
           pc \notin {"mark", "marking", "stopped"}, pc' \notin {"mark", "marking"},
           pc' \in {"fire", "catch"} => Ready'
    PROVE  Limits'
<1>1. \A t \in Timers : Counted(t) /\ Capped(t)
  BY DEF Limits
<1>2. \A t \in Timers : Count(t)' = Count(t)
  BY CountsSame DEF SameClaims
<1>3. \A t \in Timers : Counted(t)' /\ Capped(t)'
  BY <1>1, <1>2 DEF Counted, Capped, RowsKept
<1> QED BY <1>3 DEF Limits

LEMMA StopStep ==
    ASSUME Types, Limits, RowsKept, SameClaims, pc' = "stopped"
    PROVE  Limits'
<1>1. \A t \in Timers : Capped(t) /\ Count(t)' = Count(t)
  BY CountsSame DEF SameClaims, Limits
<1>2. \A t \in Timers : Capped(t)'
  BY <1>1 DEF Capped, RowsKept
<1> QED BY <1>2 DEF Limits

\* A step of the thread that only moves.
LEMMA QuietStep ==
    ASSUME Types, Locals', UNCHANGED <<row, open, closed, spent>>, pc \notin {"mark", "marking", "stopped"},
           pc' \notin {"mark", "marking"}, pc' \in {"fire", "catch"} /\ Limits => Ready'
    PROVE  Keeps
<1>1. Types' /\ (Calm' => Calm)
  BY DEF Types, Rowed, Calm
<1>2. ASSUME Limits PROVE Limits'
  BY <1>2, PlainStep DEF Types, Locals, RowsKept, SameClaims
<1> QED BY <1>1, <1>2 DEF Keeps

\* A row is written back, or the thread ends.
LEMMA WrittenStep ==
    ASSUME Types, Locals', UNCHANGED <<open, closed, spent>>, Rowed', RowsKept,
           pc \notin {"mark", "marking", "stopped"}, pc' \notin {"mark", "marking"},
           pc' \in {"fire", "catch"} /\ Limits => Ready'
    PROVE  Keeps
<1>1. Types' /\ (Calm' => Calm)
  BY DEF Types, Calm
<1>2. ASSUME Limits PROVE Limits'
  BY <1>2, PlainStep DEF Types, Locals, SameClaims
<1> QED BY <1>1, <1>2 DEF Keeps

\* The thread ends on an error.
LEMMA EndStep ==
    ASSUME Types, Locals', UNCHANGED <<row, open, closed, spent>>, pc' = "stopped"
    PROVE  Keeps
<1>1. Types' /\ (Calm' => Calm)
  BY DEF Types, Rowed, Calm
<1>2. ASSUME Limits PROVE Limits'
  BY <1>2, StopStep DEF RowsKept, SameClaims
<1> QED BY <1>1, <1>2 DEF Keeps

\* Another process changes rows or claims, the thread stands still.
Grown ==
    \A t \in Timers :
        /\ row'[t].config = row[t].config /\ row'[t].runs >= row[t].runs
        /\ row'[t].last = row[t].last \/ row'[t].runs >= row[t].runs + 1
        /\ \/ row'[t].phase = row[t].phase
           \/ row[t].phase = "unborn" /\ row'[t].phase = "live"
           \/ row'[t].phase = "gone"

LEMMA OthersStep ==
    ASSUME Types, Rowed', Grown, SameClaims, UNCHANGED <<pc, cur, slot>>, Limits
    PROVE  Limits'
<1>1. \A t \in Timers : Count(t)' = Count(t) /\ Count(t) \in Nat
  BY CountsSame, CountIsNat DEF SameClaims
<1>2. \A t \in Timers : /\ row[t].runs \in Nat /\ row'[t].runs \in Nat /\ row[t].last \in Int /\ row'[t].last \in Int
                        /\ row[t].phase \in {"unborn", "live", "gone"}
                        /\ row'[t].phase # "gone" => row[t].phase # "gone"
                        /\ row[t].phase # "unborn" => row'[t].phase # "unborn"
  BY DEF Types, Rowed, RowType, Grown
<1>3. \A t \in Timers : Capped(t) => Capped(t)'
  BY <1>1 DEF Capped, Grown
<1>4. \A t \in Timers : Counted(t) => Counted(t)'
  BY <1>1, <1>2 DEF Counted, Grown
<1>5. cur \in Timers /\ slot \in Int /\ cur' = cur /\ slot' = slot
  BY DEF Types, Locals
<1>6. Ready => Ready'
  BY <1>1, <1>2, <1>5 DEF Ready, Room, Grown
<1>7. Owed => Owed'
  BY <1>1, <1>2, <1>5 DEF Owed, Grown
<1>8. Owing => Owing'
  BY <1>1, <1>2, <1>5 DEF Owing, Grown
<1> QED BY <1>3, <1>4, <1>5, <1>6, <1>7, <1>8 DEF Limits

\* An event of the environment is counted.
LEMMA Counting ==
    ASSUME Types, NEW e \in EnvEvents, Happens(e)
    PROVE  /\ spent' \in [EnvEvents -> Nat] /\ (Calm' => Calm)
           /\ e \in {"crash", "rule"} => ~Calm'
<1>1. spent \in [EnvEvents -> Nat] /\ {"crash", "rule"} \subseteq EnvEvents
  BY DEF Types, EnvEvents
<1>2. spent' = [spent EXCEPT ![e] = @ + 1]
  BY DEF Happens
<1>3. \A f \in EnvEvents : spent'[f] = IF f = e THEN spent[f] + 1 ELSE spent[f]
  BY <1>1, <1>2
<1>4. spent' \in [EnvEvents -> Nat]
  BY <1>1, <1>2
<1> QED BY <1>1, <1>3, <1>4 DEF Calm

-----------------------------------------------------------------------------
(* Steps of the thread that touch neither rows nor claims *)

LEMMA Heaps ==
    ASSUME Types
    PROVE  /\ \A t \in Timers : \A e \in Requeued(t) : e[2] \in Timers
           /\ \A e \in Rebuilt : e[2] \in Timers
<1>1. ASSUME NEW t \in Timers, NEW e \in Requeued(t) PROVE e[2] \in Timers
  <2>1. e \in heap \/ e = <<ExecAt(t, row[t].next), t>>
    BY <1>1 DEF Requeued, Pushed
  <2> QED BY <2>1 DEF Types, Locals
<1>2. ASSUME NEW e \in Rebuilt PROVE e[2] \in Timers
  <2>1. PICK t \in Timers : e = <<ExecAt(t, row[t].next), t>>
    BY <1>2 DEF Rebuilt
  <2> QED BY <2>1
<1> QED BY <1>1, <1>2

\* Where a delivery goes on.
LEMMA Onward ==
    ASSUME Types, Delivered
    PROVE  /\ pc' \in {"requeue", "advance", "caught"} /\ cur' = cur
           /\ slot' \in Int /\ slot' >= Never
<1>1. slot \in Int /\ slot >= Never /\ at \in Int /\ at >= Never
  BY DEF Types, Locals, Never
<1>2. CASE row[cur].config.misfire = "skip"
  <2>1. Turn("requeue", slot)
    BY <1>2 DEF Delivered
  <2> QED BY <1>1, <2>1 DEF Turn
<1>3. CASE row[cur].config.misfire = "coalesce"
  <2>1. Turn("advance", at)
    BY <1>3 DEF Delivered
  <2> QED BY <1>1, <2>1 DEF Turn
<1>4. CASE row[cur].config.misfire # "skip" /\ row[cur].config.misfire # "coalesce"
  <2>1. Turn("caught", slot)
    BY <1>4 DEF Delivered
  <2> QED BY <1>1, <2>1 DEF Turn
<1> QED BY <1>2, <1>3, <1>4

LEMMA Moves ==
    ASSUME Types,
           Boot \/ Rebuild \/ Wake \/ CheckStore \/ Tick \/ ScanDone \/ DrainDone \/ Requeue
    PROVE  Keeps
<1> USE DEF clocks, claims, events, local, work, Types, Locals, Never
<1>1. CASE Boot
  BY <1>1, QuietStep DEF Boot, StartScan
<1>2. CASE Rebuild
  <2>1. \A e \in heap' : e[2] \in Timers
    BY <1>2, Heaps DEF Rebuild
  <2>2. pc = "rebuild" /\ pc' = then
    BY <1>2 DEF Rebuild
  <2>3. Locals'
    BY <1>2, <2>1 DEF Rebuild
  <2> QED BY <1>2, <2>2, <2>3, QuietStep DEF Rebuild
<1>3. CASE Wake
  <2>1. Locals' /\ pc = "asleep" /\ pc' \in {"stopped", "rebuild", "check"}
    BY <1>3 DEF Wake, Snapshot
  <2> QED BY <1>3, <2>1, QuietStep DEF Wake
<1>4. CASE CheckStore
  <2>1. Locals' /\ pc = "check" /\ pc' \in {"rebuild", "tick"}
    BY <1>4 DEF CheckStore, Snapshot
  <2> QED BY <1>4, <2>1, QuietStep DEF CheckStore
<1>5. CASE Tick
  <2>1. Locals' /\ pc = "tick" /\ pc' \in {"asleep", "scan", "drain"}
    BY <1>5 DEF Tick, FallAsleep, StartScan
  <2> QED BY <1>5, <2>1, QuietStep DEF Tick
<1>6. CASE ScanDone
  <2>1. Locals' /\ pc = "scan" /\ pc' = "rebuild"
    BY <1>6 DEF ScanDone, Snapshot
  <2> QED BY <1>6, <2>1, QuietStep DEF ScanDone
<1>7. CASE DrainDone
  <2>1. Locals' /\ pc = "drain" /\ pc' = "asleep"
    BY <1>7 DEF DrainDone, FallAsleep
  <2> QED BY <1>7, <2>1, QuietStep DEF DrainDone
<1>8. CASE Requeue
  <2>1. \A e \in heap' : e[2] \in Timers
    BY <1>8, Heaps DEF Requeue
  <2>2. pc = "requeue" /\ pc' \in {"drain", "scan"} /\ cur' = cur /\ slot' = 0
    BY <1>8 DEF Requeue, Return
  <2>3. Locals'
    BY <1>8, <2>1, <2>2 DEF Requeue
  <2> QED BY <1>8, <2>2, <2>3, QuietStep DEF Requeue
<1> QED BY <1>1, <1>2, <1>3, <1>4, <1>5, <1>6, <1>7, <1>8

\* The row is read to be written back.
LEMMA Reads ==
    ASSUME Types, Ensure \/ Advance \/ Anchor
    PROVE  Keeps
<1> USE DEF clocks, claims, events, local, work, Types, Locals, Never
<1>1. CASE Ensure /\ row[cur].phase = "live" /\ row[cur].next <= slot
  <2>1. Locals' /\ pc = "ensure" /\ pc' \in {"ensuring", "stopped"}
    BY <1>1 DEF Ensure, ReadFor, Turn
  <2> QED BY <1>1, <2>1, QuietStep DEF Ensure
<1>2. CASE Ensure /\ ~(row[cur].phase = "live" /\ row[cur].next <= slot)
  <2>1. heap' = Requeued(cur) /\ Delivered /\ pc = "ensure"
    BY <1>2 DEF Ensure
  <2>2. \A e \in heap' : e[2] \in Timers
    BY <2>1, Heaps
  <2>3. Locals'
    BY <1>2, <2>1, <2>2, Onward DEF Ensure
  <2> QED BY <1>2, <2>1, <2>3, Onward, QuietStep DEF Ensure
<1>3. CASE Advance
  <2>1. Locals' /\ pc = "advance" /\ pc' \in {"advancing", "stopped"}
    BY <1>3 DEF Advance, ReadFor, Turn
  <2> QED BY <1>3, <2>1, QuietStep DEF Advance
<1>4. CASE Anchor
  <2>1. Locals' /\ pc = "anchor" /\ pc' \in {"anchoring", "stopped"}
    BY <1>4 DEF Anchor, ReadFor, Turn
  <2> QED BY <1>4, <2>1, QuietStep DEF Anchor
<1> QED BY <1>1, <1>2, <1>3, <1>4

-----------------------------------------------------------------------------
(* The decision to fire *)

\* A timer that is due has a run left, and its fire comes after its last one.
LEMMA MayFire ==
    ASSUME Types, Limits, NEW t \in Timers, Counted(t), Overdue(row[t], at)
    PROVE  /\ row[t].phase = "live" /\ Room(t) /\ Count(t) <= row[t].runs
           /\ row[t].last < row[t].next /\ row[t].next \in Nat /\ row[t].next <= at
<1>1. RowType(row[t]) /\ RowOK(row[t]) /\ Count(t) \in Nat
  BY CountIsNat DEF Types, Rowed
<1>2. row[t].phase = "live" /\ row[t].next # Never /\ row[t].next <= at
  BY DEF Overdue
<1>3. ~Exhausted(row[t]) /\ row[t].last < row[t].next
  BY <1>1, <1>2 DEF RowOK
<1>4. Count(t) <= row[t].runs
  BY <1>2 DEF Counted
<1>5. Room(t)
  BY <1>1, <1>3, <1>4 DEF Room, Exhausted, RowType
<1>6. row[t].next \in Nat
  BY <1>1, <1>2 DEF RowType, Never
<1> QED BY <1>2, <1>3, <1>4, <1>5, <1>6

\* The due handler picks a slot from the row's next one up to now.
LEMMA Handled ==
    ASSUME Types, NEW t \in Timers, Overdue(row[t], at), HandleDue(t)
    PROVE  /\ cur' = t /\ slot' \in Nat /\ pc' \in {"fire", "advance", "catch"}
           /\ pc' # "advance" => row[t].next <= slot'
<1>1. row[t].next \in Nat /\ row[t].next <= at /\ at \in Nat /\ RowType(row[t])
  BY DEF Types, Locals, Rowed, RowType, Overdue, Never
<1> DEFINE graced == InGrace(t, Walk(row[t], at), at)
<1>2. graced \subseteq Nat /\ \A s \in graced : row[t].next <= s /\ s <= at
  BY <1>1 DEF InGrace, Walk, Missed, RowType
<1>3. graced # {} => Latest(graced) \in graced
  <2> HIDE DEF graced
  <2> QED BY <1>1, <1>2, LatestIsThere
<1>4. cur' = t /\ \/ slot' = row[t].next /\ pc' \in {"fire", "catch"}
                  \/ slot' = at /\ pc' = "advance"
                  \/ graced # {} /\ slot' = Latest(graced) /\ pc' = "fire"
  BY DEF HandleDue
<1> HIDE DEF graced
<1> QED BY <1>1, <1>2, <1>3, <1>4

LEMMA Starting ==
    ASSUME Types, ScanNext \/ DrainNext
    PROVE  Keeps
<1> USE DEF clocks, claims, events, local, work
<1>1. ASSUME NEW t \in Timers, Overdue(row[t], at), HandleDue(t), Limits, pc \in {"scan", "drain"},
             UNCHANGED <<row, open, closed>>, pc' \in {"fire", "catch"}
      PROVE  Ready'
  <2>1. Counted(t)
    BY <1>1 DEF Limits
  <2>2. /\ row[t].phase = "live" /\ Room(t) /\ Count(t) <= row[t].runs
        /\ row[t].last < row[t].next /\ row[t].next \in Nat /\ row[t].last \in Int
    BY <1>1, <2>1, MayFire DEF Types, Rowed, RowType
  <2>3. cur' = t /\ slot' \in Nat /\ row[t].next <= slot'
    BY <1>1, Handled
  <2>4. Count(t)' = Count(t)
    BY <1>1, CountsSame
  <2>5. Room(t)' /\ row'[t] = row[t]
    BY <1>1, <2>2, <2>4 DEF Room
  <2>6. Count(cur)' = Count(t) /\ Room(cur)' = Room(t)'
    BY <1>1, <2>3, <2>4 DEF Count, Of, Room
  <2> QED BY <2>2, <2>3, <2>5, <2>6 DEF Ready
<1>2. CASE ScanNext
  <2>1. PICK t \in todo :
          /\ todo' = todo \ {t}
          /\ IF Due(row[t], at) THEN HandleDue(t) /\ UNCHANGED heap
             ELSE heap' = Requeued(t) /\ UNCHANGED <<pc, work, events>>
    BY <1>2 DEF ScanNext
  <2>2. t \in Timers /\ pc = "scan"
    BY <1>2 DEF Types, Locals, ScanNext
  <2>3. CASE Due(row[t], at)
    <3>1. HandleDue(t) /\ Overdue(row[t], at)
      BY <2>1, <2>3 DEF Due
    <3>2. cur' = t /\ slot' \in Nat /\ pc' \in {"fire", "advance", "catch"}
      BY <2>2, <3>1, Handled
    <3>3. Locals'
      BY <1>2, <2>1, <2>2, <2>3, <3>2 DEF ScanNext, Types, Locals, Never
    <3>4. UNCHANGED <<row, open, closed, spent>>
      BY <1>2 DEF ScanNext
    <3> QED BY <1>1, <2>2, <3>1, <3>2, <3>3, <3>4, QuietStep
  <2>4. CASE ~Due(row[t], at)
    <3>1. \A e \in heap' : e[2] \in Timers
      BY <2>1, <2>2, <2>4, Heaps
    <3>2. Locals' /\ pc' = "scan"
      BY <1>2, <2>1, <2>2, <2>4, <3>1 DEF ScanNext, Types, Locals
    <3> QED BY <1>2, <2>2, <3>2, QuietStep DEF ScanNext
  <2> QED BY <2>3, <2>4
<1>3. CASE DrainNext
  <2>1. PICK e \in heap :
          /\ todo' = todo /\ at' = at
          /\ \/ /\ \E s : heap' = (heap \ {e}) \union {<<s, e[2]>>} \/ heap' = heap \ {e}
                /\ UNCHANGED <<pc, work, events>>
             \/ /\ Overdue(row[e[2]], at) /\ heap' = heap \ {e} /\ HandleDue(e[2])
    <3>1. PICK e \in heap :
            LET t == e[2]
                r == row[t]
            IN IF t \in resolved \/ r.phase # "live" \/ ~r.enabled \/ r.next = Never
               THEN heap' = heap \ {e} /\ UNCHANGED <<pc, work, events>>
               ELSE IF ExecAt(t, r.next) > at
                    THEN heap' = (heap \ {e}) \union {<<ExecAt(t, r.next), t>>}
                         /\ UNCHANGED <<pc, work, events>>
               ELSE IF r.next > at
                    THEN heap' = (heap \ {e}) \union {<<r.next, t>>}
                         /\ UNCHANGED <<pc, work, events>>
               ELSE heap' = heap \ {e} /\ HandleDue(t)
      BY <1>3 DEF DrainNext
    <3>2. row[e[2]].next \in Int /\ at \in Int
      BY DEF Types, Locals, Rowed, RowType
    <3>3. todo' = todo /\ at' = at
      BY <1>3 DEF DrainNext
    <3> DEFINE gone == e[2] \in resolved \/ row[e[2]].phase # "live" \/ ~row[e[2]].enabled
                       \/ row[e[2]].next = Never
    <3>4. CASE gone
      BY <3>1, <3>3, <3>4
    <3>5. CASE ~gone /\ (ExecAt(e[2], row[e[2]].next) > at \/ row[e[2]].next > at)
      BY <3>1, <3>3, <3>5
    <3>6. CASE ~gone /\ ~(ExecAt(e[2], row[e[2]].next) > at \/ row[e[2]].next > at)
      BY <3>1, <3>2, <3>3, <3>6 DEF Overdue
    <3> QED BY <3>4, <3>5, <3>6
  <2>2. e[2] \in Timers /\ pc = "drain"
    BY <1>3 DEF Types, Locals, DrainNext
  <2>3. \A f \in heap' : f[2] \in Timers
    BY <2>1, <2>2 DEF Types, Locals
  <2>4. UNCHANGED <<wall, row, open, closed, spent, manual, then>>
    BY <1>3 DEF DrainNext
  <2>5. CASE UNCHANGED <<pc, work, events>>
    <3>1. Locals'
      BY <2>1, <2>3, <2>4, <2>5 DEF Types, Locals
    <3> QED BY <2>2, <2>4, <2>5, <3>1, QuietStep
  <2>6. CASE Overdue(row[e[2]], at) /\ HandleDue(e[2])
    <3>1. cur' = e[2] /\ slot' \in Nat /\ pc' \in {"fire", "advance", "catch"}
      BY <2>2, <2>6, Handled
    <3>2. Locals'
      BY <2>1, <2>2, <2>3, <2>4, <3>1 DEF Types, Locals, Never
    <3> QED BY <1>1, <2>2, <2>4, <2>6, <3>1, <3>2, QuietStep
  <2> QED BY <2>1, <2>5, <2>6
<1> QED BY <1>2, <1>3

-----------------------------------------------------------------------------
(* Claim, count, advance *)

LEMMA Fires ==
    ASSUME Types, Fire
    PROVE  Keeps
<1> USE DEF clocks, claims, events, local, work
<1>1. /\ pc = "fire" /\ cur' = cur /\ slot' = slot
      /\ UNCHANGED <<wall, at, row, heap, todo, manual, then, spent>>
      /\ \/ /\ ~Claimed(cur, slot) /\ pc' = "mark"
            /\ \/ open' = open \union {<<cur, slot>>} /\ closed' = closed
               \/ closed' = closed \union {<<cur, slot>>} /\ open' = open
         \/ pc' \in {"mark", "ensure"} /\ UNCHANGED <<open, closed>>
  BY DEF Fire, Turn
<1>2. Types' /\ (Calm' => Calm)
  <2>1. IsFiniteSet(open') /\ IsFiniteSet(closed')
    BY <1>1, FS_AddElement DEF Types
  <2>2. Locals' /\ Rowed'
    BY <1>1 DEF Types, Locals, Rowed
  <2> QED BY <1>1, <2>1, <2>2 DEF Types, Calm
<1>3. ASSUME Limits PROVE Limits'
  <2>1. Ready /\ \A t \in Timers : Capped(t) /\ Counted(t) /\ Count(t) \in Nat
    BY <1>1, <1>3, CountIsNat DEF Limits
  <2>2. /\ cur \in Timers /\ slot \in Int
        /\ \A t \in Timers : row'[t] = row[t] /\ row[t].runs \in Nat /\ row[t].last \in Int
                             /\ row[t].config.maxRuns \in Nat
    BY <1>1 DEF Types, Locals, Rowed, RowType
  <2>3. CASE ~Claimed(cur, slot) /\ pc' = "mark"
             /\ open' \union closed' = (open \union closed) \union {<<cur, slot>>}
    <3>1. \A t \in Timers : Count(t)' = IF t = cur THEN Count(t) + 1 ELSE Count(t)
      BY <2>3, CountsOneMore
    <3>2. Count(cur)' = Count(cur) + 1 /\ cur' = cur
      BY <1>1, <2>2, <3>1 DEF Count, Of
    <3>3. \A t \in Timers : Capped(t)'
      BY <2>1, <2>2, <3>1 DEF Capped, Ready, Room
    <3>4. \A t \in Timers \ {cur} : Counted(t)'
      BY <2>1, <2>2, <3>1 DEF Counted
    <3>5. Owed'
      BY <1>1, <2>1, <2>2, <3>2 DEF Owed, Ready
    <3> QED BY <2>3, <3>2, <3>3, <3>4, <3>5 DEF Limits
  <2>4. CASE UNCHANGED <<open, closed>> /\ pc' \in {"mark", "ensure"}
    <3>1. \A t \in Timers : Count(t)' = Count(t)
      BY <2>4, CountsSame
    <3>2. Count(cur)' = Count(cur) /\ cur' = cur
      BY <1>1, <2>2, <3>1 DEF Count, Of
    <3>3. \A t \in Timers : Capped(t)' /\ Counted(t)'
      BY <2>1, <2>2, <3>1 DEF Capped, Counted
    <3>4. Owed'
      BY <1>1, <2>1, <2>2, <3>2 DEF Owed, Ready
    <3> QED BY <2>2, <2>4, <3>2, <3>3, <3>4 DEF Limits
  <2> QED BY <1>1, <2>3, <2>4
<1> QED BY <1>2, <1>3 DEF Keeps

LEMMA Marks ==
    ASSUME Types, Mark
    PROVE  Keeps
<1> USE DEF clocks, claims, events, local, work
<1>1. /\ pc = "mark" /\ cur' = cur /\ slot' \in Int /\ slot' >= Never
      /\ UNCHANGED <<wall, at, row, open, closed, todo, manual, then, spent>>
      /\ \/ row[cur].phase = "live" /\ row[cur].last < slot /\ pc' = "marking" /\ heap' = heap
         \/ /\ ~(row[cur].phase = "live" /\ row[cur].last < slot)
            /\ heap' = Requeued(cur) /\ pc' \in {"requeue", "advance", "caught"}
  <2>1. slot \in Int /\ slot >= Never
    BY DEF Types, Locals
  <2>2. pc = "mark" /\ UNCHANGED <<wall, at, row, open, closed, todo, manual, then, spent>>
    BY DEF Mark
  <2>3. CASE row[cur].phase = "live" /\ row[cur].last < slot
    <3>1. Turn("marking", slot) /\ heap' = heap
      BY <2>3 DEF Mark, ReadFor
    <3> QED BY <2>1, <2>2, <2>3, <3>1 DEF Turn
  <2>4. CASE ~(row[cur].phase = "live" /\ row[cur].last < slot)
    <3>1. Delivered /\ heap' = Requeued(cur)
      BY <2>4 DEF Mark
    <3> QED BY <2>2, <2>4, <3>1, Onward
  <2> QED BY <2>3, <2>4
<1>2. Types' /\ (Calm' => Calm)
  <2>1. \A e \in heap' : e[2] \in Timers
    BY <1>1, Heaps DEF Types, Locals
  <2>2. Locals' /\ Rowed'
    BY <1>1, <2>1 DEF Types, Locals, Rowed
  <2> QED BY <1>1, <2>2 DEF Types, Calm
<1>3. ASSUME Limits PROVE Limits'
  <2>1. Owed /\ \A t \in Timers : Capped(t) /\ (t # cur => Counted(t)) /\ Count(t) \in Nat
    BY <1>1, <1>3, CountIsNat DEF Limits
  <2>2. /\ cur \in Timers /\ slot \in Int
        /\ \A t \in Timers : row'[t] = row[t] /\ row[t].runs \in Nat /\ row[t].last \in Int
                             /\ row[t].phase \in {"unborn", "live", "gone"}
    BY <1>1 DEF Types, Locals, Rowed, RowType
  <2>3. \A t \in Timers : Count(t)' = Count(t)
    BY <1>1, CountsSame
  <2>4. Count(cur)' = Count(cur) /\ cur' = cur
    BY <1>1, <2>2, <2>3 DEF Count, Of
  <2>5. \A t \in Timers : Capped(t)' /\ (t # cur => Counted(t)')
    BY <2>1, <2>2, <2>3 DEF Capped, Counted
  <2>6. Owing'
    BY <2>1, <2>2, <2>4 DEF Owing, Owed
  <2>7. CASE pc' = "marking"
    BY <2>4, <2>5, <2>6, <2>7 DEF Limits
  <2>8. CASE ~(row[cur].phase = "live" /\ row[cur].last < slot)
             /\ pc' \in {"requeue", "advance", "caught"}
    <3>1. row[cur].phase # "gone" => Count(cur) <= row[cur].runs
      BY <2>1, <2>2, <2>8 DEF Owed
    <3>2. Counted(cur)'
      BY <2>2, <2>4, <3>1 DEF Counted, Count, Of
    <3> QED BY <2>4, <2>5, <2>8, <3>2 DEF Limits
  <2> QED BY <1>1, <2>7, <2>8
<1> QED BY <1>2, <1>3 DEF Keeps

LEMMA Stops ==
    ASSUME Types, pc' = "stopped", UNCHANGED <<row, work>>,
           UNCHANGED <<wall, at, open, closed, heap, todo, manual, then, spent>>
    PROVE  Keeps
<1>1. Locals'
  BY DEF Types, Locals, work
<1> QED BY <1>1, EndStep

LEMMA Counts ==
    ASSUME Types, MarkFired
    PROVE  Keeps
<1> USE DEF clocks, claims, events, local, work
<1> DEFINE r == row[cur]
           b == [r EXCEPT !.last = slot, !.runs = @ + 1]
<1>1. /\ pc = "marking" /\ WriteBack(b, Delivered)
      /\ UNCHANGED <<wall, at, open, closed, heap, todo, manual, then, spent>>
  BY DEF MarkFired
<1>2. cur \in Timers /\ slot \in Int /\ RowType(r)
  BY DEF Types, Locals, Rowed
<1>3. RowType(b) /\ b.runs = r.runs + 1 /\ b.phase = r.phase /\ b.config = r.config
  BY <1>2, FiredRow
<1> HIDE DEF b
<1>4. CASE Write(cur, b) /\ Delivered
  <2>1. /\ Rowed' /\ \A u \in Timers \ {cur} : row'[u] = row[u]
        /\ row'[cur].runs = r.runs + 1 /\ row'[cur].phase = r.phase /\ row'[cur].config = r.config
    BY <1>2, <1>3, <1>4, WriteRows
  <2>2. cur' = cur /\ pc' \in {"requeue", "advance", "caught"} /\ slot' \in Int /\ slot' >= Never
    BY <1>4, Onward
  <2>3. Types' /\ (Calm' => Calm)
    BY <1>1, <2>1, <2>2 DEF Types, Locals, Calm
  <2>4. ASSUME Limits PROVE Limits'
    <3>1. Owing /\ \A t \in Timers : Capped(t) /\ (t # cur => Counted(t)) /\ Count(t) \in Nat
      BY <1>1, <2>4, CountIsNat DEF Limits
    <3>2. \A t \in Timers : Count(t)' = Count(t)
      BY <1>1, CountsSame
    <3>3. \A t \in Timers : Capped(t)'
      BY <1>2, <2>1, <3>1, <3>2 DEF Capped
    <3>4. \A t \in Timers : Counted(t)'
      BY <1>2, <2>1, <3>1, <3>2 DEF Counted, Owing, RowType
    <3> QED BY <1>2, <2>2, <3>3, <3>4 DEF Limits
  <2> QED BY <2>3, <2>4 DEF Keeps
<1>5. CASE pc' = "stopped" /\ UNCHANGED <<row, work>>
  BY <1>1, <1>5, Stops
<1> QED BY <1>1, <1>4, <1>5 DEF WriteBack

\* The scheduler moves last_fired on and leaves the count.
LEMMA Moved ==
    ASSUME Types, NEW a \in Int, Write(cur, [row[cur] EXCEPT !.last = a])
    PROVE  /\ Rowed' /\ RowsKept /\ row'[cur].last = a
           /\ row'[cur].phase = row[cur].phase
<1> DEFINE r == row[cur]
           b == [r EXCEPT !.last = a]
<1>1. cur \in Timers /\ RowType(r)
  BY DEF Types, Locals, Rowed
<1>2. RowType(b) /\ b.last = a /\ b.runs = r.runs /\ b.phase = r.phase /\ b.config = r.config
  BY <1>1, FiredRow
<1>3. Write(cur, b)
  OBVIOUS
<1> HIDE DEF b
<1>4. /\ Rowed' /\ \A u \in Timers \ {cur} : row'[u] = row[u]
      /\ row'[cur].last = a /\ row'[cur].runs = r.runs
      /\ row'[cur].phase = r.phase /\ row'[cur].config = r.config
  BY <1>1, <1>2, <1>3, WriteRows
<1> QED BY <1>1, <1>4 DEF RowsKept

LEMMA Ensures ==
    ASSUME Types, EnsureAdvanced
    PROVE  Keeps
<1> USE DEF clocks, claims, events, local, work
<1>1. /\ pc = "ensuring"
      /\ UNCHANGED <<wall, at, open, closed, heap, todo, manual, then, spent>>
      /\ WriteBack([row[cur] EXCEPT !.last = slot],
                   IF Overdue(row'[cur], wall) THEN Turn("advance", wall) ELSE Delivered)
  BY DEF EnsureAdvanced
<1>2. CASE /\ Write(cur, [row[cur] EXCEPT !.last = slot])
           /\ Turn("advance", wall) \/ Delivered
  <2>1. slot \in Int
    BY DEF Types, Locals
  <2>2. Rowed' /\ RowsKept
    BY <1>2, <2>1, Moved
  <2>3. cur' = cur /\ pc' \in {"requeue", "advance", "caught"} /\ slot' \in Int /\ slot' >= Never
    BY <1>2, Onward DEF Turn, Types, Locals, Never
  <2>4. Locals'
    BY <1>1, <2>3 DEF Types, Locals
  <2> QED BY <1>1, <2>2, <2>3, <2>4, WrittenStep
<1>3. CASE pc' = "stopped" /\ UNCHANGED <<row, work>>
  BY <1>1, <1>3, Stops
<1> QED BY <1>1, <1>2, <1>3 DEF WriteBack

LEMMA Advances ==
    ASSUME Types, AdvancePastNow
    PROVE  Keeps
<1> USE DEF clocks, claims, events, local, work
<1> DEFINE r == row[cur]
           from == IF r.last # Never THEN r.last ELSE IF r.next # Never THEN r.next - 1 ELSE slot
           walked == IF Exhausted(r) THEN {} ELSE {s \in r.rule : from < s /\ s <= slot}
           anchor == IF walked # {} THEN Latest(walked)
                     ELSE IF r.last # Never THEN r.last ELSE slot
<1>1. /\ pc = "advancing"
      /\ UNCHANGED <<wall, at, open, closed, heap, todo, manual, then, spent>>
      /\ WriteBack([r EXCEPT !.last = anchor], Turn("requeue", 0))
  BY DEF AdvancePastNow
<1>2. cur \in Timers /\ slot \in Int /\ RowType(r)
  BY DEF Types, Locals, Rowed
<1>3. anchor \in Int
  <2>1. walked \subseteq Nat /\ \A s \in walked : s <= slot
    BY <1>2 DEF RowType
  <2> HIDE DEF walked
  <2>2. CASE walked # {}
    <3>1. PICK s \in walked : TRUE
      BY <2>2
    <3>2. slot \in Nat
      BY <1>2, <2>1, <3>1
    <3>3. Latest(walked) \in walked
      BY <2>1, <2>2, <3>2, LatestIsThere
    <3>4. anchor = Latest(walked) /\ Latest(walked) \in Nat
      BY <2>1, <2>2, <3>3
    <3> QED BY <3>4
  <2>3. CASE walked = {}
    BY <1>2, <2>3 DEF RowType
  <2> QED BY <2>2, <2>3
<1> HIDE DEF anchor
<1>4. CASE Write(cur, [r EXCEPT !.last = anchor]) /\ Turn("requeue", 0)
  <2>1. Rowed' /\ RowsKept
    BY <1>3, <1>4, Moved
  <2>2. Locals' /\ pc' = "requeue"
    BY <1>1, <1>4 DEF Turn, Types, Locals, Never
  <2> QED BY <1>1, <2>1, <2>2, WrittenStep
<1>5. CASE pc' = "stopped" /\ UNCHANGED <<row, work>>
  BY <1>1, <1>5, Stops
<1> QED BY <1>1, <1>4, <1>5 DEF WriteBack

\* A next fire that a row names is one that may be claimed.
LEMMA NextMayFire ==
    ASSUME Types, RowsKept, SameClaims, Rowed', Counted(cur), cur' = cur,
           row[cur].phase = "live", slot' = row'[cur].next, row'[cur].next # Never
    PROVE  Ready'
<1> DEFINE q == row'[cur]
<1>1. cur \in Timers /\ Count(cur)' = Count(cur) /\ Count(cur) \in Nat
  BY CountsSame, CountIsNat DEF Types, Locals, SameClaims, Count, Of
<1>2. RowType(q) /\ RowOK(q) /\ q.runs = row[cur].runs /\ q.phase = "live" /\ q.config = row[cur].config
  BY <1>1 DEF Rowed, RowsKept
<1>3. Count(cur) <= q.runs
  BY <1>2 DEF Counted
<1>4. ~Exhausted(q) /\ q.last < q.next
  BY <1>2 DEF RowOK
<1>5. q.config.maxRuns # 0 => Count(cur) < q.config.maxRuns
  BY <1>1, <1>2, <1>3, <1>4 DEF Exhausted, RowType
<1> QED BY <1>1, <1>2, <1>3, <1>4, <1>5 DEF Ready, Room

LEMMA Anchors ==
    ASSUME Types, AnchorLastFired
    PROVE  Keeps
<1> USE DEF clocks, claims, events, local, work
<1>1. /\ pc = "anchoring"
      /\ UNCHANGED <<wall, at, open, closed, heap, todo, manual, then, spent>>
      /\ WriteBack([row[cur] EXCEPT !.last = slot],
                   /\ pc' = IF row'[cur].next > slot THEN "catch" ELSE "requeue"
                   /\ slot' = row'[cur].next
                   /\ UNCHANGED <<cur, index, batch>>)
  BY DEF AnchorLastFired
<1>2. CASE /\ "scheduler" \in fresh /\ row[cur].phase = "live"
           /\ Write(cur, [row[cur] EXCEPT !.last = slot])
           /\ pc' = IF row'[cur].next > slot THEN "catch" ELSE "requeue"
           /\ slot' = row'[cur].next /\ cur' = cur
  <2>1. slot \in Int /\ slot >= Never /\ cur \in Timers
    BY DEF Types, Locals
  <2>2. Rowed' /\ RowsKept
    BY <1>2, <2>1, Moved
  <2>3. row'[cur].next \in Int /\ row'[cur].next >= Never
    BY <2>1, <2>2 DEF Rowed, RowType
  <2>4. Locals'
    BY <1>1, <1>2, <2>3 DEF Types, Locals
  <2>5. pc' \in {"catch", "requeue"} /\ (pc' = "catch" => row'[cur].next # Never)
    BY <1>2, <2>1, <2>3 DEF Never
  <2>6. ASSUME Limits, pc' = "catch" PROVE Ready'
    <3>1. Counted(cur)
      BY <1>1, <2>6 DEF Limits
    <3> QED BY <1>1, <1>2, <2>2, <2>5, <2>6, <3>1, NextMayFire DEF SameClaims
  <2> QED BY <1>1, <2>2, <2>4, <2>5, <2>6, WrittenStep
<1>3. CASE pc' = "stopped" /\ UNCHANGED <<row, work>>
  BY <1>1, <1>3, Stops
<1> QED BY <1>1, <1>2, <1>3 DEF WriteBack

LEMMA CatchUps ==
    ASSUME Types, CatchUp \/ Caught
    PROVE  Keeps
<1> USE DEF clocks, claims, events, local, work
<1>1. CASE CatchUp
  <2>1. /\ pc = "catch" /\ cur' = cur
        /\ UNCHANGED <<wall, at, row, open, closed, heap, todo, manual, then, spent>>
        /\ \/ pc' \in {"requeue", "anchor", "fire"} /\ slot' = slot
           \/ pc' = "advance" /\ slot' = at
    BY <1>1 DEF CatchUp, Leftover, Turn
  <2>2. Locals'
    BY <2>1 DEF Types, Locals, Never
  <2>3. ASSUME Limits, pc' = "fire" PROVE Ready'
    <3>1. Ready /\ slot' = slot
      BY <2>1, <2>3 DEF Limits
    <3>2. Count(cur)' = Count(cur)
      BY <2>1, CountsSame DEF Count, Of
    <3> QED BY <2>1, <3>1, <3>2 DEF Ready, Room
  <2> QED BY <2>1, <2>2, <2>3, QuietStep
<1>2. CASE Caught
  <2>1. /\ pc = "caught" /\ cur' = cur
        /\ UNCHANGED <<wall, at, row, open, closed, todo, manual, then, spent>>
        /\ \/ /\ Overdue(row[cur], at) /\ pc' = "catch" /\ slot' = row[cur].next /\ heap' = heap
           \/ pc' = "requeue" /\ slot' = slot /\ heap' = Requeued(cur)
    BY <1>2 DEF Caught
  <2>2. cur \in Timers /\ row[cur].next \in Int /\ row[cur].next >= Never
    BY DEF Types, Locals, Rowed, RowType
  <2>3. \A e \in heap' : e[2] \in Timers
    BY <2>1, <2>2, Heaps DEF Types, Locals
  <2>4. Locals'
    BY <2>1, <2>2, <2>3 DEF Types, Locals
  <2>5. ASSUME Limits, pc' = "catch" PROVE Ready'
    <3>1. Counted(cur) /\ row[cur].phase = "live" /\ row[cur].next # Never /\ slot' = row[cur].next
      BY <2>1, <2>5 DEF Limits, Overdue
    <3>2. Rowed' /\ RowsKept /\ SameClaims
      BY <2>1 DEF Types, Rowed, RowsKept, SameClaims
    <3> QED BY <2>1, <3>1, <3>2, NextMayFire
  <2> QED BY <2>1, <2>4, <2>5, QuietStep
<1> QED BY <1>1, <1>2

LEMMA ThreadKeeps == ASSUME Types, Thread PROVE Keeps
BY Moves, Reads, Starting, Fires, Marks, Counts, Ensures, Advances, Anchors, CatchUps DEF Thread

-----------------------------------------------------------------------------
(* Everything around the thread *)

\* A timer's row is written on another connection.
LEMMA Written ==
    ASSUME Types, NEW t \in Timers, NEW r, RowType(r), Write(t, r),
           r.config = row[t].config, r.runs >= row[t].runs,
           r.last = row[t].last \/ r.runs >= row[t].runs + 1,
           r.phase = row[t].phase \/ (row[t].phase = "unborn" /\ r.phase = "live")
    PROVE  Rowed' /\ Grown
<1>1. /\ Rowed' /\ \A u \in Timers \ {t} : row'[u] = row[u]
      /\ row'[t].last = r.last /\ row'[t].runs = r.runs
      /\ row'[t].phase = r.phase /\ row'[t].config = r.config
  BY WriteRows
<1>2. \A u \in Timers : row[u].runs \in Nat
  BY DEF Types, Rowed, RowType
<1> QED BY <1>1, <1>2 DEF Grown

LEMMA EnabledRow ==
    ASSUME NEW r, RowType(r), NEW x
    PROVE  LET a == [r EXCEPT !.enabled = x]
           IN  /\ RowType(a) /\ a.last = r.last /\ a.runs = r.runs
               /\ a.phase = r.phase /\ a.config = r.config
<1> DEFINE a == [r EXCEPT !.enabled = x]
<1>1. /\ DOMAIN a = DOMAIN r /\ a.last = r.last /\ a.runs = r.runs /\ a.phase = r.phase
      /\ a.config = r.config /\ a.next = r.next /\ a.rule = r.rule
  BY DEF RowType
<1> HIDE DEF a
<1>2. RowType(a)
  BY <1>1 DEF RowType
<1> QED BY <1>1, <1>2 DEF a

LEMMA PhasedRow ==
    ASSUME NEW r, RowType(r), NEW p \in {"unborn", "live", "gone"}
    PROVE  LET a == [r EXCEPT !.phase = p]
           IN  /\ RowType(a) /\ a.last = r.last /\ a.runs = r.runs
               /\ a.phase = p /\ a.config = r.config /\ a.next = r.next
<1> DEFINE a == [r EXCEPT !.phase = p]
<1>1. /\ DOMAIN a = DOMAIN r /\ a.last = r.last /\ a.runs = r.runs /\ a.phase = p
      /\ a.config = r.config /\ a.next = r.next /\ a.rule = r.rule
  BY DEF RowType
<1> HIDE DEF a
<1>2. RowType(a)
  BY <1>1 DEF RowType
<1> QED BY <1>1, <1>2 DEF a

\* An edit: a row grows, claims and thread stand still.
LEMMA Edits ==
    ASSUME Types, Rowed', Grown, UNCHANGED <<open, closed>>, UNCHANGED <<pc, cur, slot>>,
           UNCHANGED <<wall, at, heap, todo, then>>,
           {"pc", "timer", "at"} \subseteq DOMAIN manual', manual'.timer \in Timers, manual'.at \in Nat,
           spent' \in [EnvEvents -> Nat], Calm' => Calm
    PROVE  Keeps
<1>1. Types'
  BY DEF Types, Locals
<1>2. ASSUME Limits PROVE Limits'
  BY <1>2, OthersStep DEF SameClaims
<1> QED BY <1>1, <1>2 DEF Keeps

LEMMA StillRows == ASSUME Types, row' = row PROVE Rowed' /\ Grown
<1>1. \A t \in Timers : row[t].runs \in Nat
  BY DEF Types, Rowed, RowType
<1> QED BY <1>1 DEF Types, Rowed, Grown

LEMMA UserEdits ==
    ASSUME Types, SetEnabled \/ Create \/ Delete
    PROVE  Keeps
<1> USE DEF clocks, claims, events, local, work, scheduler
<1>1. /\ Happens("edit") /\ UNCHANGED <<open, closed>> /\ UNCHANGED <<pc, cur, slot>>
      /\ UNCHANGED <<wall, at, heap, todo, then>> /\ manual' = manual
  BY DEF SetEnabled, Create, Delete, Foreign
<1>2. spent' \in [EnvEvents -> Nat] /\ (Calm' => Calm)
  <2>1. "edit" \in EnvEvents
    BY DEF EnvEvents
  <2> QED BY <1>1, <2>1, Counting
<1>3. {"pc", "timer", "at"} \subseteq DOMAIN manual' /\ manual'.timer \in Timers /\ manual'.at \in Nat
  BY <1>1 DEF Types, Locals
<1>4. Rowed' /\ Grown
  <2>1. CASE SetEnabled
    <3>1. PICK t \in Timers : Write(t, [row[t] EXCEPT !.enabled = ~row[t].enabled])
      BY <2>1 DEF SetEnabled
    <3> DEFINE x == ~row[t].enabled
               a == [row[t] EXCEPT !.enabled = x]
    <3>2. RowType(row[t])
      BY DEF Types, Rowed
    <3> HIDE DEF x
    <3>3. /\ RowType(a) /\ a.last = row[t].last /\ a.runs = row[t].runs /\ a.phase = row[t].phase
          /\ a.config = row[t].config
      BY <3>2, EnabledRow
    <3>4. Write(t, a) /\ row[t].runs \in Nat
      BY <3>1, <3>2 DEF RowType, x
    <3> HIDE DEF a
    <3> QED BY <3>3, <3>4, Written
  <2>2. CASE Create
    <3>1. PICK t \in Timers : row[t].phase = "unborn" /\ Write(t, [row[t] EXCEPT !.phase = "live"])
      BY <2>2 DEF Create
    <3> DEFINE a == [row[t] EXCEPT !.phase = "live"]
    <3>2. RowType(row[t])
      BY DEF Types, Rowed
    <3>3. /\ RowType(a) /\ a.last = row[t].last /\ a.runs = row[t].runs /\ a.phase = "live"
          /\ a.config = row[t].config
      BY <3>2, PhasedRow
    <3>4. Write(t, a) /\ row[t].runs \in Nat /\ row[t].phase = "unborn"
      BY <3>1, <3>2 DEF RowType
    <3> HIDE DEF a
    <3> QED BY <3>3, <3>4, Written
  <2>3. CASE Delete
    <3>1. PICK t \in Timers : row' = [row EXCEPT ![t].phase = "gone"]
      BY <2>3 DEF Delete
    <3> DEFINE a == [row[t] EXCEPT !.phase = "gone"]
    <3>2. RowType(row[t]) /\ RowOK(row[t]) /\ DOMAIN row = Timers
      BY DEF Types, Rowed
    <3>3. /\ RowType(a) /\ a.last = row[t].last /\ a.runs = row[t].runs /\ a.phase = "gone"
          /\ a.config = row[t].config /\ a.next = row[t].next
      BY <3>2, PhasedRow
    <3>4. DOMAIN row' = Timers /\ row'[t] = a /\ \A u \in Timers \ {t} : row'[u] = row[u]
      BY <3>1, <3>2
    <3>5. a.rule = row[t].rule
      BY <3>2 DEF RowType
    <3> HIDE DEF a
    <3>6. RowOK(a)
      BY <3>2, <3>3, <3>5 DEF RowOK, Exhausted
    <3>7. \A u \in Timers : row[u].runs \in Nat /\ RowType(row[u]) /\ RowOK(row[u])
      BY DEF Types, Rowed, RowType
    <3> QED BY <3>3, <3>4, <3>6, <3>7 DEF Rowed, Grown
  <2> QED BY <2>1, <2>2, <2>3
<1> QED BY <1>1, <1>2, <1>3, <1>4, Edits

LEMMA ManualRuns ==
    ASSUME Types, ManualRead \/ ManualFire \/ ManualMark
    PROVE  Keeps
<1> USE DEF clocks, claims, events, local, work, scheduler
<1>1. /\ UNCHANGED <<open, closed>> /\ UNCHANGED <<pc, cur, slot>>
      /\ UNCHANGED <<wall, at, heap, todo, then>>
  BY DEF ManualRead, ManualFire, ManualMark
<1>2. spent' \in [EnvEvents -> Nat] /\ (Calm' => Calm)
  <2>1. "manual" \in EnvEvents
    BY DEF EnvEvents
  <2>2. CASE Happens("manual")
    BY <2>1, <2>2, Counting
  <2>3. CASE spent' = spent
    BY <2>3 DEF Types, Calm
  <2> QED BY <2>2, <2>3 DEF ManualRead, ManualFire, ManualMark
<1>3. {"pc", "timer", "at"} \subseteq DOMAIN manual' /\ manual'.timer \in Timers /\ manual'.at \in Nat
  <2>1. CASE ManualRead
    BY <2>1 DEF ManualRead, Types, Locals
  <2>2. CASE ManualFire
    BY <2>2 DEF ManualFire, Types, Locals
  <2>3. CASE ManualMark
    BY <2>3 DEF ManualMark, Types, Locals
  <2> QED BY <2>1, <2>2, <2>3
<1>4. Rowed' /\ Grown
  <2>1. CASE row' = row
    BY <2>1, StillRows
  <2>2. CASE ManualMark /\ row' # row
    <3> DEFINE t == manual.timer
               b == [row[t] EXCEPT !.last = manual.at, !.runs = @ + 1]
    <3>1. Write(t, b)
      BY <2>2 DEF ManualMark
    <3>2. t \in Timers /\ manual.at \in Int /\ RowType(row[t]) /\ row[t].runs \in Nat
      BY DEF Types, Locals, Rowed, RowType
    <3>3. RowType(b) /\ b.runs = row[t].runs + 1 /\ b.phase = row[t].phase /\ b.config = row[t].config
      BY <3>2, FiredRow
    <3> HIDE DEF b, t
    <3> QED BY <3>1, <3>2, <3>3, Written
  <2> QED BY <2>1, <2>2 DEF ManualRead, ManualFire, ManualMark
<1> QED BY <1>1, <1>2, <1>3, <1>4, Edits

\* Time, the pause, and the dispatcher.
LEMMA Surroundings ==
    ASSUME Types, Pass \/ SetClock \/ SendPause \/ Finish
    PROVE  Keeps
<1> USE DEF clocks, claims, events, local, work, scheduler
<1>1. /\ UNCHANGED <<pc, cur, slot>> /\ UNCHANGED <<row, at, heap, todo, then, manual>>
      /\ wall' \in Nat
  <2>1. MaxTime \in Nat /\ wall \in Nat
    BY LimitsAssumption DEF Types, Locals
  <2>2. CASE SetClock
    BY <2>1, <2>2 DEF SetClock, Instants
  <2>3. CASE Pass
    BY <2>1, <2>3 DEF Pass
  <2>4. CASE SendPause
    BY <2>1, <2>4 DEF SendPause
  <2>5. CASE Finish
    BY <2>1, <2>5 DEF Finish
  <2> QED BY <2>2, <2>3, <2>4, <2>5
<1>2. spent' \in [EnvEvents -> Nat] /\ (Calm' => Calm)
  <2>1. "clock" \in EnvEvents /\ "pause" \in EnvEvents
    BY DEF EnvEvents
  <2>2. CASE Happens("clock") \/ Happens("pause")
    BY <2>1, <2>2, Counting
  <2>3. CASE spent' = spent
    BY <2>3 DEF Types, Calm
  <2> QED BY <2>2, <2>3 DEF Pass, SetClock, SendPause, Finish
<1>3. SameClaims /\ IsFiniteSet(open') /\ IsFiniteSet(closed')
  <2>1. CASE Finish
    <3>1. PICK c \in open : open' = open \ {c} /\ closed' = closed \union {c}
      BY <2>1 DEF Finish
    <3>2. IsFiniteSet(open') /\ IsFiniteSet(closed')
      BY <3>1, FS_AddElement, FS_RemoveElement DEF Types
    <3>3. open' \union closed' = open \union closed
      BY <3>1
    <3> QED BY <3>2, <3>3 DEF SameClaims
  <2>2. CASE UNCHANGED <<open, closed>>
    BY <2>2 DEF Types, SameClaims
  <2> QED BY <2>1, <2>2 DEF Pass, SetClock, SendPause, Finish
<1>4. Rowed' /\ Grown
  BY <1>1, StillRows
<1>5. Types'
  BY <1>1, <1>2, <1>3, <1>4 DEF Types, Locals
<1>6. ASSUME Limits PROVE Limits'
  BY <1>1, <1>3, <1>4, <1>6, OthersStep
<1> QED BY <1>2, <1>5, <1>6 DEF Keeps

\* A restart and a new rule give the count up.
LEMMA Upsets ==
    ASSUME Types, SendShutdown \/ ChangeRule \/ Crash
    PROVE  Types' /\ ~Calm'
<1> USE DEF clocks, claims, events, local, work, scheduler
<1>1. spent' \in [EnvEvents -> Nat] /\ ~Calm'
  <2>1. {"crash", "rule"} \subseteq EnvEvents
    BY DEF EnvEvents
  <2>2. Happens("crash") \/ Happens("rule")
    BY DEF SendShutdown, ChangeRule, Crash
  <2> QED BY <2>1, <2>2, Counting
<1>2. CASE SendShutdown
  BY <1>1, <1>2 DEF SendShutdown, Types, Locals, Rowed
<1>3. CASE Crash
  BY <1>1, <1>3 DEF Crash, Types, Locals, Rowed, Never
<1>4. CASE ChangeRule
  <2>1. PICK t \in Timers, rule \in Rules : Write(t, [row[t] EXCEPT !.rule = rule, !.runs = 0])
    BY <1>4 DEF ChangeRule
  <2> DEFINE a == [row[t] EXCEPT !.rule = rule, !.runs = 0]
  <2>2. RowType(row[t]) /\ rule \subseteq Nat /\ rule \subseteq Slots
    BY RulesAssumption DEF Types, Rowed, Slots
  <2>3. /\ DOMAIN a = DOMAIN row[t] /\ a.last = row[t].last /\ a.runs = 0 /\ a.phase = row[t].phase
        /\ a.config = row[t].config /\ a.next = row[t].next /\ a.rule = rule
    BY <2>2 DEF RowType
  <2>4. Write(t, a)
    BY <2>1
  <2> HIDE DEF a
  <2>5. RowType(a)
    BY <2>2, <2>3 DEF RowType
  <2>6. Rowed'
    BY <2>4, <2>5, WriteRows
  <2>7. UNCHANGED <<wall, at, slot, cur, todo, heap, manual, then, open, closed>>
    BY <1>4 DEF ChangeRule, Foreign
  <2>8. Locals'
    BY <2>7 DEF Types, Locals
  <2> QED BY <1>1, <2>6, <2>7, <2>8 DEF Types
<1> QED BY <1>1, <1>2, <1>3, <1>4

-----------------------------------------------------------------------------
(* The invariant *)

LEMMA InitInv == Init => Inv
<1> SUFFICES ASSUME Init PROVE Inv
  OBVIOUS
<1>1. PICK start \in Starts :
        row = [t \in Timers |->
                 [phase |-> start[t].phase, config |-> start[t].config, enabled |-> TRUE,
                  rule |-> start[t].rule, last |-> Never, runs |-> 0,
                  next |-> Earliest({s \in start[t].rule : s > 0})]]
  BY DEF Init
<1>2. Locals
  BY DEF Init, Locals, Never
<1>3. \A t \in Timers : RowType(row[t]) /\ RowOK(row[t]) /\ row[t].runs = 0
  <2> SUFFICES ASSUME NEW t \in Timers
               PROVE  RowType(row[t]) /\ RowOK(row[t]) /\ row[t].runs = 0
    OBVIOUS
  <2> DEFINE later == {s \in start[t].rule : s > 0}
  <2>1. start[t] \in [phase : {"live", "unborn"}, rule : Rules, config : Configs]
    BY StartsAssumption
  <2>2. /\ start[t].phase \in {"live", "unborn"} /\ start[t].rule \subseteq Nat
        /\ start[t].rule \subseteq Slots /\ start[t].config.maxRuns \in Nat
    BY <2>1, RulesAssumption DEF Configs, Slots
  <2>3. later = {} \/ Earliest(later) \in later
    <3>1. later \subseteq Nat
      BY <2>2
    <3> QED BY <3>1, SmallestMember DEF Earliest
  <2>4. /\ Earliest(later) \in Int /\ Earliest(later) >= Never
        /\ Earliest(later) # Never => Earliest(later) \in start[t].rule /\ Earliest(later) > 0
    BY <2>2, <2>3 DEF Earliest, Never
  <2> HIDE DEF later
  <2>5. row[t] = [phase |-> start[t].phase, config |-> start[t].config, enabled |-> TRUE,
                  rule |-> start[t].rule, last |-> Never, runs |-> 0, next |-> Earliest(later)]
    BY <1>1 DEF later
  <2>6. /\ {"phase", "config", "rule", "next", "last", "runs"} \subseteq DOMAIN row[t]
        /\ row[t].phase = start[t].phase /\ row[t].config = start[t].config
        /\ row[t].rule = start[t].rule /\ row[t].last = Never /\ row[t].runs = 0
        /\ row[t].next = Earliest(later)
    BY <2>5
  <2>7. RowType(row[t])
    BY <2>2, <2>4, <2>6 DEF RowType, Never
  <2>8. RowOK(row[t])
    BY <2>2, <2>4, <2>6 DEF RowOK, Exhausted, Never
  <2> QED BY <2>6, <2>7, <2>8
<1>4. IsFiniteSet(open) /\ IsFiniteSet(closed) /\ spent \in [EnvEvents -> Nat]
  BY FS_EmptySet DEF Init
<1>5. Types
  BY <1>1, <1>2, <1>3, <1>4 DEF Types, Rowed
<1>6. \A t \in Timers : Count(t) = 0
  <2>1. \A t \in Timers : Of(t) = {}
    BY DEF Of, Init
  <2> QED BY <2>1, FS_EmptySet DEF Count
<1>7. \A t \in Timers : Capped(t) /\ Counted(t)
  BY <1>3, <1>6 DEF Capped, Counted, RowType
<1>8. pc = "down" /\ cur \in Timers
  BY DEF Init
<1> QED BY <1>5, <1>7, <1>8 DEF Inv, Limits

LEMMA InvStep == Inv /\ [Next]_vars => Inv'
<1> SUFFICES ASSUME Inv, [Next]_vars PROVE Inv'
  OBVIOUS
<1>1. Types
  BY DEF Inv
<1>2. CASE Keeps
  BY <1>2 DEF Inv, Keeps
<1>3. CASE Types' /\ ~Calm'
  BY <1>3 DEF Inv
<1>4. CASE Thread
  BY <1>1, <1>2, <1>4, ThreadKeeps
<1>5. CASE Environment
  BY <1>1, <1>2, <1>3, <1>5, UserEdits, ManualRuns, Surroundings, Upsets DEF Environment
<1>6. CASE UNCHANGED vars
  <2>1. /\ UNCHANGED <<pc, cur, slot, row, open, closed, spent>>
        /\ UNCHANGED <<wall, at, heap, todo, then, manual>>
    BY <1>6 DEF vars, clocks, claims, events, local, work
  <2>2. Rowed' /\ Grown
    BY <1>1, <2>1, StillRows
  <2> QED BY <1>1, <1>2, <2>1, <2>2, Edits DEF Types, Locals, Calm
<1> QED BY <1>4, <1>5, <1>6 DEF Next

LEMMA InvLimits == Inv => MaxRunsKept
<1> SUFFICES ASSUME Inv, NEW t \in Timers, row[t].config.maxRuns # 0,
                    spent["crash"] = 0, spent["rule"] = 0
             PROVE  Cardinality({c \in open \union closed : c[1] = t}) <= row[t].config.maxRuns
  BY DEF MaxRunsKept
<1>1. Capped(t)
  BY DEF Inv, Calm, Limits
<1> QED BY <1>1 DEF Capped, Count, Of

\* max_runs, "stop after this many delivered runs", bounds the claims of a timer
\* for every set of timers and rules, every misfire policy, all clock steps, edits
\* and manual runs, unless the process restarts or the rule is changed.
THEOREM MaxRunsAreKept == Spec => []MaxRunsKept
<1>1. Init => Inv
  BY InitInv
<1>2. Inv /\ [Next]_vars => Inv'
  BY InvStep
<1>3. Inv => MaxRunsKept
  BY InvLimits
<1> QED BY <1>1, <1>2, <1>3, PTL DEF Spec

-----------------------------------------------------------------------------
(* The heap *)

Handling == {"fire", "mark", "marking", "ensure", "ensuring", "requeue", "advance", "advancing",
             "catch", "anchor", "anchoring", "caught"}
Wanted(t) == row[t].phase = "live" /\ row[t].enabled /\ row[t].next # Never

\* How far the heap has seen: every push looked up to the horizon from its own `now`.  What the
\* monotonic clock has counted since, and each step of the wall clock, takes from that.
Charge(lag) == lag * (spent["clock"] - (IF drift > 0 THEN 1 ELSE 0))
Reach(lag) == wall - drift + Horizon - age - Charge(lag)

\* A timer is queued for its next slot, or that is beyond what the heap has seen; one the drain has
\* resolved is queued for later.
Far(t, lag) == ExecAt(t, row[t].next) > Reach(lag)
Queued(t, lag) ==
    Wanted(t) => Far(t, lag) \/ \E e \in heap : e[2] = t /\ e[1] <= ExecAt(t, row[t].next)
Ahead(t, lag) ==
    Wanted(t) => Far(t, lag) \/ \E e \in heap : e[2] = t /\ at < e[1] /\ e[1] <= ExecAt(t, row[t].next)
Safe(t, lag) ==
    /\ Queued(t, lag)
    /\ pc \in Handling \union {"drain"} /\ t \in resolved => Ahead(t, lag)

\* The heap answers for the rows as they are.
Guarded == ~foreign /\ age < Floor /\ then = "drain" /\ pc \notin {"down", "stopped", "rebuild", "scan"}

\* The timer in hand: its slot, and that it leaves with a later one.
Held ==
    /\ cur \in resolved
    /\ row[cur].config.misfire = "skip" /\ pc \in {"fire", "mark", "marking", "ensure", "ensuring"} => slot = at
    /\ row[cur].config.misfire = "skip" => pc \notin {"catch", "anchor", "anchoring", "caught"}
    /\ pc \in {"advance", "advancing"} => slot >= at
    /\ pc = "requeue" /\ Wanted(cur) => row[cur].next > at

Tuned(jitter) ==
    /\ \A t \in Timers : /\ \A s \in Slots : row[t].config.jitter[s] \in 0..jitter
                         /\ row[t].config.misfire = "skip" => row[t].config.every = 0
    /\ \A e \in heap : e[1] \in Int
Clocks(lag) ==
    /\ drift \in Int /\ age \in Nat
    /\ spent["clock"] <= Budget["clock"]
    /\ 0 <= drift + lag * spent["clock"] /\ (drift > 0 => spent["clock"] > 0)
Places ==
    /\ pc \in {"asleep", "check", "tick", "drain"} => then = "drain"
    /\ pc = "rebuild" => then \in {"asleep", "check", "tick", "drain"}
    /\ pc = "scan" => then \in {"boot", "jump"}
    /\ pc \in Handling => then \in {"boot", "jump", "drain"}
    /\ pc \in Handling \union {"scan", "drain"} => at <= wall

Seen(lag) ==
    Guarded => /\ \A t \in Timers : (pc \in Handling /\ t = cur) \/ Safe(t, lag)
               /\ pc \in Handling => Held
HeapInv(lag, jitter) == Tuned(jitter) /\ Clocks(lag) /\ Places /\ Seen(lag)

-----------------------------------------------------------------------------
(* What the clocks do to it *)

LEMMA Charged ==
    ASSUME NEW lag \in Nat, NEW n \in Nat
    PROVE  lag * n \in Nat /\ lag * (n + 1) = lag * n + lag /\ (n > 0 => lag * (n - 1) = lag * n - lag)
OBVIOUS

LEMMA ReachIsInt ==
    ASSUME Types, NEW lag \in Nat, Clocks(lag)
    PROVE  /\ spent["clock"] \in Nat /\ lag * spent["clock"] \in Nat /\ Reach(lag) \in Int
           /\ Charge(lag) = IF drift > 0 THEN lag * spent["clock"] - lag ELSE lag * spent["clock"]
           /\ Reach(lag) <= wall + Horizon
<1> DEFINE n == spent["clock"]
<1>1. n \in Nat
  BY DEF Types, EnvEvents
<1>2. lag * n \in Nat
  BY <1>1, Charged
<1>3. Charge(lag) = IF drift > 0 THEN lag * n - lag ELSE lag * n
  <2>1. CASE drift > 0
    <3>1. n > 0 /\ Charge(lag) = lag * (n - 1)
      BY <2>1 DEF Clocks, Charge
    <3> QED BY <1>1, <2>1, <3>1, Charged
  <2>2. CASE ~(drift > 0)
    BY <1>1, <2>2 DEF Charge
  <2> QED BY <2>1, <2>2
<1>4. drift > 0 => lag * n >= lag
  <2> SUFFICES ASSUME drift > 0 PROVE lag * n >= lag
    OBVIOUS
  <2>1. n - 1 \in Nat
    BY <1>1 DEF Clocks
  <2>2. lag * (n - 1) \in Nat
    BY <2>1, Charged
  <2> QED BY <1>1, <1>2, <2>1, <2>2, Charged
<1>5. Horizon \in Nat /\ wall \in Nat /\ drift \in Int /\ age \in Nat /\ 0 <= drift + lag * n
  BY LimitsAssumption DEF Types, Locals, Clocks
<1> QED BY <1>1, <1>2, <1>3, <1>4, <1>5 DEF Reach

LEMMA SameReach ==
    ASSUME NEW lag, UNCHANGED <<wall, drift, age>>, spent'["clock"] = spent["clock"]
    PROVE  Reach(lag)' = Reach(lag) /\ (Clocks(lag) => Clocks(lag)')
BY DEF Reach, Charge, Clocks

LEMMA PassReach ==
    ASSUME Types, Types', NEW lag \in Nat, Clocks(lag), Pass
    PROVE  Clocks(lag)' /\ (age' < Floor => age < Floor /\ Reach(lag)' <= Reach(lag))
<1>1. /\ wall' \in Nat /\ wall \in Nat /\ wall' <= wall + 1 /\ drift' = drift /\ spent' = spent
      /\ age' = IF age < Floor THEN age + 1 ELSE age
  BY LimitsAssumption DEF Pass, Types, Locals
<1>2. age \in Nat /\ Floor \in Nat /\ drift \in Int /\ Horizon \in Nat
  BY LimitsAssumption DEF Clocks
<1>3. Charge(lag)' = Charge(lag) /\ Charge(lag) \in Int
  BY <1>1, ReachIsInt DEF Charge
<1>4. Clocks(lag)'
  BY <1>1, <1>2 DEF Clocks
<1>5. PICK c \in Int : c = Charge(lag) /\ c = Charge(lag)'
  BY <1>3
<1>6. /\ Reach(lag) = wall - drift + Horizon - age - c
      /\ Reach(lag)' = wall' - drift + Horizon - age' - c
  BY <1>1, <1>5 DEF Reach
<1>7. age' < Floor => age < Floor /\ age' = age + 1
  BY <1>1, <1>2
<1> QED BY <1>1, <1>2, <1>4, <1>5, <1>6, <1>7

LEMMA StepReach ==
    ASSUME Types, Types', NEW lag \in Nat, Clocks(lag), SetClock, \A d \in Steps : 0 <= d + lag
    PROVE  Clocks(lag)' /\ age' = age /\ Reach(lag)' <= Reach(lag)
<1> DEFINE n == spent["clock"]
<1>1. PICK d \in Steps : wall' = wall + d /\ drift' = drift + d
  BY DEF SetClock
<1>2. /\ spent'["clock"] = n + 1 /\ n < Budget["clock"] /\ age' = age
      /\ n \in Nat /\ Budget["clock"] \in Nat
  BY BoundsAssumption DEF SetClock, Happens, Types, EnvEvents
<1>3. d \in Int /\ drift \in Int /\ age \in Nat /\ wall \in Nat /\ Horizon \in Nat /\ 0 <= d + lag
  BY ClockAssumption, LimitsAssumption DEF Clocks, Types, Locals
<1>4. lag * n \in Nat /\ lag * (n + 1) = lag * n + lag
  BY <1>2, Charged
<1>5. Clocks(lag)'
  BY <1>1, <1>2, <1>3, <1>4 DEF Clocks
<1>6. Charge(lag)' = IF drift' > 0 THEN lag * n ELSE lag * n + lag
  <2>1. Charge(lag)' = lag * ((n + 1) - (IF drift' > 0 THEN 1 ELSE 0))
    BY <1>2 DEF Charge
  <2>2. (n + 1) - 1 = n /\ (n + 1) - 0 = n + 1
    BY <1>2
  <2>3. CASE drift' > 0
    <3>1. Charge(lag)' = lag * ((n + 1) - 1)
      BY <2>1, <2>3
    <3> QED BY <2>2, <2>3, <3>1
  <2>4. CASE ~(drift' > 0)
    <3>1. Charge(lag)' = lag * ((n + 1) - 0)
      BY <2>1, <2>4
    <3> QED BY <1>4, <2>2, <2>4, <3>1
  <2> QED BY <2>3, <2>4
<1>7. Charge(lag) = IF drift > 0 THEN lag * n - lag ELSE lag * n
  BY ReachIsInt
<1>8. PICK c \in Int, e \in Int : c = Charge(lag) /\ e = Charge(lag)' /\ c <= e
  <2>1. PICK p \in Nat : p = lag * n
    BY <1>4
  <2>2. /\ Charge(lag) = IF drift > 0 THEN p - lag ELSE p
        /\ Charge(lag)' = IF drift' > 0 THEN p ELSE p + lag
    BY <1>6, <1>7, <2>1
  <2> QED BY <2>2
<1>9. /\ Reach(lag) = wall - drift + Horizon - age - c
      /\ Reach(lag)' = (wall + d) - (drift + d) + Horizon - age - e
  BY <1>1, <1>2, <1>8 DEF Reach
<1> QED BY <1>2, <1>3, <1>5, <1>8, <1>9

LEMMA TickReach ==
    ASSUME Types, NEW lag \in Nat, Clocks(lag), UNCHANGED <<wall, age, spent>>, drift' = 0
    PROVE  /\ Clocks(lag)'
           /\ Absolute(drift) <= Jump /\ Jump <= lag => Reach(lag)' <= Reach(lag)
<1> DEFINE n == spent["clock"]
<1>1. n \in Nat /\ lag * n \in Nat /\ Charge(lag) = IF drift > 0 THEN lag * n - lag ELSE lag * n
  BY ReachIsInt
<1>2. drift \in Int /\ age \in Nat /\ wall \in Nat /\ Horizon \in Nat /\ Jump \in Nat
  BY LimitsAssumption DEF Clocks, Types, Locals
<1>3. Clocks(lag)'
  BY <1>1, <1>2 DEF Clocks
<1>4. Charge(lag)' = lag * n
  <2>1. Charge(lag)' = lag * (n - 0) /\ n - 0 = n
    BY <1>1 DEF Charge
  <2> QED BY <2>1
<1>5. Absolute(drift) <= Jump /\ Jump <= lag => Reach(lag)' <= Reach(lag)
  <2>1. drift > 0 => Absolute(drift) = drift
    BY <1>2 DEF Absolute
  <2> QED BY <1>1, <1>2, <1>4, <2>1 DEF Reach
<1> QED BY <1>3, <1>5

-----------------------------------------------------------------------------
(* Timers that stay queued *)

LEMMA ExecIsInt ==
    ASSUME Types, NEW jitter \in Nat, Tuned(jitter), NEW t \in Timers
    PROVE  /\ row[t].next \in Int
           /\ row[t].next # Never => /\ ExecAt(t, row[t].next) \in Int
                                    /\ row[t].next <= ExecAt(t, row[t].next)
                                    /\ ExecAt(t, row[t].next) <= row[t].next + jitter
<1>1. /\ row[t].next \in Int
      /\ row[t].next # Never => row[t].next \in Slots
  BY DEF Types, Rowed, RowType, RowOK
<1>2. row[t].next # Never => row[t].config.jitter[row[t].next] \in 0..jitter
  BY <1>1 DEF Tuned
<1> QED BY <1>1, <1>2 DEF ExecAt

LEMMA SafeStays ==
    ASSUME NEW lag, NEW t, row'[t] = row[t], Wanted(t) => ExecAt(t, row[t].next) \in Int,
           \A e \in heap : e[2] = t => e \in heap',
           Reach(lag) \in Int, Reach(lag)' \in Int, Reach(lag)' <= Reach(lag)
    PROVE  /\ Queued(t, lag) => Queued(t, lag)'
           /\ at' = at /\ Ahead(t, lag) => Ahead(t, lag)'
<1>1. ExecAt(t, row[t].next)' = ExecAt(t, row[t].next) /\ Wanted(t)' = Wanted(t)
  BY DEF ExecAt, Wanted
<1>2. Wanted(t) /\ Far(t, lag) => Far(t, lag)'
  BY <1>1 DEF Far
<1> QED BY <1>1, <1>2 DEF Queued, Ahead

\* A push is for the next slot, or that is beyond the horizon.
LEMMA PushedIsSafe ==
    ASSUME Types, NEW lag \in Nat, NEW jitter \in Nat, Clocks(lag), Tuned(jitter), NEW t \in Timers,
           row'[t] = row[t], UNCHANGED <<wall, drift, age, at>>, spent' = spent,
           Wanted(t) => row[t].next > at /\ Pushed(t, row[t].next) \subseteq heap'
    PROVE  Queued(t, lag)' /\ Ahead(t, lag)'
<1> DEFINE x == ExecAt(t, row[t].next)
<1>1. row[t].next \in Int /\ (Wanted(t) => x \in Int /\ row[t].next <= x)
  BY ExecIsInt DEF Wanted
<1>2. ExecAt(t, row[t].next)' = x /\ Wanted(t)' = Wanted(t)
  BY DEF ExecAt, Wanted
<1>3. Reach(lag)' = Reach(lag) /\ Reach(lag) \in Int /\ Reach(lag) <= wall + Horizon
  BY SameReach, ReachIsInt
<1>4. wall \in Nat /\ at \in Nat /\ Horizon \in Nat
  BY LimitsAssumption DEF Types, Locals
<1> HIDE DEF x
<1>5. ASSUME Wanted(t), x > wall + Horizon PROVE Far(t, lag)'
  BY <1>1, <1>2, <1>3, <1>4, <1>5 DEF Far
<1>6. ASSUME Wanted(t), ~(x > wall + Horizon)
      PROVE  <<x, t>> \in heap' /\ at' < x
  <2>1. <<x, t>> \in Pushed(t, row[t].next)
    BY <1>1, <1>4, <1>6 DEF Pushed, x
  <2> QED BY <1>1, <1>4, <1>6, <2>1
<1>7. Wanted(t) => x <= x
  BY <1>1
<1> QED BY <1>2, <1>5, <1>6, <1>7 DEF Queued, Ahead

\* A rebuild queues every timer.
LEMMA RebuiltIsSafe ==
    ASSUME Types, NEW lag \in Nat, NEW jitter \in Nat, Clocks(lag), Tuned(jitter),
           row' = row, UNCHANGED <<wall, drift, age>>, spent' = spent, heap' = Rebuilt, NEW t \in Timers
    PROVE  Queued(t, lag)'
<1> DEFINE x == ExecAt(t, row[t].next)
<1>1. row[t].next \in Int /\ (Wanted(t) => x \in Int /\ row[t].next <= x)
  BY ExecIsInt DEF Wanted
<1>2. ExecAt(t, row[t].next)' = x /\ Wanted(t)' = Wanted(t)
  BY DEF ExecAt, Wanted
<1>3. Reach(lag)' = Reach(lag) /\ Reach(lag) \in Int /\ Reach(lag) <= wall + Horizon
  BY SameReach, ReachIsInt
<1>4. wall \in Nat /\ Horizon \in Nat
  BY LimitsAssumption DEF Types, Locals
<1>5. ASSUME Wanted(t), row[t].next <= wall + Horizon PROVE <<x, t>> \in heap'
  BY <1>5 DEF Rebuilt, Wanted
<1> HIDE DEF x
<1>6. ASSUME Wanted(t), ~(row[t].next <= wall + Horizon) PROVE Far(t, lag)'
  BY <1>1, <1>2, <1>3, <1>4, <1>6 DEF Far
<1>7. Wanted(t) => x <= x
  BY <1>1
<1> QED BY <1>2, <1>5, <1>6, <1>7 DEF Queued

\* What is pushed is a time.
LEMMA PushedTimes ==
    ASSUME Types, NEW jitter \in Nat, Tuned(jitter)
    PROVE  /\ \A t \in Timers : \A e \in Requeued(t) : e[1] \in Int
           /\ \A e \in Rebuilt : e[1] \in Int
<1>1. ASSUME NEW t \in Timers, NEW e \in Requeued(t) PROVE e[1] \in Int
  <2>1. e \in heap \/ (e = <<ExecAt(t, row[t].next), t>> /\ row[t].next # Never)
    BY <1>1 DEF Requeued, Pushed
  <2>2. CASE e \in heap
    BY <2>2 DEF Tuned
  <2>3. CASE e = <<ExecAt(t, row[t].next), t>> /\ row[t].next # Never
    BY <2>3, ExecIsInt
  <2> QED BY <2>1, <2>2, <2>3
<1>2. ASSUME NEW e \in Rebuilt PROVE e[1] \in Int
  <2>1. PICK t \in Timers : e = <<ExecAt(t, row[t].next), t>> /\ row[t].next # Never
    BY <1>2 DEF Rebuilt
  <2> QED BY <2>1, ExecIsInt
<1> QED BY <1>1, <1>2

-----------------------------------------------------------------------------
(* Kinds of steps *)

ConfigsKept == \A t \in Timers : row'[t].config = row[t].config

\* The thread leaves the part the heap answers for.
LEMMA Unguarded ==
    ASSUME NEW lag, NEW jitter, Tuned(jitter), ConfigsKept, Clocks(lag)', ~Guarded', Places',
           \A e \in heap' : e[1] \in Int
    PROVE  HeapInv(lag, jitter)'
<1>1. Tuned(jitter)'
  BY DEF Tuned, ConfigsKept
<1> QED BY <1>1 DEF HeapInv, Seen

\* A step around the thread.
LEMMA AroundStep ==
    ASSUME Types, NEW lag \in Nat, NEW jitter \in Nat, HeapInv(lag, jitter),
           ConfigsKept, Clocks(lag)', Reach(lag)' \in Int,
           UNCHANGED <<heap, at, resolved, cur, slot, pc, then>>,
           wall' < wall => pc \in {"asleep", "down", "stopped"}, wall' \in Int,
           foreign' \/ (foreign' = foreign /\ row' = row),
           age' < Floor => age < Floor /\ Reach(lag)' <= Reach(lag)
    PROVE  HeapInv(lag, jitter)'
<1>1. Tuned(jitter)'
  BY DEF Tuned, ConfigsKept, HeapInv
<1>2. Places'
  BY DEF HeapInv, Places, Types, Locals, Handling
<1>3. ASSUME Guarded' PROVE Guarded /\ row' = row /\ Reach(lag)' <= Reach(lag)
  BY <1>3 DEF Guarded
<1>4. Reach(lag) \in Int
  BY ReachIsInt DEF HeapInv
<1>5. ASSUME Guarded', NEW t \in Timers PROVE (pc' \in Handling /\ t = cur') \/ Safe(t, lag)'
  <2>1. (pc \in Handling /\ t = cur) \/ Safe(t, lag)
    BY <1>3, <1>5 DEF HeapInv, Seen
  <2>2. row' = row /\ Reach(lag)' <= Reach(lag) /\ (Wanted(t) => ExecAt(t, row[t].next) \in Int)
    BY <1>3, <1>5, ExecIsInt DEF HeapInv, Wanted
  <2>3. (Queued(t, lag) => Queued(t, lag)') /\ (Ahead(t, lag) => Ahead(t, lag)')
    BY <1>4, <2>2, SafeStays
  <2> QED BY <2>1, <2>3 DEF Safe
<1>6. ASSUME Guarded', pc' \in Handling PROVE Held'
  BY <1>3, <1>6 DEF HeapInv, Seen, Held, Wanted
<1> QED BY <1>1, <1>2, <1>5, <1>6 DEF HeapInv, Seen

\* The thread works on the timer in hand.
LEMMA HandlingStep ==
    ASSUME Types, NEW lag \in Nat, NEW jitter \in Nat, HeapInv(lag, jitter), ConfigsKept,
           UNCHANGED <<wall, drift, age, spent, at, resolved, cur, foreign, then>>,
           pc \in Handling, pc' \in Handling, heap \subseteq heap', \A e \in heap' : e[1] \in Int,
           \A t \in Timers \ {cur} : row'[t] = row[t],
           Guarded /\ Held => Held'
    PROVE  HeapInv(lag, jitter)'
<1>1. Tuned(jitter)'
  BY DEF Tuned, ConfigsKept, HeapInv
<1>2. Clocks(lag)' /\ Reach(lag)' = Reach(lag) /\ Reach(lag) \in Int
  BY SameReach, ReachIsInt DEF HeapInv
<1>3. Places'
  BY DEF HeapInv, Places, Handling
<1>4. Guarded' => Guarded
  BY DEF Guarded, Handling
<1>5. ASSUME Guarded', NEW t \in Timers PROVE (pc' \in Handling /\ t = cur') \/ Safe(t, lag)'
  <2>1. CASE t = cur
    BY <2>1
  <2>2. CASE t # cur
    <3>1. Safe(t, lag) /\ row'[t] = row[t]
      BY <1>4, <1>5, <2>2 DEF HeapInv, Seen
    <3>2. Wanted(t) => ExecAt(t, row[t].next) \in Int
      BY ExecIsInt DEF HeapInv, Wanted
    <3>3. (Queued(t, lag) => Queued(t, lag)') /\ (Ahead(t, lag) => Ahead(t, lag)')
      BY <1>2, <3>1, <3>2, SafeStays
    <3> QED BY <3>1, <3>3 DEF Safe
  <2> QED BY <2>1, <2>2
<1>6. ASSUME Guarded' PROVE Held'
  BY <1>4, <1>6 DEF HeapInv, Seen
<1> QED BY <1>1, <1>2, <1>3, <1>5, <1>6 DEF HeapInv, Seen

-----------------------------------------------------------------------------
(* The timer in hand *)

LEMMA StopHeap ==
    ASSUME NEW lag, NEW jitter, HeapInv(lag, jitter), row' = row, UNCHANGED <<wall, drift, age, spent, heap>>,
           pc' = "stopped"
    PROVE  HeapInv(lag, jitter)'
<1>1. ConfigsKept /\ Tuned(jitter) /\ \A e \in heap' : e[1] \in Int
  BY DEF ConfigsKept, HeapInv, Tuned
<1>2. Clocks(lag)'
  BY SameReach DEF HeapInv
<1>3. ~Guarded' /\ Places'
  BY DEF Guarded, Places, Handling
<1> QED BY <1>1, <1>2, <1>3, Unguarded

\* What a delivery leaves behind.
LEMMA DeliveredHeld ==
    ASSUME Types, Held, Delivered, row'[cur].config = row[cur].config, UNCHANGED <<at, resolved>>,
           row[cur].config.misfire = "skip" /\ row'[cur].phase = "live" /\ row'[cur].next # Never =>
               row'[cur].next > at
    PROVE  Held' /\ pc' \in Handling
<1>1. at \in Nat /\ cur \in Timers /\ cur \in resolved
  BY DEF Types, Locals, Held
<1>2. CASE row[cur].config.misfire = "skip"
  <2>1. Turn("requeue", slot)
    BY <1>2 DEF Delivered
  <2> QED BY <1>1, <1>2, <2>1 DEF Turn, Held, Handling, Wanted
<1>3. CASE row[cur].config.misfire = "coalesce"
  <2>1. Turn("advance", at)
    BY <1>3 DEF Delivered
  <2> QED BY <1>1, <1>3, <2>1 DEF Turn, Held, Handling, Wanted
<1>4. CASE row[cur].config.misfire # "skip" /\ row[cur].config.misfire # "coalesce"
  <2>1. Turn("caught", slot)
    BY <1>4 DEF Delivered
  <2> QED BY <1>1, <1>4, <2>1 DEF Turn, Held, Handling, Wanted
<1> QED BY <1>2, <1>3, <1>4

\* The scheduler reads.
LEMMA HeldReads ==
    ASSUME Types, NEW lag \in Nat, NEW jitter \in Nat, HeapInv(lag, jitter),
           Fire \/ Mark \/ Ensure \/ Advance \/ CatchUp \/ Anchor \/ Caught
    PROVE  HeapInv(lag, jitter)'
<1> USE DEF clocks, claims, events, local, work, Handling
<1>1. row' = row /\ ConfigsKept /\ UNCHANGED <<wall, drift, age, spent, at, resolved, foreign, then>>
  BY DEF Fire, Mark, Ensure, Advance, CatchUp, Anchor, Caught, ConfigsKept
<1>2. cur \in Timers /\ RowType(row[cur]) /\ RowOK(row[cur]) /\ at \in Nat /\ slot \in Int
  BY DEF Types, Locals, Rowed
<1>3. heap \subseteq Requeued(cur) /\ \A e \in Requeued(cur) \union heap : e[1] \in Int
  BY <1>2, PushedTimes DEF Requeued, HeapInv, Tuned
<1>4. ASSUME pc \in Handling, pc' \in Handling, cur' = cur, heap' \in {heap, Requeued(cur)}, Held => Held'
      PROVE  HeapInv(lag, jitter)'
  BY <1>1, <1>3, <1>4, HandlingStep
<1>5. ASSUME pc' = "stopped", heap' = heap PROVE HeapInv(lag, jitter)'
  BY <1>1, <1>5, StopHeap
<1>6. CASE Fire
  <2>1. pc = "fire" /\ pc' \in {"mark", "ensure"} /\ slot' = slot /\ cur' = cur /\ heap' = heap
    BY <1>6 DEF Fire, Turn
  <2>2. Held => Held'
    BY <1>1, <2>1 DEF Held
  <2> QED BY <1>4, <2>1, <2>2
<1>7. CASE Mark
  <2>1. CASE row[cur].phase = "live" /\ row[cur].last < slot
    <3>1. pc = "mark" /\ pc' = "marking" /\ slot' = slot /\ cur' = cur /\ heap' = heap
      BY <1>7, <2>1 DEF Mark, ReadFor, Turn
    <3>2. Held => Held'
      BY <1>1, <3>1 DEF Held
    <3> QED BY <1>4, <3>1, <3>2
  <2>2. CASE ~(row[cur].phase = "live" /\ row[cur].last < slot)
    <3>1. pc = "mark" /\ heap' = Requeued(cur) /\ Delivered
      BY <1>7, <2>2 DEF Mark
    <3>2. cur' = cur
      BY <3>1, Onward
    <3>3. ASSUME Held PROVE Held' /\ pc' \in Handling
      <4>1. row[cur].config.misfire = "skip" /\ row[cur].phase = "live" /\ row[cur].next # Never =>
               row[cur].next > at
        BY <1>2, <2>2, <3>1, <3>3 DEF Held, RowOK, RowType
      <4> QED BY <1>1, <3>1, <3>3, <4>1, DeliveredHeld
    <3>4. pc' \in Handling
      BY <3>1, Onward
    <3> QED BY <1>4, <3>1, <3>2, <3>3, <3>4
  <2> QED BY <2>1, <2>2
<1>8. CASE Ensure
  <2>1. CASE row[cur].phase = "live" /\ row[cur].next <= slot
    <3>1. pc = "ensure" /\ pc' = "ensuring" /\ slot' = slot /\ cur' = cur /\ heap' = heap
      BY <1>8, <2>1 DEF Ensure, ReadFor, Turn
    <3>2. Held => Held'
      BY <1>1, <3>1 DEF Held
    <3> QED BY <1>4, <3>1, <3>2
  <2>2. CASE ~(row[cur].phase = "live" /\ row[cur].next <= slot)
    <3>1. pc = "ensure" /\ heap' = Requeued(cur) /\ Delivered
      BY <1>8, <2>2 DEF Ensure
    <3>2. cur' = cur
      BY <3>1, Onward
    <3>3. ASSUME Held PROVE Held' /\ pc' \in Handling
      <4>1. row[cur].config.misfire = "skip" /\ row[cur].phase = "live" /\ row[cur].next # Never =>
               row[cur].next > at
        BY <1>2, <2>2, <3>1, <3>3 DEF Held, RowOK, RowType
      <4> QED BY <1>1, <3>1, <3>3, <4>1, DeliveredHeld
    <3>4. pc' \in Handling
      BY <3>1, Onward
    <3> QED BY <1>4, <3>1, <3>2, <3>3, <3>4
  <2> QED BY <2>1, <2>2
<1>9. CASE Advance
  <2>1. CASE row[cur].phase = "live"
    <3>1. pc = "advance" /\ pc' = "advancing" /\ slot' = slot /\ cur' = cur /\ heap' = heap
      BY <1>9, <2>1 DEF Advance, ReadFor, Turn
    <3>2. Held => Held'
      BY <1>1, <3>1 DEF Held
    <3> QED BY <1>4, <3>1, <3>2
  <2>2. CASE row[cur].phase # "live"
    BY <1>5, <1>9, <2>2 DEF Advance, ReadFor
  <2> QED BY <2>1, <2>2
<1>10. CASE Anchor
  <2>1. CASE row[cur].phase = "live"
    <3>1. pc = "anchor" /\ pc' = "anchoring" /\ slot' = slot /\ cur' = cur /\ heap' = heap
      BY <1>10, <2>1 DEF Anchor, ReadFor, Turn
    <3>2. Held => Held'
      BY <1>1, <3>1 DEF Held
    <3> QED BY <1>4, <3>1, <3>2
  <2>2. CASE row[cur].phase # "live"
    BY <1>5, <1>10, <2>2 DEF Anchor, ReadFor
  <2> QED BY <2>1, <2>2
<1>11. CASE CatchUp
  <2>1. /\ pc = "catch" /\ cur' = cur /\ heap' = heap
        /\ \/ pc' = "requeue" /\ ~Overdue(row[cur], at)
           \/ pc' = "advance" /\ slot' = at
           \/ pc' \in {"anchor", "fire"}
    BY <1>11 DEF CatchUp, Leftover, Turn
  <2>2. Held => Held'
    BY <1>1, <1>2, <2>1 DEF Held, Overdue, Wanted, RowType
  <2> QED BY <1>4, <2>1, <2>2
<1>12. CASE Caught
  <2>1. /\ pc = "caught" /\ cur' = cur
        /\ \/ pc' = "catch" /\ heap' = heap
           \/ pc' = "requeue" /\ ~Overdue(row[cur], at) /\ heap' = Requeued(cur)
    BY <1>12 DEF Caught
  <2>2. Held => Held'
    BY <1>1, <1>2, <2>1 DEF Held, Overdue, Wanted, RowType
  <2> QED BY <1>4, <2>1, <2>2
<1> QED BY <1>6, <1>7, <1>8, <1>9, <1>10, <1>11, <1>12

\* The next fire of a row is the first instant of its rule past the last one.
LEMMA NothingBetween ==
    ASSUME NEW r, RowType(r), NEW after \in Int, NextFire(r, after) # Never
    PROVE  NextFire(r, after) \in {s \in r.rule : s > after} /\ ~Exhausted(r)
<1> DEFINE S == {s \in r.rule : s > after}
<1>1. S \subseteq Nat
  BY DEF RowType
<1>2. ~Exhausted(r) /\ NextFire(r, after) = Earliest(S) /\ S # {}
  BY DEF NextFire, Earliest
<1>3. Earliest(S) \in S
  BY <1>1, <1>2, SmallestMember DEF Earliest
<1> QED BY <1>2, <1>3

\* advance_past_now leaves no fire up to the instant it is given.
LEMMA AdvancedPast ==
    ASSUME Types, AdvancePastNow, slot \in Nat, pc' # "stopped"
    PROVE  row'[cur].next = Never \/ row'[cur].next > slot
<1> DEFINE r == row[cur]
           from == IF r.last # Never THEN r.last ELSE IF r.next # Never THEN r.next - 1 ELSE slot
           walked == IF Exhausted(r) THEN {} ELSE {s \in r.rule : from < s /\ s <= slot}
           anchor == IF walked # {} THEN Latest(walked)
                     ELSE IF r.last # Never THEN r.last ELSE slot
           b == [r EXCEPT !.last = anchor]
<1>1. WriteBack(b, Turn("requeue", 0))
  BY DEF AdvancePastNow
<1>2. Write(cur, b)
  BY <1>1 DEF WriteBack
<1>3. cur \in Timers /\ RowType(r) /\ DOMAIN row = Timers /\ r.last \in Int /\ r.next \in Int
  BY DEF Types, Locals, Rowed, RowType
<1>4. walked \subseteq Nat /\ \A s \in walked : s <= slot
  BY <1>3 DEF RowType
<1>5. walked # {} => Latest(walked) \in walked /\ \A s \in walked : Latest(walked) >= s
  <2> HIDE DEF walked
  <2> QED BY <1>4, LatestIsThere
<1>6. anchor \in Int /\ anchor # Never
  BY <1>3, <1>4, <1>5 DEF Never
<1>7. ASSUME NEW s \in r.rule, s > anchor, ~Exhausted(r) PROVE s > slot
  <2>1. s \in Nat
    BY <1>3 DEF RowType
  <2>2. CASE walked # {}
    <3>1. anchor \in walked
      BY <1>5, <2>2
    <3>2. from < anchor /\ anchor \in Nat
      <4> HIDE DEF anchor, from
      <4> QED BY <1>3, <1>4, <2>2, <3>1
    <3>3. s \in walked => s <= Latest(walked)
      <4> HIDE DEF walked
      <4> QED BY <1>4, <1>5, <2>1, <2>2
    <3>4. anchor = Latest(walked)
      BY <2>2
    <3>5. s \notin walked
      BY <1>6, <1>7, <2>1, <3>3, <3>4
    <3>6. from \in Int
      BY <1>3
    <3> HIDE DEF anchor, from
    <3> QED BY <1>7, <2>1, <3>2, <3>5, <3>6
  <2>3. CASE walked = {} /\ r.last # Never
    BY <1>3, <1>7, <2>1, <2>3
  <2>4. CASE walked = {} /\ r.last = Never
    BY <1>7, <2>1, <2>4
  <2> QED BY <2>2, <2>3, <2>4
<1> HIDE DEF anchor
<1>8. /\ RowType(b) /\ b.last = anchor /\ b.rule = r.rule /\ (Exhausted(b) <=> Exhausted(r))
  <2>1. RowType(b) /\ b.last = anchor /\ b.runs = r.runs /\ b.config = r.config
    BY <1>3, <1>6, FiredRow
  <2>2. b.rule = r.rule
    BY <1>3 DEF RowType
  <2> QED BY <2>1, <2>2 DEF Exhausted
<1>9. row'[cur] = Recomputed(b)
  BY <1>2, <1>3 DEF Write
<1> HIDE DEF b
<1>10. Recomputed(b).next = NextFire(b, anchor)
  BY <1>6, <1>8 DEF Recomputed, RowType
<1>11. NextFire(b, anchor) # Never =>
          NextFire(b, anchor) \in {s \in b.rule : s > anchor} /\ ~Exhausted(b)
  BY <1>6, <1>8, NothingBetween
<1> QED BY <1>7, <1>8, <1>9, <1>10, <1>11

\* The scheduler writes the row back.
LEMMA HeldWrites ==
    ASSUME Types, Types', NEW lag \in Nat, NEW jitter \in Nat, HeapInv(lag, jitter),
           MarkFired \/ EnsureAdvanced \/ AdvancePastNow \/ AnchorLastFired
    PROVE  HeapInv(lag, jitter)'
<1> USE DEF clocks, claims, events, local, work, Handling
<1> DEFINE r == row[cur]
<1>1. UNCHANGED <<wall, drift, age, spent, at, resolved, foreign, then, heap>> /\ pc \in Handling
  BY DEF MarkFired, EnsureAdvanced, AdvancePastNow, AnchorLastFired
<1>2. /\ cur \in Timers /\ RowType(r) /\ at \in Nat /\ slot \in Int /\ wall \in Nat
      /\ at <= wall
  BY <1>1 DEF Types, Locals, Rowed, HeapInv, Places
<1>3. ASSUME pc' = "stopped", row' = row PROVE HeapInv(lag, jitter)'
  BY <1>1, <1>3, StopHeap
<1>4. ASSUME NEW b, RowType(b), b.config = r.config, Write(cur, b), cur' = cur, pc' \in Handling,
             Held /\ RowType(row'[cur]) /\ RowOK(row'[cur]) /\ row'[cur].last = b.last
                  /\ row'[cur].config = r.config => Held'
      PROVE  HeapInv(lag, jitter)'
  <2>1. /\ Rowed' /\ \A u \in Timers \ {cur} : row'[u] = row[u]
        /\ row'[cur].last = b.last /\ row'[cur].config = r.config
    BY <1>2, <1>4, WriteRows
  <2>2. RowType(row'[cur]) /\ RowOK(row'[cur])
    BY <1>2, <2>1 DEF Rowed
  <2>3. ConfigsKept
    BY <2>1 DEF ConfigsKept
  <2>4. \A e \in heap' : e[1] \in Int
    BY <1>1 DEF HeapInv, Tuned
  <2>5. Held => Held'
    BY <1>4, <2>1, <2>2
  <2> QED BY <1>1, <1>4, <2>1, <2>3, <2>4, <2>5, HandlingStep
<1>5. CASE MarkFired
  <2> DEFINE b == [r EXCEPT !.last = slot, !.runs = @ + 1]
  <2>1. WriteBack(b, Delivered) /\ pc = "marking"
    BY <1>5 DEF MarkFired
  <2>2. RowType(b) /\ b.last = slot /\ b.config = r.config
    BY <1>2, FiredRow
  <2> HIDE DEF b
  <2>3. CASE Write(cur, b) /\ Delivered
    <3>1. pc' \in Handling /\ cur' = cur
      BY <2>3, Onward
    <3>2. ASSUME Held, RowType(row'[cur]), RowOK(row'[cur]), row'[cur].last = slot, row'[cur].config = r.config
          PROVE  Held'
      <4>1. row[cur].config.misfire = "skip" /\ row'[cur].phase = "live" /\ row'[cur].next # Never =>
               row'[cur].next > at
        BY <1>2, <2>1, <3>2 DEF Held, RowOK, RowType
      <4> QED BY <1>1, <2>3, <3>2, <4>1, DeliveredHeld
    <3> QED BY <1>4, <2>2, <2>3, <3>1, <3>2
  <2> QED BY <1>3, <2>1, <2>3 DEF WriteBack
<1>6. CASE EnsureAdvanced
  <2> DEFINE b == [r EXCEPT !.last = slot]
  <2>1. /\ WriteBack(b, IF Overdue(row'[cur], wall) THEN Turn("advance", wall) ELSE Delivered)
        /\ pc = "ensuring"
    BY <1>6 DEF EnsureAdvanced
  <2>2. RowType(b) /\ b.last = slot /\ b.config = r.config
    BY <1>2, FiredRow
  <2> HIDE DEF b
  <2>3. CASE Write(cur, b) /\ Delivered
    <3>1. pc' \in Handling /\ cur' = cur
      BY <2>3, Onward
    <3>2. ASSUME Held, RowType(row'[cur]), RowOK(row'[cur]), row'[cur].last = slot, row'[cur].config = r.config
          PROVE  Held'
      <4>1. row[cur].config.misfire = "skip" /\ row'[cur].phase = "live" /\ row'[cur].next # Never =>
               row'[cur].next > at
        BY <1>2, <2>1, <3>2 DEF Held, RowOK, RowType
      <4> QED BY <1>1, <2>3, <3>2, <4>1, DeliveredHeld
    <3> QED BY <1>4, <2>2, <2>3, <3>1, <3>2
  <2>4. CASE Write(cur, b) /\ Turn("advance", wall)
    <3>1. pc' = "advance" /\ slot' = wall /\ cur' = cur
      BY <2>4 DEF Turn
    <3>2. ASSUME Held, row'[cur].config = r.config PROVE Held'
      BY <1>1, <1>2, <3>1, <3>2 DEF Held
    <3> QED BY <1>4, <2>2, <2>4, <3>1, <3>2
  <2> QED BY <1>3, <2>1, <2>3, <2>4 DEF WriteBack
<1>7. CASE AdvancePastNow
  <2>1. PICK a : WriteBack([r EXCEPT !.last = a], Turn("requeue", 0)) /\ a \in Int
    <3> DEFINE from == IF r.last # Never THEN r.last ELSE IF r.next # Never THEN r.next - 1 ELSE slot
               walked == IF Exhausted(r) THEN {} ELSE {s \in r.rule : from < s /\ s <= slot}
               anchor == IF walked # {} THEN Latest(walked)
                         ELSE IF r.last # Never THEN r.last ELSE slot
    <3>1. WriteBack([r EXCEPT !.last = anchor], Turn("requeue", 0))
      BY <1>7 DEF AdvancePastNow
    <3>2. walked \subseteq Nat /\ \A s \in walked : s <= slot
      BY <1>2 DEF RowType
    <3>3. ASSUME walked # {} PROVE Latest(walked) \in Nat
      <4>1. PICK s \in walked : s \in Nat /\ s <= slot
        BY <3>2, <3>3
      <4>2. slot \in Nat
        BY <1>2, <4>1
      <4> HIDE DEF walked
      <4> QED BY <3>2, <3>3, <4>2, LatestIsThere
    <3>4. anchor \in Int
      <4> HIDE DEF walked
      <4> QED BY <1>2, <3>3 DEF RowType
    <3> QED BY <3>1, <3>4
  <2> DEFINE b == [r EXCEPT !.last = a]
  <2>2. RowType(b) /\ b.config = r.config
    BY <1>2, <2>1, FiredRow
  <2>3. WriteBack(b, Turn("requeue", 0)) /\ pc = "advancing"
    BY <1>7, <2>1 DEF AdvancePastNow
  <2> HIDE DEF b
  <2>4. CASE Write(cur, b) /\ Turn("requeue", 0)
    <3>1. pc' = "requeue" /\ slot' = 0 /\ cur' = cur
      BY <2>4 DEF Turn
    <3>2. ASSUME Held, RowType(row'[cur]), row'[cur].config = r.config PROVE Held'
      <4>1. slot \in Nat /\ at <= slot
        BY <1>2, <2>3, <3>2 DEF Held
      <4>2. row'[cur].next = Never \/ row'[cur].next > slot
        BY <1>7, <3>1, <4>1, AdvancedPast
      <4> QED BY <1>1, <1>2, <3>1, <3>2, <4>1, <4>2 DEF Held, Wanted, RowType
    <3> QED BY <1>4, <2>2, <2>4, <3>1, <3>2
  <2> QED BY <1>3, <2>3, <2>4 DEF WriteBack
<1>8. CASE AnchorLastFired
  <2> DEFINE b == [r EXCEPT !.last = slot]
  <2>1. /\ WriteBack(b, /\ pc' = IF row'[cur].next > slot THEN "catch" ELSE "requeue"
                        /\ slot' = row'[cur].next
                        /\ UNCHANGED <<cur, index, batch>>)
        /\ pc = "anchoring"
    BY <1>8 DEF AnchorLastFired
  <2>2. RowType(b) /\ b.last = slot /\ b.config = r.config
    BY <1>2, FiredRow
  <2> HIDE DEF b
  <2>3. CASE /\ Write(cur, b) /\ cur' = cur
             /\ pc' = IF row'[cur].next > slot THEN "catch" ELSE "requeue"
    <3>1. ASSUME Held, RowType(row'[cur]), RowOK(row'[cur]), row'[cur].last = slot, row'[cur].config = r.config
          PROVE  Held'
      BY <1>1, <1>2, <2>1, <2>3, <3>1 DEF Held, RowOK, RowType, Wanted
    <3> QED BY <1>4, <2>2, <2>3, <3>1
  <2> QED BY <1>3, <2>1, <2>3 DEF WriteBack
<1> QED BY <1>5, <1>6, <1>7, <1>8

-----------------------------------------------------------------------------
(* The thread between two timers *)

\* The due handler takes a timer in hand.
LEMMA TakenInHand ==
    ASSUME Types, NEW jitter, Tuned(jitter), NEW t \in Timers, Overdue(row[t], at), HandleDue(t),
           row' = row, at' = at, t \in resolved'
    PROVE  Held' /\ pc' \in {"fire", "advance", "catch"} /\ cur' = t
<1> DEFINE r == row[t]
<1>1. r.next \in Int /\ at \in Nat /\ r.next <= at
  BY DEF Types, Locals, Rowed, RowType, Overdue
<1>2. CASE r.config.misfire = "skip"
  <2>1. GraceFor(t) = 0
    BY <1>2 DEF GraceFor, Tuned
  <2>2. /\ cur' = t
        /\ \/ pc' = "fire" /\ slot' = r.next /\ at - r.next <= 0
           \/ pc' = "advance" /\ slot' = at
    BY <1>2, <2>1 DEF HandleDue
  <2> QED BY <1>1, <1>2, <2>2 DEF Held
<1>3. CASE r.config.misfire = "coalesce"
  <2>1. cur' = t /\ (pc' = "fire" \/ (pc' = "advance" /\ slot' = at))
    BY <1>3 DEF HandleDue
  <2> QED BY <1>1, <1>3, <2>1 DEF Held
<1>4. CASE r.config.misfire = "catch_up"
  <2>1. cur' = t /\ pc' = "catch"
    BY <1>4 DEF HandleDue
  <2> QED BY <1>4, <2>1 DEF Held
<1> QED BY <1>2, <1>3, <1>4 DEF HandleDue

LEMMA ScanHeap ==
    ASSUME Types, NEW lag \in Nat, NEW jitter \in Nat, HeapInv(lag, jitter),
           Boot \/ ScanNext \/ ScanDone
    PROVE  HeapInv(lag, jitter)'
<1> USE DEF clocks, claims, events, local, work, Handling
<1>1. /\ row' = row /\ ConfigsKept /\ wall' = wall /\ spent' = spent
      /\ \A e \in heap : e[1] \in Int
  BY DEF Boot, ScanNext, ScanDone, ConfigsKept, HeapInv, Tuned
<1>2. CASE Boot
  <2>1. pc' = "scan" /\ then' = "boot" /\ at' = wall /\ heap' = heap /\ drift' = 0 /\ age' = age
    BY <1>2 DEF Boot, StartScan
  <2>2. Clocks(lag)' /\ wall \in Nat
    BY <1>1, <2>1, TickReach DEF HeapInv, Types, Locals
  <2>3. Places' /\ ~Guarded'
    BY <1>1, <2>1, <2>2 DEF Places, Guarded
  <2> QED BY <1>1, <2>1, <2>2, <2>3, Unguarded DEF HeapInv
<1>3. CASE ScanDone
  <2>1. /\ pc' = "rebuild" /\ then' \in {"asleep", "drain"} /\ age' = 0 /\ drift' = drift
        /\ heap' = heap
    BY <1>3 DEF ScanDone, Snapshot
  <2>2. Clocks(lag)'
    BY <1>1, <2>1 DEF HeapInv, Clocks
  <2>3. Places' /\ ~Guarded'
    BY <2>1 DEF Places, Guarded
  <2> QED BY <1>1, <2>1, <2>2, <2>3, Unguarded DEF HeapInv
<1>4. CASE ScanNext
  <2>1. PICK t \in todo :
          IF Due(row[t], at) THEN HandleDue(t) /\ UNCHANGED heap
          ELSE heap' = Requeued(t) /\ UNCHANGED <<pc, work, events>>
    BY <1>4 DEF ScanNext
  <2>2. t \in Timers /\ pc = "scan" /\ UNCHANGED <<at, then, drift, age>>
    BY <1>4 DEF Types, Locals, ScanNext
  <2>3. pc' \in {"scan", "fire", "advance", "catch"}
    <3>1. CASE Due(row[t], at)
      BY <2>1, <2>2, <3>1, Handled DEF Due
    <3>2. CASE ~Due(row[t], at)
      BY <2>1, <2>2, <3>2
    <3> QED BY <3>1, <3>2
  <2>4. Clocks(lag)'
    BY <1>1, <2>2, SameReach DEF HeapInv
  <2>5. Places' /\ ~Guarded'
    BY <1>1, <2>2, <2>3 DEF HeapInv, Places, Guarded
  <2>6. \A e \in heap' : e[1] \in Int
    BY <1>1, <2>1, <2>2, PushedTimes DEF HeapInv
  <2> QED BY <1>1, <2>4, <2>5, <2>6, Unguarded DEF HeapInv
<1> QED BY <1>2, <1>3, <1>4

LEMMA RebuildHeap ==
    ASSUME Types, NEW lag \in Nat, NEW jitter \in Nat, HeapInv(lag, jitter), Rebuild
    PROVE  HeapInv(lag, jitter)'
<1> USE DEF clocks, claims, events, local, work, Handling
<1>1. /\ row' = row /\ UNCHANGED <<wall, drift, age>> /\ spent' = spent /\ heap' = Rebuilt
      /\ pc' = then /\ then' = "drain" /\ then \in {"asleep", "check", "tick", "drain"}
      /\ then = "drain" => at' = wall /\ resolved' = {}
  BY DEF Rebuild, HeapInv, Places
<1>2. \A t \in Timers : Queued(t, lag)'
  BY <1>1, RebuiltIsSafe DEF HeapInv
<1>3. \A t \in Timers : Safe(t, lag)'
  BY <1>1, <1>2 DEF Safe
<1>4. Tuned(jitter)'
  BY <1>1, PushedTimes DEF HeapInv, Tuned
<1>5. Clocks(lag)'
  BY <1>1, SameReach DEF HeapInv
<1>6. Places'
  BY <1>1 DEF Places, Types, Locals
<1> QED BY <1>1, <1>3, <1>4, <1>5, <1>6 DEF HeapInv, Seen

\* The thread goes from one place where it has no timer in hand to another.
LEMMA IdleStep ==
    ASSUME Types, NEW lag \in Nat, NEW jitter \in Nat, HeapInv(lag, jitter),
           row' = row, wall' = wall, heap' = heap, foreign' = foreign, age' = age, then' = "drain",
           pc \in {"asleep", "check", "tick", "drain"},
           \/ pc' \in {"asleep", "check", "tick"}
           \/ pc' = "drain" /\ resolved' = {} /\ at' = wall,
           Clocks(lag)', Reach(lag)' \in Int, Reach(lag)' <= Reach(lag)
    PROVE  HeapInv(lag, jitter)'
<1>1. Tuned(jitter)' /\ Reach(lag) \in Int
  BY ReachIsInt DEF Tuned, HeapInv
<1>2. Places'
  BY DEF Places, Handling, Types, Locals
<1>3. Guarded' => Guarded
  BY DEF Guarded, HeapInv, Places
<1>4. ASSUME Guarded', NEW t \in Timers PROVE Safe(t, lag)'
  <2>1. Queued(t, lag)
    BY <1>3, <1>4 DEF HeapInv, Seen, Safe, Handling
  <2>2. Wanted(t) => ExecAt(t, row[t].next) \in Int
    BY ExecIsInt DEF HeapInv, Wanted
  <2>3. Queued(t, lag)'
    BY <1>1, <2>1, <2>2, SafeStays
  <2> QED BY <2>3 DEF Safe, Handling
<1> QED BY <1>1, <1>2, <1>4 DEF HeapInv, Seen, Handling

LEMMA IdleHeap ==
    ASSUME Types, NEW lag \in Nat, Jump <= lag, NEW jitter \in Nat, HeapInv(lag, jitter),
           Wake \/ CheckStore \/ Tick \/ DrainDone
    PROVE  HeapInv(lag, jitter)'
<1> USE DEF clocks, claims, events, local, work
<1>1. /\ row' = row /\ wall' = wall /\ spent' = spent /\ heap' = heap /\ ConfigsKept
      /\ pc \in {"asleep", "check", "tick", "drain"} /\ then = "drain"
      /\ \A e \in heap : e[1] \in Int
  BY DEF Wake, CheckStore, Tick, DrainDone, ConfigsKept, HeapInv, Places, Tuned
<1>2. Clocks(lag) /\ Reach(lag) \in Int /\ Reach(lag) <= Reach(lag)
  BY ReachIsInt DEF HeapInv
<1>3. ASSUME drift' = drift, age' = age, foreign' = foreign, then' = then, pc' \in {"asleep", "check", "tick"}
      PROVE  HeapInv(lag, jitter)'
  <2>1. Clocks(lag)' /\ Reach(lag)' = Reach(lag)
    BY <1>1, <1>2, <1>3, SameReach
  <2> QED BY <1>1, <1>2, <1>3, <2>1, IdleStep
<1>4. ASSUME Snapshot(then') , pc' = "rebuild", then' \in {"asleep", "check", "tick", "drain"}, drift' = drift
      PROVE  HeapInv(lag, jitter)'
  <2>1. Clocks(lag)'
    BY <1>1, <1>2, <1>4 DEF Clocks, Snapshot
  <2>2. Places' /\ ~Guarded'
    BY <1>4 DEF Places, Guarded, Handling
  <2> QED BY <1>1, <2>1, <2>2, Unguarded DEF HeapInv
<1>5. CASE Wake
  <2>1. \/ pc' = "stopped" /\ UNCHANGED <<then, foreign, age>>
        \/ Snapshot("check")
        \/ pc' = "check" /\ UNCHANGED <<then, foreign, age>>
    BY <1>5 DEF Wake
  <2>2. drift' = drift
    BY <1>5 DEF Wake
  <2>3. CASE pc' = "stopped" /\ UNCHANGED <<then, foreign, age>>
    BY <1>1, <2>2, <2>3, StopHeap
  <2>4. CASE Snapshot("check")
    BY <1>4, <2>2, <2>4 DEF Snapshot
  <2>5. CASE pc' = "check" /\ UNCHANGED <<then, foreign, age>>
    BY <1>3, <2>2, <2>5
  <2> QED BY <2>1, <2>3, <2>4, <2>5
<1>6. CASE CheckStore
  <2>1. Snapshot("tick") \/ (pc' = "tick" /\ UNCHANGED <<then, foreign, age>>)
    BY <1>6 DEF CheckStore
  <2>2. drift' = drift
    BY <1>6 DEF CheckStore
  <2>3. CASE Snapshot("tick")
    BY <1>4, <2>2, <2>3 DEF Snapshot
  <2>4. CASE pc' = "tick" /\ UNCHANGED <<then, foreign, age>>
    BY <1>3, <2>2, <2>4
  <2> QED BY <2>1, <2>3, <2>4
<1>7. CASE DrainDone
  <2>1. pc' = "asleep" /\ then' = "drain" /\ UNCHANGED <<drift, age, foreign>>
    BY <1>7 DEF DrainDone, FallAsleep
  <2> QED BY <1>1, <1>3, <2>1
<1>8. CASE Tick
  <2>1. age' = age /\ foreign' = foreign
    BY <1>8 DEF Tick
  <2>2. \/ pc' = "asleep" /\ then' = "drain" /\ drift' = drift
        \/ drift' = 0 /\ pc' = "scan" /\ then' = "jump" /\ at' = wall
        \/ /\ Absolute(drift) <= Jump /\ drift' = 0
           /\ pc' = "drain" /\ then' = "drain" /\ at' = wall /\ resolved' = {}
    BY <1>8 DEF Tick, FallAsleep, StartScan
  <2>3. CASE pc' = "asleep" /\ then' = "drain" /\ drift' = drift
    BY <1>1, <1>3, <2>1, <2>3
  <2>4. CASE drift' = 0 /\ pc' = "scan" /\ then' = "jump" /\ at' = wall
    <3>1. Clocks(lag)'
      BY <1>1, <1>2, <2>1, <2>4, TickReach
    <3>2. Places' /\ ~Guarded'
      BY <1>1, <2>4 DEF Places, Guarded, Handling, Types, Locals
    <3> QED BY <1>1, <3>1, <3>2, Unguarded DEF HeapInv
  <2>5. CASE /\ Absolute(drift) <= Jump /\ drift' = 0
             /\ pc' = "drain" /\ then' = "drain" /\ at' = wall /\ resolved' = {}
    <3>1. Clocks(lag)' /\ Reach(lag)' <= Reach(lag)
      BY <1>1, <1>2, <2>1, <2>5, TickReach
    <3>2. Reach(lag)' \in Int
      <4>1. Charge(lag)' = lag * (spent["clock"] - 0) /\ spent["clock"] \in Nat
        BY <1>1, <2>5, ReachIsInt, <1>2 DEF Charge
      <4>2. Charge(lag)' \in Int
        BY <4>1
      <4>3. wall \in Int /\ age \in Int /\ Horizon \in Int
        BY <1>2, LimitsAssumption DEF Types, Locals, Clocks
      <4> QED BY <1>1, <2>1, <2>5, <4>2, <4>3 DEF Reach
    <3> QED BY <1>1, <2>1, <2>5, <3>1, <3>2, IdleStep
  <2> QED BY <2>2, <2>3, <2>4, <2>5
<1> QED BY <1>5, <1>6, <1>7, <1>8

LEMMA RequeueHeap ==
    ASSUME Types, NEW lag \in Nat, NEW jitter \in Nat, HeapInv(lag, jitter), Requeue
    PROVE  HeapInv(lag, jitter)'
<1> USE DEF clocks, claims, events, local, work, Handling
<1>1. /\ row' = row /\ UNCHANGED <<wall, drift, age, at, resolved, foreign, then>> /\ spent' = spent
      /\ pc = "requeue" /\ heap' = Requeued(cur)
      /\ pc' = IF then = "drain" THEN "drain" ELSE "scan"
  BY DEF Requeue, Return
<1>2. Tuned(jitter) /\ Clocks(lag) /\ Places /\ cur \in Timers
  BY DEF HeapInv, Types, Locals
<1>3. heap \subseteq heap' /\ \A e \in heap' : e[1] \in Int
  BY <1>1, <1>2, PushedTimes DEF Requeued
<1>4. Tuned(jitter)' /\ Clocks(lag)' /\ Reach(lag)' = Reach(lag) /\ Reach(lag) \in Int
  BY <1>1, <1>2, <1>3, SameReach, ReachIsInt DEF Tuned
<1>5. Places'
  BY <1>1, <1>2 DEF Places
<1>6. Guarded' => Guarded /\ pc' = "drain"
  BY <1>1 DEF Guarded
<1>7. ASSUME Guarded', NEW t \in Timers PROVE Safe(t, lag)'
  <2>1. CASE t = cur
    <3>1. Wanted(t) => row[t].next > at
      BY <1>1, <1>6, <1>7, <2>1 DEF HeapInv, Seen, Held
    <3>2. Wanted(t) => Pushed(t, row[t].next) \subseteq heap'
      BY <1>1, <2>1 DEF Requeued, Wanted
    <3>3. Queued(t, lag)' /\ Ahead(t, lag)'
      BY <1>1, <1>2, <3>1, <3>2, PushedIsSafe
    <3> QED BY <3>3 DEF Safe
  <2>2. CASE t # cur
    <3>1. Safe(t, lag)
      BY <1>6, <1>7, <2>2 DEF HeapInv, Seen
    <3>2. Wanted(t) => ExecAt(t, row[t].next) \in Int
      BY <1>2, ExecIsInt DEF Wanted
    <3>3. (Queued(t, lag) => Queued(t, lag)') /\ (Ahead(t, lag) => Ahead(t, lag)')
      BY <1>1, <1>3, <1>4, <3>2, SafeStays
    <3> QED BY <1>1, <3>1, <3>3 DEF Safe
  <2> QED BY <2>1, <2>2
<1> QED BY <1>1, <1>4, <1>5, <1>6, <1>7 DEF HeapInv, Seen

LEMMA DrainHeap ==
    ASSUME Types, NEW lag \in Nat, NEW jitter \in Nat, HeapInv(lag, jitter), DrainNext
    PROVE  HeapInv(lag, jitter)'
<1> USE DEF clocks, claims, events, local, work, Handling
<1>1. /\ row' = row /\ UNCHANGED <<wall, drift, age, at, foreign, then>> /\ spent' = spent
      /\ pc = "drain"
  BY DEF DrainNext
<1>2. PICK e \in heap :
        LET t == e[2]
            r == row[t]
            again(s) == heap' = (heap \ {e}) \union {<<s, t>>} /\ UNCHANGED <<pc, work, events>>
        IN /\ e[1] <= at
           /\ resolved' = resolved \union {t}
           /\ IF t \in resolved \/ r.phase # "live" \/ ~r.enabled \/ r.next = Never
              THEN heap' = heap \ {e} /\ UNCHANGED <<pc, work, events>>
              ELSE IF ExecAt(t, r.next) > at THEN again(ExecAt(t, r.next))
              ELSE IF r.next > at THEN again(r.next)
              ELSE heap' = heap \ {e} /\ HandleDue(t)
  BY DEF DrainNext
<1> DEFINE t == e[2]
           r == row[t]
           x == ExecAt(t, r.next)
<1>3. Tuned(jitter) /\ Clocks(lag) /\ Places /\ t \in Timers /\ e[1] \in Int /\ e[1] <= at /\ at \in Nat
  BY <1>2 DEF HeapInv, Types, Locals, Tuned
<1>4. r.next \in Int /\ (Wanted(t) => x \in Int /\ r.next <= x)
  BY <1>3, ExecIsInt DEF Wanted
<1> HIDE DEF x
<1>5. \/ (t \in resolved \/ ~Wanted(t)) /\ heap' = heap \ {e} /\ pc' = pc
      \/ t \notin resolved /\ Wanted(t) /\ x > at /\ heap' = (heap \ {e}) \union {<<x, t>>} /\ pc' = pc
      \/ /\ t \notin resolved /\ Overdue(r, at) /\ heap' = heap \ {e} /\ HandleDue(t)
  <2>1. CASE t \in resolved \/ ~Wanted(t)
    BY <1>2, <2>1 DEF Wanted
  <2>2. CASE ~(t \in resolved \/ ~Wanted(t)) /\ x > at
    BY <1>2, <2>2 DEF Wanted, x
  <2>3. CASE ~(t \in resolved \/ ~Wanted(t)) /\ ~(x > at)
    <3>1. ~(r.next > at)
      BY <1>3, <1>4, <2>3
    <3>2. heap' = heap \ {e} /\ HandleDue(t)
      BY <1>2, <2>3, <3>1 DEF Wanted, x
    <3>3. Overdue(r, at)
      BY <1>3, <1>4, <2>3, <3>1 DEF Wanted, Overdue
    <3> QED BY <2>3, <3>2, <3>3
  <2> QED BY <2>1, <2>2, <2>3
<1>6. Clocks(lag)' /\ Reach(lag)' = Reach(lag) /\ Reach(lag) \in Int
  BY <1>1, <1>3, SameReach, ReachIsInt
<1>7. Tuned(jitter)'
  <2>1. \A f \in heap' : f[1] \in Int
    BY <1>3, <1>4, <1>5 DEF Tuned
  <2> QED BY <1>1, <1>3, <2>1 DEF Tuned
<1>8. resolved' = resolved \union {t}
  BY <1>2
<1>9. \/ pc' = "drain"
      \/ /\ pc' \in {"fire", "advance", "catch"} /\ cur' = t /\ Held'
  <2>1. CASE pc' = pc
    BY <1>1, <2>1
  <2>2. CASE Overdue(r, at) /\ HandleDue(t)
    BY <1>1, <1>3, <1>8, <2>2, TakenInHand
  <2> QED BY <1>5, <2>1, <2>2
<1>10. Places'
  BY <1>1, <1>3, <1>9 DEF Places
<1>11. Guarded' => Guarded
  BY <1>1 DEF Guarded
<1>12. ASSUME Guarded', NEW u \in Timers, u # t PROVE Safe(u, lag)'
  <2>1. Safe(u, lag)
    BY <1>1, <1>11, <1>12 DEF HeapInv, Seen
  <2>2. Wanted(u) => ExecAt(u, row[u].next) \in Int
    BY <1>3, ExecIsInt DEF Wanted
  <2>3. \A f \in heap : f[2] = u => f \in heap'
    BY <1>5, <1>12
  <2>4. (Queued(u, lag) => Queued(u, lag)') /\ (Ahead(u, lag) => Ahead(u, lag)')
    BY <1>1, <1>6, <2>2, <2>3, SafeStays
  <2> QED BY <1>1, <1>8, <1>12, <2>1, <2>4 DEF Safe
<1>13. ASSUME Guarded', NEW u \in Timers, u = t, pc' = "drain" PROVE Safe(u, lag)'
  <2>1. ExecAt(u, row[u].next)' = x /\ Wanted(u)' = Wanted(u) /\ Far(u, lag)' = Far(u, lag)
    BY <1>1, <1>6, <1>13 DEF ExecAt, Wanted, Far, x
  <2>2. CASE ~Wanted(u)
    BY <2>1, <2>2 DEF Safe, Queued, Ahead
  <2>3. CASE t \in resolved /\ heap' = heap \ {e}
    <3>1. Ahead(u, lag)
      BY <1>1, <1>11, <1>13, <2>3 DEF HeapInv, Seen, Safe
    <3>2. ASSUME NEW f \in heap, at < f[1] PROVE f \in heap'
      <4>1. f[1] \in Int /\ f # e
        BY <1>3, <3>2 DEF Tuned
      <4> QED BY <2>3, <4>1
    <3>3. Ahead(u, lag)'
      BY <1>1, <1>13, <2>1, <3>1, <3>2 DEF Ahead, x
    <3> QED BY <3>3 DEF Safe, Ahead, Queued
  <2>4. CASE Wanted(t) /\ x > at /\ heap' = (heap \ {e}) \union {<<x, t>>}
    <3>1. <<x, u>> \in heap' /\ at' < x /\ x <= x
      BY <1>1, <1>3, <1>4, <1>13, <2>4
    <3> QED BY <2>1, <3>1 DEF Safe, Ahead, Queued
  <2>5. CASE Overdue(r, at) /\ HandleDue(t)
    <3>1. pc' \in {"fire", "advance", "catch"}
      BY <1>1, <1>3, <1>8, <2>5, TakenInHand
    <3> QED BY <1>13, <3>1
  <2> QED BY <1>5, <1>13, <2>2, <2>3, <2>4, <2>5
<1>14. Seen(lag)'
  BY <1>9, <1>12, <1>13 DEF Seen
<1> QED BY <1>6, <1>7, <1>10, <1>14 DEF HeapInv

-----------------------------------------------------------------------------
(* Around the thread *)

LEMMA WrittenConfig ==
    ASSUME Types, NEW t \in Timers, NEW r, "config" \in DOMAIN r, r.config = row[t].config, Write(t, r)
    PROVE  ConfigsKept
<1>1. Recomputed(r).config = r.config
  BY DEF Recomputed
<1>2. row' = [row EXCEPT ![t] = Recomputed(r)] /\ DOMAIN row = Timers
  BY DEF Write, Types, Rowed
<1> HIDE DEF Recomputed
<1> QED BY <1>1, <1>2 DEF ConfigsKept

LEMMA AroundConfigs ==
    ASSUME Types, SetEnabled \/ ChangeRule \/ Create \/ Delete \/ ManualMark
    PROVE  ConfigsKept
<1>1. \A t \in Timers : {"config", "enabled"} \subseteq DOMAIN row[t] \union {"enabled"} /\ DOMAIN row = Timers
  BY DEF Types, Rowed, RowType
<1>2. CASE SetEnabled
  <2>1. PICK t \in Timers : Write(t, [row[t] EXCEPT !.enabled = ~@])
    BY <1>2 DEF SetEnabled
  <2> DEFINE b == [row[t] EXCEPT !.enabled = ~@]
  <2>2. "config" \in DOMAIN b /\ b.config = row[t].config
    BY <1>1
  <2> HIDE DEF b
  <2> QED BY <2>1, <2>2, WrittenConfig DEF b
<1>3. CASE ChangeRule
  <2>1. PICK t \in Timers, rule \in Rules : Write(t, [row[t] EXCEPT !.rule = rule, !.runs = 0])
    BY <1>3 DEF ChangeRule
  <2> DEFINE b == [row[t] EXCEPT !.rule = rule, !.runs = 0]
  <2>2. "config" \in DOMAIN b /\ b.config = row[t].config
    BY <1>1
  <2> HIDE DEF b
  <2> QED BY <2>1, <2>2, WrittenConfig DEF b
<1>4. CASE Create
  <2>1. PICK t \in Timers : Write(t, [row[t] EXCEPT !.phase = "live"])
    BY <1>4 DEF Create
  <2> DEFINE b == [row[t] EXCEPT !.phase = "live"]
  <2>2. "config" \in DOMAIN b /\ b.config = row[t].config
    BY <1>1
  <2> HIDE DEF b
  <2> QED BY <2>1, <2>2, WrittenConfig DEF b
<1>5. CASE Delete
  <2>1. PICK t \in Timers : row' = [row EXCEPT ![t].phase = "gone"]
    BY <1>5 DEF Delete
  <2> QED BY <1>1, <2>1 DEF ConfigsKept
<1>6. CASE ManualMark
  <2>1. CASE row' = row
    BY <2>1 DEF ConfigsKept
  <2>2. CASE row' # row
    <3> DEFINE t == manual.timer
               b == [row[t] EXCEPT !.last = manual.at, !.runs = @ + 1]
    <3>1. Write(t, b) /\ t \in Timers
      BY <1>6, <2>2 DEF ManualMark, Types, Locals
    <3>2. "config" \in DOMAIN b /\ b.config = row[t].config
      BY <1>1, <3>1
    <3> HIDE DEF b, t
    <3> QED BY <3>1, <3>2, WrittenConfig DEF b
  <2> QED BY <2>1, <2>2
<1> QED BY <1>2, <1>3, <1>4, <1>5, <1>6

LEMMA AroundHeap ==
    ASSUME Types, Types', NEW lag \in Nat, \A d \in Steps : 0 <= d + lag,
           NEW jitter \in Nat, HeapInv(lag, jitter),
           wall' < wall => pc \in {"asleep", "down", "stopped"}, Environment
    PROVE  HeapInv(lag, jitter)'
<1> USE DEF clocks, claims, events, local, work, scheduler
<1>1. Clocks(lag) /\ Tuned(jitter) /\ wall' \in Int /\ wall' <= wall' /\ Reach(lag) \in Int
  BY ReachIsInt DEF HeapInv, Types, Locals
<1>2. ASSUME Clocks(lag)' PROVE Reach(lag)' \in Int
  <2>1. /\ spent'["clock"] \in Nat /\ drift' \in Int /\ age' \in Int /\ wall' \in Int /\ Horizon \in Int
        /\ drift' > 0 => spent'["clock"] > 0
    BY <1>2, LimitsAssumption DEF Types, Locals, EnvEvents, Clocks
  <2>2. (spent["clock"]' - (IF drift' > 0 THEN 1 ELSE 0)) \in Nat
    BY <2>1
  <2>3. PICK n \in Nat : n = (spent["clock"]' - (IF drift' > 0 THEN 1 ELSE 0))
    BY <2>2
  <2>4. Charge(lag)' = lag * n /\ lag * n \in Nat
    BY <2>3, Charged DEF Charge
  <2>5. Charge(lag)' \in Int
    BY <2>4
  <2> QED BY <2>1, <2>5 DEF Reach
<1>3. CASE Pass
  <2>1. UNCHANGED <<heap, at, resolved, cur, slot, pc, then, foreign>> /\ row' = row
    BY <1>3 DEF Pass
  <2>2. ConfigsKept
    BY <2>1 DEF ConfigsKept
  <2> QED BY <1>1, <1>2, <1>3, <2>1, <2>2, PassReach, AroundStep
<1>4. CASE SetClock
  <2>1. UNCHANGED <<heap, at, resolved, cur, slot, pc, then, foreign>> /\ row' = row
    BY <1>4 DEF SetClock
  <2>2. ConfigsKept
    BY <2>1 DEF ConfigsKept
  <2> QED BY <1>1, <1>2, <1>4, <2>1, <2>2, StepReach, AroundStep
<1>5. CASE /\ SetEnabled \/ ChangeRule \/ Create \/ Delete \/ SendPause \/ SendShutdown \/ ManualRead
              \/ ManualFire \/ ManualMark \/ Finish
  <2>1. /\ UNCHANGED <<heap, at, resolved, cur, slot, pc, then>> /\ UNCHANGED <<wall, drift, age>>
        /\ foreign' = TRUE \/ (foreign' = foreign /\ row' = row)
    BY <1>5 DEF SetEnabled, ChangeRule, Create, Delete, SendPause, SendShutdown, ManualRead,
                ManualFire, ManualMark, Finish, Foreign
  <2>2. spent'["clock"] = spent["clock"]
    <3>1. spent' = spent \/ \E e \in {"edit", "rule", "pause", "crash", "manual"} : Happens(e)
      BY <1>5 DEF SetEnabled, ChangeRule, Create, Delete, SendPause, SendShutdown, ManualRead,
                  ManualFire, ManualMark, Finish
    <3>2. spent \in [EnvEvents -> Nat] /\ "clock" \in EnvEvents
      BY DEF Types, EnvEvents
    <3> QED BY <3>1, <3>2 DEF Happens
  <2>3. Clocks(lag)' /\ Reach(lag)' = Reach(lag)
    BY <1>1, <2>1, <2>2, SameReach
  <2>4. ConfigsKept
    <3>1. CASE row' = row
      BY <3>1 DEF ConfigsKept
    <3>2. CASE SetEnabled \/ ChangeRule \/ Create \/ Delete \/ ManualMark
      BY <3>2, AroundConfigs
    <3>3. row' = row \/ SetEnabled \/ ChangeRule \/ Create \/ Delete \/ ManualMark
      BY <1>5 DEF SendPause, SendShutdown, ManualRead, ManualFire, Finish
    <3> QED BY <3>1, <3>2, <3>3
  <2>5. /\ wall' < wall => pc \in {"asleep", "down", "stopped"}
        /\ age' < Floor => age < Floor /\ Reach(lag)' <= Reach(lag)
    BY <1>1, <2>1, <2>3
  <2> QED BY <1>1, <2>1, <2>3, <2>4, <2>5, AroundStep
<1>6. CASE Crash
  <2>1. /\ row' = row /\ UNCHANGED <<wall, drift, age>> /\ heap' = {} /\ pc' = "down" /\ then' = "boot"
        /\ Happens("crash")
    BY <1>6 DEF Crash
  <2>2. spent'["clock"] = spent["clock"]
    BY <2>1 DEF Happens, Types, EnvEvents
  <2>3. Clocks(lag)' /\ ConfigsKept
    BY <1>1, <2>1, <2>2, SameReach DEF ConfigsKept
  <2>4. ~Guarded' /\ Places' /\ \A e \in heap' : e[1] \in Int
    BY <2>1 DEF Guarded, Places, Handling
  <2> QED BY <1>1, <2>3, <2>4, Unguarded
<1> QED BY <1>3, <1>4, <1>5, <1>6 DEF Environment

-----------------------------------------------------------------------------
(* The heap is complete *)

Tunable(jitter) ==
    \A start \in Starts : \A t \in Timers :
        /\ \A s \in Slots : start[t].config.jitter[s] \in 0..jitter
        /\ start[t].config.misfire = "skip" => start[t].config.every = 0
SetBackWhileWaiting == wall' < wall => pc \in {"asleep", "down", "stopped"}

LEMMA InitHeap ==
    ASSUME Init, NEW lag \in Nat, NEW jitter \in Nat, Tunable(jitter)
    PROVE  HeapInv(lag, jitter)
<1>1. PICK start \in Starts : \A t \in Timers : row[t].config = start[t].config
  BY DEF Init
<1>2. heap = {} /\ pc = "down" /\ then = "boot" /\ drift = 0 /\ age = 0 /\ spent["clock"] = 0
  BY DEF Init, EnvEvents
<1>3. Tuned(jitter)
  BY <1>1, <1>2 DEF Tuned, Tunable
<1>4. Clocks(lag)
  <2>1. Budget["clock"] \in Nat
    BY BoundsAssumption DEF EnvEvents
  <2>2. lag * 0 = 0
    OBVIOUS
  <2>3. lag * spent["clock"] = 0
    BY <1>2, <2>2
  <2> QED BY <1>2, <2>1, <2>3 DEF Clocks
<1>5. Places /\ ~Guarded
  BY <1>2 DEF Places, Guarded, Handling
<1> QED BY <1>3, <1>4, <1>5 DEF HeapInv, Seen

LEMMA HeapNext ==
    ASSUME Types, Types', NEW lag \in Nat, Jump <= lag, \A d \in Steps : 0 <= d + lag,
           NEW jitter \in Nat, HeapInv(lag, jitter), SetBackWhileWaiting, [Next]_vars
    PROVE  HeapInv(lag, jitter)'
<1>1. CASE Thread
  BY <1>1, ScanHeap, RebuildHeap, IdleHeap, DrainHeap, HeldReads, HeldWrites, RequeueHeap DEF Thread
<1>2. CASE Environment
  BY <1>2, AroundHeap DEF SetBackWhileWaiting
<1>3. CASE UNCHANGED vars
  <2>1. /\ UNCHANGED <<heap, at, resolved, cur, slot, pc, then, foreign>> /\ row' = row
        /\ UNCHANGED <<wall, drift, age, spent>>
    BY <1>3 DEF vars, clocks, claims, events, local, work
  <2>2. ConfigsKept /\ Clocks(lag)' /\ Reach(lag)' = Reach(lag) /\ Reach(lag) \in Int
    BY <2>1, SameReach, ReachIsInt DEF ConfigsKept, HeapInv
  <2>3. wall' \in Int /\ Reach(lag)' <= Reach(lag)
    BY <2>1, <2>2 DEF Types, Locals
  <2> QED BY <2>1, <2>2, <2>3, AroundStep DEF SetBackWhileWaiting
<1> QED BY <1>1, <1>2, <1>3 DEF Next

LEMMA HeapSuffices ==
    ASSUME Types, NEW lag \in Nat, NEW jitter \in Nat, Jump <= lag, HeapInv(lag, jitter),
           Floor - 1 + jitter + lag * Budget["clock"] <= Horizon
    PROVE  HeapComplete
<1> SUFFICES ASSUME pc = "asleep", ~foreign, age < Floor, Absolute(drift) <= Jump,
                    NEW t \in Timers, Due(row[t], wall)
             PROVE  \E e \in heap : e[2] = t /\ e[1] <= ExecAt(t, row[t].next)
  BY DEF HeapComplete
<1> DEFINE x == ExecAt(t, row[t].next)
           n == spent["clock"]
           m == Budget["clock"]
<1>1. Queued(t, lag) /\ Wanted(t) /\ row[t].next <= wall
  BY DEF HeapInv, Places, Guarded, Seen, Safe, Handling, Due, Overdue, Wanted
<1>2. x \in Int /\ x <= row[t].next + jitter /\ row[t].next \in Int
  BY <1>1, ExecIsInt DEF HeapInv, Wanted
<1>3. lag * n \in Nat /\ n \in Nat /\ Charge(lag) = IF drift > 0 THEN lag * n - lag ELSE lag * n
  BY ReachIsInt DEF HeapInv
<1>4. /\ drift \in Int /\ age \in Nat /\ wall \in Nat /\ Horizon \in Nat /\ Jump \in Nat /\ Floor \in Nat
      /\ m \in Nat /\ n <= m /\ (drift > 0 => drift <= Jump)
  BY LimitsAssumption, BoundsAssumption DEF HeapInv, Clocks, Types, Locals, Absolute, EnvEvents
<1>5. lag * n <= lag * m /\ lag * m \in Nat
  <2>1. m - n \in Nat /\ m = n + (m - n)
    BY <1>3, <1>4
  <2>2. PICK k \in Nat : m = n + k
    BY <2>1
  <2>3. lag * (n + k) = lag * n + lag * k /\ lag * k \in Nat
    BY <1>3
  <2> QED BY <1>3, <2>2, <2>3
<1> HIDE DEF x, n, m
<1>6. PICK p \in Nat, q \in Nat : p = lag * n /\ q = lag * m
  BY <1>3, <1>5
<1>7. Reach(lag) = wall - drift + Horizon - age - (IF drift > 0 THEN p - lag ELSE p)
  BY <1>3, <1>6 DEF Reach
<1>8. Floor - 1 + jitter + q <= Horizon /\ p <= q
  BY <1>5, <1>6 DEF m
<1>9. wall + jitter <= Reach(lag)
  <2>1. CASE drift > 0
    BY <1>4, <1>7, <1>8, <2>1
  <2>2. CASE ~(drift > 0)
    BY <1>4, <1>7, <1>8, <2>2
  <2> QED BY <2>1, <2>2
<1>10. Reach(lag) \in Int
  BY ReachIsInt DEF HeapInv
<1>11. ~Far(t, lag)
  BY <1>1, <1>2, <1>4, <1>9, <1>10 DEF Far, x
<1> QED BY <1>1, <1>11 DEF Queued

\* While it sleeps and nothing tells it to look again, the heap wakes the thread for every due timer
\* (rebuild_horizon, push_if_in_horizon, drain_due).  No timer's jitter comes before its slot and no
\* interval is under Skip (Tunable); the clock is not set back in the middle of a pass; and what a
\* rebuild sees beyond the floor, the horizon, leaves room for the largest jitter and for each step of
\* the clock - by `back` at most to the past, below the jump threshold to the future.
THEOREM HeapIsComplete ==
    ASSUME NEW back \in Nat, \A d \in Steps : -back <= d,
           NEW jitter \in Nat, Tunable(jitter),
           Floor - 1 + jitter + (Jump + back) * Budget["clock"] <= Horizon
    PROVE  Spec /\ [][SetBackWhileWaiting]_vars => []HeapComplete
<1> DEFINE lag == Jump + back
<1>1. /\ lag \in Nat /\ Jump <= lag /\ \A d \in Steps : 0 <= d + lag
      /\ Floor - 1 + jitter + lag * Budget["clock"] <= Horizon
  BY LimitsAssumption, ClockAssumption
<1> HIDE DEF lag
<1> DEFINE Complete == Inv /\ HeapInv(lag, jitter)
<1>2. Init => Complete
  BY <1>1, InitInv, InitHeap
<1>3. Complete /\ [Next]_vars /\ [SetBackWhileWaiting]_vars => Complete'
  <2> SUFFICES ASSUME Complete, [Next]_vars, [SetBackWhileWaiting]_vars PROVE Complete'
    OBVIOUS
  <2>1. Inv'
    BY InvStep
  <2>2. Types /\ Types'
    BY <2>1 DEF Inv
  <2>3. SetBackWhileWaiting
    <3>1. CASE UNCHANGED vars
      <4>1. wall' = wall /\ wall \in Nat
        BY <2>2, <3>1 DEF vars, clocks, Types, Locals
      <4> QED BY <4>1 DEF SetBackWhileWaiting
    <3> QED BY <3>1
  <2> QED BY <1>1, <2>1, <2>2, <2>3, HeapNext
<1>4. Complete => HeapComplete
  BY <1>1, HeapSuffices DEF Inv
<1> QED BY <1>2, <1>3, <1>4, PTL DEF Spec

-----------------------------------------------------------------------------
(* The log of a backlog *)

Logs(t) == row[t].config.misfire # "catch_up"
Logged(t, s) == <<t, s>> \in open \union closed \union merged \union skipped
Pending(t, s) == row[t].next # Never /\ row[t].next <= s

\* No instant after x comes before the next fire.
Reached(t, x) == Exhausted(row[t]) \/ \A s \in row[t].rule : s > x => Pending(t, s)
Since(t) == IF row[t].last = Never THEN wall ELSE row[t].last

\* The instants that the timer in hand will have passed when it is let go, or moved on.
Upto(c) == IF row[c].config.misfire = "skip" THEN slot ELSE at
Backlog(c) == {s \in row[c].rule : s <= Upto(c) /\ (Pending(c, s) \/ slot <= s)}

Aging ==
    /\ wall <= MaxTime /\ at <= wall
    /\ \A t \in Timers : row[t].rule \in Rules /\ row[t].config.misfire \in {"skip", "coalesce", "catch_up"}
    /\ \A t \in Timers : Logs(t) => row[t].last <= wall /\ Reached(t, Since(t))
ManualAging ==
    manual.pc \in {"read", "fired"} =>
        /\ manual.at <= wall
        /\ \A m \in Timers : m = manual.timer /\ "manual" \in fresh /\ Logs(m) =>
               row[m].last <= manual.at /\ Reached(m, manual.at)

\* A slot that was claimed is not after the last fire, or its mark is owed.
Recorded ==
    pc # "stopped" =>
        \A t \in Timers : Logs(t) /\ row[t].phase # "gone" =>
            \A s \in Int : Claimed(t, s) =>
                s <= row[t].last \/ (t = cur /\ s = slot /\ pc \in {"mark", "marking"})

Carried(c) ==
    /\ pc \notin {"ensure", "ensuring", "catch", "anchor", "anchoring", "caught"}
    /\ pc \in {"fire", "mark", "marking"} => 0 <= slot /\ slot <= at
    /\ pc = "fire" => /\ ~Claimed(c, slot)
                      /\ Backlog(c) \subseteq batch \union {slot} /\ IsFiniteSet(batch)
                      /\ batch # {} => slot \in batch
    /\ pc \in {"mark", "marking"} => \A s \in Backlog(c) : Logged(c, s)
    /\ pc = "marking" /\ "scheduler" \in fresh => row[c].last < slot
    /\ pc \in {"advance", "advancing"} =>
           slot = at /\ \A s \in row[c].rule : Pending(c, s) /\ s <= slot => Logged(c, s)

LogInv == Calm => /\ Aging /\ ManualAging /\ Recorded
                  /\ \A c \in Timers : c = cur /\ Logs(c) => Carried(c)

Uncapped == \A rule \in Rules : Cardinality(rule \cap Instants) <= WalkCap + 1

-----------------------------------------------------------------------------
(* Next fires *)

LEMMA FirstFire ==
    ASSUME NEW r, RowType(r), NEW after \in Int, ~Exhausted(r), NEW s \in r.rule, s > after
    PROVE  NextFire(r, after) # Never /\ NextFire(r, after) <= s
<1> DEFINE S == {u \in r.rule : u > after}
<1>1. S \subseteq Nat /\ s \in S
  BY DEF RowType
<1>2. NextFire(r, after) = Earliest(S) /\ S # {}
  BY <1>1 DEF NextFire
<1> HIDE DEF S
<1>3. Earliest(S) \in S /\ \A u \in S : Earliest(S) <= u
  BY <1>1, <1>2, SmallestMember DEF Earliest
<1> QED BY <1>1, <1>2, <1>3 DEF Never

\* What a write leaves: no instant after the last fire comes before the next one, and the next
\* fire has not come nearer if that was so before.
LEMMA NextGrows ==
    ASSUME Types, NEW t \in Timers, NEW r, RowType(r), Write(t, r), NEW base \in Int,
           base = IF r.last = Never THEN wall ELSE r.last
    PROVE  /\ row'[t].rule = r.rule
           /\ Reached(t, base)'
           /\ r.rule = row[t].rule /\ r.config = row[t].config /\ r.runs >= row[t].runs /\ Reached(t, base)
                => \A s \in Int : Pending(t, s)' => Pending(t, s)
<1> DEFINE n == NextFire(r, base)
           q == Recomputed(r)
<1>1. row'[t] = q /\ RowType(row[t])
  BY DEF Write, Types, Rowed
<1>2. q = [r EXCEPT !.next = n]
  BY DEF Recomputed
<1>3. n \in Int
  BY NextIsLater
<1> HIDE DEF n
<1>4. q.next = n /\ q.rule = r.rule /\ q.runs = r.runs /\ q.config = r.config
  BY <1>2 DEF RowType
<1> HIDE DEF q
<1>5. Exhausted(q) <=> Exhausted(r)
  BY <1>4 DEF Exhausted
<1>6. Reached(t, base)'
  <2> SUFFICES ASSUME ~Exhausted(r), NEW s \in r.rule, s > base PROVE n # Never /\ n <= s
    BY <1>1, <1>4, <1>5 DEF Reached, Pending
  <2> QED BY FirstFire DEF n
<1>7. ASSUME r.rule = row[t].rule, r.config = row[t].config, r.runs >= row[t].runs, Reached(t, base),
             NEW s \in Int, Pending(t, s)'
      PROVE  Pending(t, s)
  <2>1. n # Never /\ n <= s
    BY <1>1, <1>4, <1>7 DEF Pending
  <2>2. n \in r.rule /\ n > base /\ ~Exhausted(r)
    BY <2>1, NothingBetween DEF n
  <2>3. ~Exhausted(row[t])
    BY <1>7, <2>2, <1>1 DEF Exhausted, RowType
  <2>4. Pending(t, n)
    BY <1>7, <2>2, <2>3 DEF Reached
  <2> QED BY <1>1, <1>3, <2>1, <2>4 DEF Pending, RowType
<1> QED BY <1>1, <1>4, <1>6, <1>7

LEMMA ReachedLater ==
    ASSUME NEW t, RowType(row[t]), NEW x \in Int, NEW y \in Int, x <= y, Reached(t, x)
    PROVE  Reached(t, y)
BY DEF Reached, RowType

\* One walk passes the whole backlog.
LEMMA WholeWalk ==
    ASSUME Uncapped, NEW r, RowType(r), r.rule \in Rules, NEW now \in Nat, now <= MaxTime,
           r.next # Never
    PROVE  Walk(r, now) = Missed(r, now) /\ IsFiniteSet(Missed(r, now))
<1> DEFINE R == r.rule \cap Instants
           M == Missed(r, now)
<1>1. MaxTime \in Nat /\ WalkCap \in Nat
  BY LimitsAssumption
<1>2. IsFiniteSet(R)
  <2>1. IsFiniteSet(0..MaxTime)
    BY <1>1, FS_Interval
  <2> QED BY <2>1, FS_Subset DEF Instants
<1>3. M \subseteq R
  BY <1>1 DEF Missed, Instants, RowType
<1>4. IsFiniteSet(M)
  BY <1>2, <1>3, FS_Subset
<1>5. ASSUME NEW s \in M PROVE Cardinality({u \in M : u < s}) <= WalkCap
  <2> DEFINE L == {u \in M : u < s}
  <2>1. L \subseteq M /\ s \notin L
    BY <1>3, <1>5 DEF RowType
  <2>2. IsFiniteSet(L)
    BY <1>4, <2>1, FS_Subset
  <2> HIDE DEF L, M
  <2>3. IsFiniteSet(L \union {s}) /\ Cardinality(L \union {s}) = Cardinality(L) + 1
    BY <2>1, <2>2, FS_AddElement
  <2>4. L \union {s} \subseteq R
    BY <1>3, <1>5, <2>1
  <2>5. Cardinality(L \union {s}) <= Cardinality(R)
    BY <1>2, <2>4, FS_Subset
  <2>6. Cardinality(R) <= WalkCap + 1 /\ Cardinality(L) \in Nat /\ Cardinality(R) \in Nat
    BY <1>2, <2>2, FS_CardinalityType DEF Uncapped
  <2>7. Cardinality(L) <= WalkCap
    BY <1>1, <2>3, <2>5, <2>6
  <2> QED BY <2>7 DEF L
<1>6. Walk(r, now) = M
  BY <1>5 DEF Walk
<1> QED BY <1>4, <1>6

-----------------------------------------------------------------------------
(* Kinds of steps *)

\* A row of another process, or one nobody writes.
Onwards(t) ==
    /\ row'[t].config = row[t].config /\ row'[t].rule = row[t].rule
    /\ row'[t].phase # "gone" => row[t].phase # "gone"
    /\ Logs(t) => row'[t].last >= row[t].last /\ \A s \in Int : Pending(t, s)' => Pending(t, s)

LEMMA StillOnwards ==
    ASSUME Types, NEW t \in Timers, row'[t] = row[t]
    PROVE  Onwards(t)
<1>1. RowType(row[t])
  BY DEF Types, Rowed
<1> QED BY <1>1 DEF Onwards, Pending, RowType

LEMMA StillAging ==
    ASSUME Types, Aging, row' = row, wall <= wall', wall' <= MaxTime, wall' \in Int, at' <= wall'
    PROVE  Aging'
<1>1. \A t \in Timers : Logs(t)' = Logs(t)
  BY DEF Logs
<1>2. ASSUME NEW t \in Timers, Logs(t) PROVE row[t].last <= wall' /\ Reached(t, Since(t))'
  <2>1. RowType(row[t]) /\ wall \in Int /\ row[t].last <= wall /\ Reached(t, Since(t))
    BY <1>2 DEF Aging, Types, Locals, Rowed
  <2>2. CASE row[t].last = Never
    <3>1. Reached(t, wall) /\ Since(t)' = wall'
      BY <2>1, <2>2 DEF Since
    <3>2. Reached(t, wall')
      BY <2>1, <3>1, ReachedLater
    <3> QED BY <2>1, <3>1, <3>2 DEF Reached, Pending, RowType
  <2>3. CASE row[t].last # Never
    <3>1. Since(t)' = row[t].last /\ Since(t) = row[t].last
      BY <2>3 DEF Since
    <3> QED BY <2>1, <3>1 DEF Reached, Pending, RowType
  <2> QED BY <2>2, <2>3
<1> QED BY <1>1, <1>2 DEF Aging

LEMMA ManualStays ==
    ASSUME Types, ManualAging, manual' = manual, wall <= wall', wall' \in Int,
           "manual" \in fresh' => "manual" \in fresh /\ row'[manual.timer] = row[manual.timer]
    PROVE  ManualAging'
<1> SUFFICES ASSUME manual.pc \in {"read", "fired"}
             PROVE  /\ manual.at <= wall'
                    /\ \A m \in Timers : m = manual.timer /\ "manual" \in fresh' /\ Logs(m)' =>
                          row'[m].last <= manual.at /\ Reached(m, manual.at)'
  BY DEF ManualAging
<1>1. manual.at <= wall'
  BY DEF ManualAging, Types, Locals
<1>2. ASSUME NEW m \in Timers, m = manual.timer, "manual" \in fresh', Logs(m)'
      PROVE  row'[m].last <= manual.at /\ Reached(m, manual.at)'
  <2>1. row'[m] = row[m] /\ "manual" \in fresh
    BY <1>2
  <2>2. Logs(m)
    BY <1>2, <2>1 DEF Logs
  <2>3. row[m].last <= manual.at /\ Reached(m, manual.at)
    BY <1>2, <2>1, <2>2 DEF ManualAging
  <2>4. PICK x : x = manual.at
    OBVIOUS
  <2>5. Reached(m, x)' <=> Reached(m, x)
    BY <2>1 DEF Reached, Pending, Exhausted
  <2> QED BY <2>1, <2>3, <2>4, <2>5
<1> QED BY <1>1, <1>2

\* The environment moves, the thread stands still.
LEMMA LogAround ==
    ASSUME Types, Types', LogInv, Calm, Aging', ManualAging',
           UNCHANGED <<pc, cur, slot, at, batch, merged, skipped>>, SameClaims,
           \A t \in Timers : Onwards(t),
           "scheduler" \in fresh' => "scheduler" \in fresh /\ row'[cur] = row[cur]
    PROVE  LogInv'
<1>1. \A t \in Timers : \A s : Claimed(t, s)' = Claimed(t, s) /\ Logged(t, s)' = Logged(t, s)
  BY DEF Claimed, Logged, SameClaims
<1>2. \A t \in Timers : Logs(t)' = Logs(t)
  BY DEF Logs, Onwards
<1>3. Recorded'
  <2>1. ASSUME pc # "stopped", NEW t \in Timers, Logs(t), row'[t].phase # "gone", NEW s \in Int, Claimed(t, s)
        PROVE  s <= row'[t].last \/ (t = cur /\ s = slot /\ pc \in {"mark", "marking"})
    <3>1. s <= row[t].last \/ (t = cur /\ s = slot /\ pc \in {"mark", "marking"})
      BY <2>1 DEF LogInv, Recorded, Onwards
    <3>2. row[t].last \in Int /\ row'[t].last >= row[t].last /\ row'[t].last \in Int
      BY <2>1 DEF Types, Rowed, RowType, Onwards
    <3> QED BY <3>1, <3>2
  <2>2. ASSUME pc # "stopped", NEW t \in Timers, Logs(t)', row'[t].phase # "gone", NEW s \in Int, Claimed(t, s)'
        PROVE  s <= row'[t].last \/ (t = cur /\ s = slot /\ pc \in {"mark", "marking"})
    <3>1. Logs(t) /\ Claimed(t, s)
      BY <1>1, <1>2, <2>2
    <3> QED BY <2>1, <2>2, <3>1
  <2> QED BY <2>2 DEF Recorded
<1>4. ASSUME NEW c \in Timers, c = cur, Logs(c) PROVE Carried(c)'
  <2>1. Carried(c) /\ Onwards(c)
    BY <1>4 DEF LogInv
  <2>2. RowType(row[c]) /\ Upto(c)' = Upto(c)
    BY <2>1 DEF Types, Rowed, Upto, Onwards
  <2>3. Backlog(c)' \subseteq Backlog(c)
    BY <1>4, <2>1, <2>2 DEF Backlog, Onwards, RowType
  <2>4. \A s \in row[c].rule : Pending(c, s)' => Pending(c, s)
    BY <1>4, <2>1, <2>2 DEF Onwards, RowType
  <2>5. row'[c].rule = row[c].rule
    BY <2>1 DEF Onwards
  <2>6. pc = "marking" /\ "scheduler" \in fresh' => row'[c].last < slot
    BY <1>4, <2>1 DEF Carried
  <2> QED BY <1>1, <2>1, <2>3, <2>4, <2>5, <2>6 DEF Carried
<1> QED BY <1>2, <1>3, <1>4 DEF LogInv

\* The thread has no timer in hand before and after, or loses its hold on it.
LEMMA LogQuiet ==
    ASSUME Types, LogInv, Calm, row' = row, wall' = wall, manual' = manual, at' <= wall, SameClaims,
           "manual" \in fresh' => "manual" \in fresh,
           pc \notin {"mark", "marking", "stopped"} \/ pc' = "stopped",
           pc' \notin {"fire", "mark", "marking", "ensure", "ensuring", "advance", "advancing",
                       "catch", "anchor", "anchoring", "caught"}
    PROVE  LogInv'
<1>1. wall <= wall' /\ wall' \in Int /\ wall' <= MaxTime
  BY DEF Types, Locals, LogInv, Aging
<1>2. Aging'
  BY <1>1, StillAging DEF LogInv
<1>3. ManualAging'
  BY <1>1, ManualStays DEF LogInv
<1>4. \A t \in Timers : \A s : Claimed(t, s)' = Claimed(t, s) /\ Logs(t)' = Logs(t)
  BY DEF Claimed, SameClaims, Logs
<1>5. Recorded'
  BY <1>4 DEF LogInv, Recorded
<1>6. \A c \in Timers : Carried(c)'
  BY DEF Carried
<1> QED BY <1>2, <1>3, <1>5, <1>6 DEF LogInv

\* The thread goes on with the timer in hand, whose row is as it was.
LEMMA LogGoesOn ==
    ASSUME Types, LogInv, Calm, row' = row, UNCHANGED <<wall, manual, at>>,
           "manual" \in fresh' => "manual" \in fresh,
           Recorded', \A c \in Timers : c = cur' /\ Logs(c) => Carried(c)'
    PROVE  LogInv'
<1>1. wall <= wall' /\ wall' \in Int /\ wall' <= MaxTime /\ at' <= wall'
  BY DEF Types, Locals, LogInv, Aging
<1>2. Aging'
  BY <1>1, StillAging DEF LogInv
<1>3. ManualAging'
  BY <1>1, ManualStays DEF LogInv
<1>4. \A t \in Timers : Logs(t)' = Logs(t)
  BY DEF Logs
<1> QED BY <1>2, <1>3, <1>4 DEF LogInv

LEMMA LogCarries ==
    ASSUME Types, LogInv, Calm, row' = row, UNCHANGED <<wall, manual, at>>, SameClaims,
           "manual" \in fresh' => "manual" \in fresh,
           pc \notin {"mark", "marking", "stopped"} \/ (pc = "mark" /\ pc' = "marking" /\ UNCHANGED <<cur, slot>>),
           \A c \in Timers : c = cur' /\ Logs(c) => Carried(c)'
    PROVE  LogInv'
<1>1. \A t \in Timers : \A s : Claimed(t, s)' = Claimed(t, s) /\ Logs(t)' = Logs(t)
  BY DEF Claimed, SameClaims, Logs
<1>2. Recorded'
  BY <1>1 DEF LogInv, Recorded
<1> QED BY <1>2, LogGoesOn

\* Boot, ticks, rebuilds, the end of a pass.
LEMMA LogMoves ==
    ASSUME Types, LogInv, Calm,
           Boot \/ Rebuild \/ Wake \/ CheckStore \/ Tick \/ ScanDone \/ DrainDone \/ Requeue
    PROVE  LogInv'
<1> USE DEF clocks, claims, events, local, work
<1>1. at <= wall /\ at \in Nat /\ wall \in Nat
  BY DEF LogInv, Aging, Types, Locals
<1>2. then \in {"boot", "jump", "asleep", "check", "tick", "drain"}
  BY DEF Types, Locals
<1>3. /\ row' = row /\ wall' = wall /\ manual' = manual /\ at' <= wall /\ SameClaims /\ fresh' = fresh
      /\ pc \notin {"mark", "marking", "stopped"}
      /\ pc' \in {"scan", "asleep", "stopped", "check", "tick", "drain", "rebuild", "boot", "jump"}
  <2>1. CASE Boot
    BY <1>1, <2>1 DEF Boot, StartScan, SameClaims
  <2>2. CASE Rebuild
    BY <1>1, <1>2, <2>2 DEF Rebuild, SameClaims
  <2>3. CASE Wake
    BY <1>1, <2>3 DEF Wake, Snapshot, SameClaims
  <2>4. CASE CheckStore
    BY <1>1, <2>4 DEF CheckStore, Snapshot, SameClaims
  <2>5. CASE Tick
    BY <1>1, <2>5 DEF Tick, FallAsleep, StartScan, SameClaims
  <2>6. CASE ScanDone
    BY <1>1, <2>6 DEF ScanDone, Snapshot, SameClaims
  <2>7. CASE DrainDone
    BY <1>1, <2>7 DEF DrainDone, FallAsleep, SameClaims
  <2>8. CASE Requeue
    BY <1>1, <2>8 DEF Requeue, Return, SameClaims
  <2> QED BY <2>1, <2>2, <2>3, <2>4, <2>5, <2>6, <2>7, <2>8
<1> QED BY <1>3, LogQuiet

\* The due handler takes the whole backlog in hand, or logs it.
LEMMA LogHandles ==
    ASSUME Types, LogInv, Calm, Uncapped, NEW t \in Timers, Overdue(row[t], at), HandleDue(t),
           pc \in {"scan", "drain"}, row' = row, UNCHANGED <<at, open, closed, wall, manual, fresh>>
    PROVE  LogInv'
<1> DEFINE r == row[t]
           walk == Walk(r, at)
           graced == InGrace(t, walk, at)
           miss == Missed(r, at)
<1>1. /\ RowType(r) /\ RowOK(r) /\ at \in Nat /\ at <= MaxTime /\ r.rule \in Rules
      /\ r.phase = "live" /\ r.next # Never /\ r.next <= at /\ r.next \in Nat
      /\ r.last < r.next /\ r.last \in Int
  BY LimitsAssumption DEF Types, Locals, Rowed, RowType, RowOK, Overdue, Never, LogInv, Aging
<1>2. walk = miss /\ IsFiniteSet(miss)
  BY <1>1, WholeWalk
<1>3. miss \subseteq Nat /\ \A s \in miss : r.next <= s /\ s <= at
  BY <1>1 DEF Missed, RowType
<1>4. /\ cur' = t
      /\ \/ r.config.misfire = "skip" /\ pc' = "fire" /\ slot' = r.next /\ batch' = {}
         \/ /\ r.config.misfire = "coalesce" /\ pc' = "fire" /\ graced # {}
            /\ slot' = Latest(graced) /\ batch' = walk
         \/ pc' = "advance" /\ slot' = at /\ skipped' = skipped \union {<<t, s>> : s \in walk}
         \/ r.config.misfire = "catch_up" /\ pc' = "catch"
      /\ merged' = merged
  BY DEF HandleDue
<1>5. graced \subseteq miss
  BY <1>2 DEF InGrace
<1>6. graced # {} => Latest(graced) \in graced
  <2>1. graced \subseteq Nat /\ \A s \in graced : s <= at
    BY <1>3, <1>5
  <2> HIDE DEF graced
  <2> QED BY <1>1, <2>1, LatestIsThere
<1> HIDE DEF graced, walk
<1>7. ASSUME Logs(t) PROVE Carried(t)'
  <2>1. \A s \in Int : Claimed(t, s) => s <= r.last
    BY <1>1, <1>7 DEF LogInv, Recorded
  <2>2. CASE pc' = "fire" /\ slot' = r.next /\ batch' = {} /\ r.config.misfire = "skip"
    <3>1. ~Claimed(t, slot)'
      <4>1. ~Claimed(t, r.next)
        BY <1>1, <2>1
      <4> QED BY <4>1, <2>2 DEF Claimed
    <3>2. Backlog(t)' \subseteq {slot'}
      <4> SUFFICES ASSUME NEW s, s \in Backlog(t)' PROVE s = slot'
        OBVIOUS
      <4>1. s \in r.rule /\ s <= Upto(t)' /\ (r.next <= s \/ slot' <= s) /\ Upto(t)' = slot'
        BY <2>2 DEF Backlog, Pending, Upto
      <4>2. s \in Nat
        BY <1>1, <4>1 DEF RowType
      <4> QED BY <1>1, <2>2, <4>1, <4>2
    <3> QED BY <1>1, <2>2, <3>1, <3>2, FS_EmptySet DEF Carried
  <2>3. CASE pc' = "fire" /\ graced # {} /\ slot' = Latest(graced) /\ batch' = walk /\ r.config.misfire = "coalesce"
    <3>1. slot' \in miss /\ slot' \in Nat /\ r.next <= slot' /\ slot' <= at
      BY <1>3, <1>5, <1>6, <2>3
    <3>2. ~Claimed(t, slot)'
      <4>1. ~(slot' <= r.last)
        BY <1>1, <3>1
      <4>2. PICK x \in Nat : x = slot'
        BY <3>1
      <4>3. ~Claimed(t, x)
        BY <2>1, <4>1, <4>2
      <4> QED BY <4>2, <4>3 DEF Claimed
    <3>3. Backlog(t)' \subseteq miss
      <4> SUFFICES ASSUME NEW s, s \in Backlog(t)' PROVE s \in miss
        OBVIOUS
      <4>1. s \in r.rule /\ s <= Upto(t)' /\ (r.next <= s \/ slot' <= s) /\ Upto(t)' = at
        BY <2>3 DEF Backlog, Pending, Upto
      <4>2. s \in Nat
        BY <1>1, <4>1 DEF RowType
      <4>3. r.next <= s
        BY <1>1, <3>1, <4>1, <4>2
      <4> QED BY <4>1, <4>3 DEF Missed
    <3>4. batch' = miss
      BY <1>2, <2>3
    <3> HIDE DEF miss
    <3> QED BY <1>1, <1>2, <2>3, <3>1, <3>2, <3>3, <3>4 DEF Carried
  <2>4. CASE pc' = "advance" /\ slot' = at /\ skipped' = skipped \union {<<t, s>> : s \in walk}
    <3>1. ASSUME NEW s \in r.rule, r.next <= s, s <= at PROVE Logged(t, s)'
      <4>1. s \in miss
        BY <3>1 DEF Missed
      <4>2. <<t, s>> \in skipped'
        BY <1>2, <2>4, <4>1
      <4> QED BY <4>2 DEF Logged
    <3>2. \A s \in row'[t].rule : Pending(t, s)' /\ s <= slot' => Logged(t, s)'
      BY <2>4, <3>1 DEF Pending
    <3> QED BY <2>4, <3>2 DEF Carried
  <2> QED BY <1>4, <1>7, <2>2, <2>3, <2>4 DEF Logs
<1>8. \A c \in Timers : c = cur' /\ Logs(c) => Carried(c)'
  BY <1>4, <1>7
<1> QED BY <1>8, LogCarries DEF SameClaims

LEMMA LogPasses ==
    ASSUME Types, LogInv, Calm, Uncapped, ScanNext \/ DrainNext
    PROVE  LogInv'
<1> USE DEF clocks, claims, events, local, work
<1>1. /\ pc \in {"scan", "drain"} /\ row' = row
      /\ UNCHANGED <<at, open, closed, wall, manual, fresh>> /\ SameClaims
  BY DEF ScanNext, DrainNext, SameClaims
<1>2. at' <= wall
  BY <1>1 DEF LogInv, Aging
<1>3. CASE pc' = pc
  BY <1>1, <1>2, <1>3, LogQuiet
<1>4. CASE pc' # pc
  <2>1. PICK t \in Timers : Overdue(row[t], at) /\ HandleDue(t)
    <3>1. CASE ScanNext
      <4>1. PICK t \in todo : Due(row[t], at) /\ HandleDue(t)
        BY <1>4, <3>1 DEF ScanNext
      <4> QED BY <4>1 DEF Due, Types, Locals
    <3>2. CASE DrainNext
      <4>1. PICK e \in heap :
              /\ row[e[2]].phase = "live" /\ row[e[2]].next # Never
              /\ ~(row[e[2]].next > at) /\ HandleDue(e[2])
        BY <1>4, <3>2 DEF DrainNext
      <4>2. e[2] \in Timers /\ at \in Nat /\ row[e[2]].next \in Int
        BY DEF Types, Locals, Rowed, RowType
      <4>3. Overdue(row[e[2]], at)
        BY <4>1, <4>2 DEF Overdue
      <4> QED BY <4>1, <4>2, <4>3
    <3> QED BY <3>1, <3>2
  <2> QED BY <1>1, <2>1, LogHandles
<1> QED BY <1>3, <1>4
LEMMA LogFires ==
    ASSUME Types, LogInv, Calm, Fire
    PROVE  LogInv'
<1> USE DEF clocks, claims, events, local, work
<1>1. /\ pc = "fire" /\ cur' = cur /\ slot' = slot /\ batch' = batch /\ pc' \in {"mark", "ensure"}
      /\ row' = row /\ UNCHANGED <<wall, manual, at, fresh, skipped>>
      /\ open' \union closed' \in {open \union closed, (open \union closed) \union {<<cur, slot>>}}
      /\ open' \union closed' = open \union closed \/ pc' = "mark"
  BY DEF Fire, Turn
<1>2. Recorded'
  <2> SUFFICES ASSUME NEW t \in Timers, Logs(t)', row'[t].phase # "gone", NEW s \in Int, Claimed(t, s)'
               PROVE  s <= row'[t].last \/ (t = cur' /\ s = slot' /\ pc' \in {"mark", "marking"})
    BY DEF Recorded
  <2>1. CASE Claimed(t, s)
    BY <1>1, <2>1 DEF LogInv, Recorded, Logs
  <2>2. CASE ~Claimed(t, s)
    <3>1. <<t, s>> = <<cur, slot>> /\ pc' = "mark"
      BY <1>1, <2>2 DEF Claimed
    <3> QED BY <1>1, <3>1
  <2> QED BY <2>1, <2>2
<1>3. ASSUME NEW c \in Timers, c = cur, Logs(c) PROVE Carried(c)'
  <2>1. /\ 0 <= slot /\ slot <= at /\ ~Claimed(c, slot) /\ IsFiniteSet(batch)
        /\ Backlog(c) \subseteq batch \union {slot} /\ (batch # {} => slot \in batch)
    BY <1>1, <1>3 DEF LogInv, Carried
  <2>2. /\ open' \union closed' = (open \union closed) \union {<<c, slot>>} /\ pc' = "mark"
        /\ merged' = IF Cardinality(batch) > 1 THEN merged \union {<<c, s>> : s \in batch} ELSE merged
    BY <1>3, <2>1 DEF Fire, Claimed, Turn
  <2>3. ASSUME NEW s \in Backlog(c) PROVE Logged(c, s)'
    <3>1. CASE s = slot
      BY <2>2, <3>1 DEF Logged
    <3>2. CASE s # slot
      <4>1. s \in batch /\ slot \in batch
        BY <2>1, <2>3, <3>2
      <4>2. Cardinality({slot, s}) = 2 /\ IsFiniteSet({slot, s})
        <5>1. IsFiniteSet({s}) /\ Cardinality({s}) = 1
          BY FS_Singleton
        <5>2. {slot, s} = {s} \union {slot} /\ slot \notin {s}
          BY <3>2
        <5> QED BY <5>1, <5>2, FS_AddElement
      <4>3. {slot, s} \subseteq batch
        BY <4>1
      <4>4. Cardinality(batch) >= 2 /\ Cardinality(batch) \in Nat
        BY <2>1, <4>2, <4>3, FS_Subset, FS_CardinalityType
      <4>5. <<c, s>> \in merged'
        BY <2>2, <4>1, <4>4
      <4> QED BY <4>5 DEF Logged
    <3> QED BY <3>1, <3>2
  <2>4. Backlog(c)' = Backlog(c)
    BY <1>1, <1>3 DEF Backlog, Upto, Pending
  <2> QED BY <1>1, <2>1, <2>2, <2>3, <2>4 DEF Carried
<1> QED BY <1>1, <1>2, <1>3, LogGoesOn

LEMMA LogMarks ==
    ASSUME Types, Limits, LogInv, Calm, Mark
    PROVE  LogInv'
<1> USE DEF clocks, claims, events, local, work
<1>1. /\ pc = "mark" /\ row' = row /\ UNCHANGED <<wall, at, manual, batch>>
      /\ UNCHANGED <<open, closed, merged, skipped>> /\ SameClaims
  BY DEF Mark, SameClaims, ReadFor, Delivered, Turn
<1>2. CASE row[cur].phase = "live" /\ row[cur].last < slot
  <2>1. pc' = "marking" /\ cur' = cur /\ slot' = slot /\ fresh' = fresh \union {"scheduler"}
    BY <1>2 DEF Mark, ReadFor, Turn
  <2>2. ASSUME NEW c \in Timers, c = cur, Logs(c) PROVE Carried(c)'
    <3>1. Carried(c)
      BY <2>2 DEF LogInv
    <3>2. Backlog(c)' = Backlog(c) /\ \A s : Logged(c, s)' = Logged(c, s)
      BY <1>1, <2>1 DEF Backlog, Upto, Pending, Logged
    <3> QED BY <1>1, <1>2, <2>1, <2>2, <3>1, <3>2 DEF Carried
  <2> QED BY <1>1, <2>1, <2>2, LogCarries
<1>3. CASE ~(row[cur].phase = "live" /\ row[cur].last < slot)
  <2>1. Delivered /\ fresh' = fresh
    BY <1>3 DEF Mark
  <2>2. cur' = cur /\ pc' \in {"requeue", "advance", "caught"}
    BY <2>1, Onward
  <2>3. row[cur].phase # "gone" => slot <= row[cur].last
    <3>1. row[cur].phase \in {"live", "gone"} /\ slot \in Int /\ row[cur].last \in Int
      BY <1>1 DEF Limits, Owed, Types, Locals, Rowed, RowType
    <3> QED BY <1>3, <3>1
  <2>4. Recorded'
    <3> SUFFICES ASSUME NEW t \in Timers, Logs(t)', row'[t].phase # "gone", NEW s \in Int, Claimed(t, s)'
                 PROVE  s <= row'[t].last
      BY DEF Recorded
    <3>1. s <= row[t].last \/ (t = cur /\ s = slot)
      BY <1>1 DEF LogInv, Recorded, Logs, Claimed
    <3> QED BY <1>1, <2>3, <3>1
  <2>5. ASSUME NEW c \in Timers, c = cur, Logs(c) PROVE Carried(c)'
    <3>1. Carried(c) /\ row[c].config.misfire \in {"skip", "coalesce"}
      BY <2>5 DEF LogInv, Aging, Logs
    <3>2. CASE row[c].config.misfire = "skip"
      <4>1. pc' = "requeue"
        BY <2>1, <2>5, <3>2 DEF Delivered, Turn
      <4> QED BY <4>1 DEF Carried
    <3>3. CASE row[c].config.misfire = "coalesce"
      <4>1. pc' = "advance" /\ slot' = at
        BY <2>1, <2>5, <3>3 DEF Delivered, Turn
      <4>2. ASSUME NEW s \in row[c].rule, Pending(c, s), s <= at PROVE Logged(c, s)
        <5>1. s \in Backlog(c)
          BY <3>3, <4>2 DEF Backlog, Upto
        <5> QED BY <1>1, <3>1, <5>1 DEF Carried
      <4>3. \A s \in row'[c].rule : Pending(c, s)' /\ s <= slot' => Logged(c, s)'
        BY <1>1, <4>1, <4>2 DEF Pending, Logged
      <4> QED BY <1>1, <4>1, <4>3 DEF Carried
    <3> QED BY <3>1, <3>2, <3>3
  <2> QED BY <1>1, <2>1, <2>2, <2>4, <2>5, LogGoesOn
<1> QED BY <1>2, <1>3

\* Reads before a write, and the catch-up loop, which is none of this.
LEMMA LogReads ==
    ASSUME Types, LogInv, Calm, Advance \/ Ensure \/ Anchor \/ CatchUp \/ Caught
    PROVE  LogInv'
<1> USE DEF clocks, claims, events, local, work
<1>1. /\ row' = row /\ UNCHANGED <<wall, at, manual>> /\ cur' = cur /\ SameClaims
      /\ UNCHANGED <<open, closed, merged, skipped>> /\ pc \in {"advance", "ensure", "anchor", "catch", "caught"}
      /\ "manual" \in fresh' => "manual" \in fresh
  BY DEF Advance, Ensure, Anchor, CatchUp, Caught, ReadFor, Leftover, Turn, Delivered, SameClaims
<1>2. CASE Advance
  <2>1. pc = "advance" /\ ((pc' = "advancing" /\ slot' = slot) \/ pc' = "stopped")
    BY <1>2 DEF Advance, ReadFor, Turn
  <2>2. ASSUME NEW c \in Timers, c = cur, Logs(c) PROVE Carried(c)'
    <3>1. Carried(c)
      BY <2>2 DEF LogInv
    <3>2. \A s : Logged(c, s)' = Logged(c, s) /\ Pending(c, s)' = Pending(c, s)
      BY <1>1 DEF Pending, Logged
    <3>3. slot = at /\ \A s \in row[c].rule : Pending(c, s) /\ s <= slot => Logged(c, s)
      BY <2>1, <3>1 DEF Carried
    <3>4. pc' = "stopped" \/ (slot' = at' /\ \A s \in row'[c].rule : Pending(c, s)' /\ s <= slot' => Logged(c, s)')
      BY <1>1, <2>1, <3>2, <3>3
    <3> QED BY <2>1, <3>4 DEF Carried
  <2> QED BY <1>1, <2>1, <2>2, LogCarries
<1>3. CASE pc # "advance"
  <2>1. \A c \in Timers : c = cur' => ~Logs(c)
    BY <1>1, <1>3 DEF LogInv, Carried
  <2> QED BY <1>1, <2>1, LogCarries
<1> QED BY <1>1, <1>2, <1>3 DEF Ensure, Anchor, CatchUp, Caught
\* The scheduler writes the row of the timer in hand.
LEMMA LogWrites ==
    ASSUME Types, Types', LogInv, Calm, NEW r, RowType(r), Write(cur, r), UNCHANGED <<wall, manual, at>>,
           r.rule = row[cur].rule, r.config = row[cur].config, r.phase = row[cur].phase,
           r.runs >= row[cur].runs, SameClaims, cur' = cur, pc \notin {"mark", "stopped"}, pc' # "stopped",
           Logs(cur) => /\ row[cur].last <= r.last /\ r.last <= wall /\ r.last # Never
                        /\ pc = "marking" => slot <= r.last,
           \A c \in Timers : c = cur /\ Logs(c) => Carried(c)'
    PROVE  LogInv'
<1>1. cur \in Timers /\ wall \in Nat /\ DOMAIN row = Timers /\ RowType(row[cur])
  BY DEF Types, Locals, Rowed
<1>2. /\ \A u \in Timers \ {cur} : row'[u] = row[u]
      /\ row'[cur].last = r.last /\ row'[cur].phase = r.phase /\ row'[cur].config = r.config
  BY <1>1, WriteRows
<1>3. /\ row'[cur].rule = r.rule /\ (r.last # Never => Reached(cur, r.last)')
  <2>1. PICK x \in Int : x = IF r.last = Never THEN wall ELSE r.last
    BY <1>1 DEF RowType
  <2>2. PICK c \in Timers : c = cur
    BY <1>1
  <2>3. Write(c, r) /\ x = IF r.last = Never THEN wall ELSE r.last
    BY <2>1, <2>2
  <2>4. row'[c].rule = r.rule /\ Reached(c, x)'
    BY <2>3, NextGrows
  <2> QED BY <2>1, <2>2, <2>4 DEF Reached, Pending
<1>4. \A t \in Timers : Logs(t)' = Logs(t) /\ row'[t].rule = row[t].rule /\ row'[t].config = row[t].config
  BY <1>2, <1>3 DEF Logs
<1>5. Aging'
  <2>1. ASSUME NEW t \in Timers, Logs(t) PROVE row'[t].last <= wall /\ Reached(t, Since(t))'
    <3>1. CASE t = cur
      <4>1. row[cur].last <= r.last /\ r.last <= wall /\ r.last # Never
        BY <2>1, <3>1 DEF Logs
      <4>2. Since(t)' = r.last
        BY <1>2, <3>1, <4>1 DEF Since
      <4>3. Reached(t, Since(t))'
        BY <1>3, <3>1, <4>1, <4>2 DEF Reached, Pending
      <4> QED BY <1>2, <3>1, <4>1, <4>3
    <3>2. CASE t # cur
      <4>1. row'[t] = row[t]
        BY <1>2, <3>2
      <4>2. Since(t)' = Since(t) /\ row[t].last <= wall /\ Reached(t, Since(t))
        BY <2>1, <4>1 DEF LogInv, Aging, Since
      <4> QED BY <4>1, <4>2 DEF Reached, Pending, Exhausted
    <3> QED BY <3>1, <3>2
  <2> QED BY <1>4, <2>1 DEF LogInv, Aging
<1>6. ManualAging'
  <2>1. "manual" \in fresh' => "manual" \in fresh /\ row'[manual.timer] = row[manual.timer]
    <3>1. manual.timer \in Timers
      BY DEF Types, Locals
    <3>2. ASSUME "manual" \in fresh' PROVE "manual" \in fresh /\ manual.timer # cur
      BY <3>2 DEF Write, Reading
    <3> QED BY <1>2, <3>1, <3>2
  <2> QED BY <1>1, <2>1, ManualStays DEF LogInv
<1>7. Recorded'
  <2> SUFFICES ASSUME NEW t \in Timers, Logs(t)', row'[t].phase # "gone", NEW s \in Int, Claimed(t, s)'
               PROVE  s <= row'[t].last
    BY DEF Recorded
  <2>1. Logs(t) /\ Claimed(t, s) /\ row[t].phase # "gone"
    BY <1>2, <1>4 DEF Claimed, SameClaims
  <2>2. s <= row[t].last \/ (t = cur /\ s = slot /\ pc = "marking")
    BY <2>1 DEF LogInv, Recorded
  <2>3. CASE t = cur
    BY <1>1, <1>2, <2>1, <2>2, <2>3 DEF RowType
  <2>4. CASE t # cur
    BY <1>2, <2>2, <2>4
  <2> QED BY <2>3, <2>4
<1>8. \A c \in Timers : c = cur' /\ Logs(c)' => Carried(c)'
  BY <1>4
<1> QED BY <1>5, <1>6, <1>7, <1>8 DEF LogInv

LEMMA FiredRule ==
    ASSUME NEW r, RowType(r), NEW s \in Int
    PROVE  /\ [r EXCEPT !.last = s].rule = r.rule
           /\ [r EXCEPT !.last = s, !.runs = @ + 1].rule = r.rule
BY DEF RowType

LEMMA LogMarked ==
    ASSUME Types, Types', LogInv, Calm, MarkFired
    PROVE  LogInv'
<1> USE DEF clocks, claims, events, local, work
<1> DEFINE b == [row[cur] EXCEPT !.last = slot, !.runs = @ + 1]
<1>1. /\ pc = "marking" /\ UNCHANGED <<wall, manual, at>> /\ SameClaims
      /\ UNCHANGED <<open, closed, merged, skipped>> /\ WriteBack(b, Delivered)
  BY DEF MarkFired, SameClaims
<1>2. CASE ~("scheduler" \in fresh /\ row[cur].phase = "live")
  <2>1. pc' = "stopped" /\ row' = row /\ fresh' = fresh
    BY <1>1, <1>2 DEF WriteBack
  <2>2. at <= wall
    BY DEF LogInv, Aging
  <2> QED BY <1>1, <2>1, <2>2, LogQuiet
<1>3. CASE "scheduler" \in fresh /\ row[cur].phase = "live"
  <2>1. Write(cur, b) /\ Delivered
    BY <1>1, <1>3 DEF WriteBack
  <2>2. cur' = cur /\ pc' \in {"requeue", "advance", "caught"}
    BY <2>1, Onward
  <2>3. /\ cur \in Timers /\ slot \in Int /\ at \in Nat /\ wall \in Nat /\ RowType(row[cur])
        /\ row[cur].runs \in Nat /\ slot >= Never
    BY DEF Types, Locals, Rowed, RowType
  <2>4. /\ RowType(b) /\ b.last = slot /\ b.runs = row[cur].runs + 1 /\ b.phase = row[cur].phase
        /\ b.config = row[cur].config /\ b.rule = row[cur].rule
    BY <2>3, FiredRow, FiredRule
  <2> HIDE DEF b
  <2>5. ASSUME NEW c \in Timers, c = cur, Logs(c)
        PROVE  /\ Carried(c)' /\ slot # Never /\ slot <= wall /\ row[c].last < slot
    <3>1. /\ 0 <= slot /\ slot <= at /\ row[c].last < slot
          /\ \A s \in Backlog(c) : Logged(c, s)
      BY <1>1, <1>3, <2>5 DEF LogInv, Carried
    <3>2. slot # Never /\ slot <= wall
      BY <2>3, <3>1 DEF Never, LogInv, Aging
    <3>3. row[c].config.misfire \in {"skip", "coalesce"}
      BY <2>5 DEF LogInv, Aging, Logs
    <3>4. CASE row[c].config.misfire = "skip"
      <4>1. pc' = "requeue"
        BY <2>1, <2>5, <3>4 DEF Delivered, Turn
      <4> QED BY <3>1, <3>2, <4>1 DEF Carried
    <3>5. CASE row[c].config.misfire = "coalesce"
      <4>1. pc' = "advance" /\ slot' = at
        BY <2>1, <2>5, <3>5 DEF Delivered, Turn
      <4>2. row'[c] = Recomputed(b)
        BY <2>1, <2>5 DEF Write, Types, Rowed
      <4>3. Recomputed(b) = [b EXCEPT !.next = NextFire(b, slot)]
        BY <2>4, <3>2 DEF Recomputed
      <4>4. row'[c].next = NextFire(b, slot) /\ row'[c].rule = row[c].rule
        BY <2>4, <2>5, <4>2, <4>3 DEF RowType
      <4>5. NextFire(b, slot) # Never => NextFire(b, slot) > slot /\ NextFire(b, slot) \in Int
        BY <2>3, <2>4, NextIsLater
      <4>6. ASSUME NEW s \in row[c].rule, Pending(c, s)', s <= at PROVE Logged(c, s)
        <5>1. s \in Int
          BY <2>3, <2>5, <4>6 DEF RowType
        <5>2. slot <= s
          BY <2>3, <4>4, <4>5, <4>6, <5>1 DEF Pending
        <5>3. s \in Backlog(c)
          BY <3>5, <4>6, <5>2 DEF Backlog, Upto
        <5> QED BY <3>1, <5>3
      <4>7. \A s \in row'[c].rule : Pending(c, s)' /\ s <= slot' => Logged(c, s)'
        BY <1>1, <4>1, <4>4, <4>6 DEF Logged
      <4> QED BY <1>1, <3>1, <3>2, <4>1, <4>7 DEF Carried
    <3> QED BY <3>3, <3>4, <3>5
  <2>6. \A c \in Timers : c = cur /\ Logs(c) => Carried(c)'
    BY <2>5
  <2>7. Logs(cur) => row[cur].last <= b.last /\ b.last <= wall /\ slot <= b.last /\ b.last # Never
    BY <2>3, <2>4, <2>5 DEF RowType
  <2> QED BY <1>1, <2>1, <2>2, <2>3, <2>4, <2>6, <2>7, LogWrites
<1> QED BY <1>2, <1>3
\* advance_past_now moves last_fired to an instant it has walked over, or to the one it was given.
LEMMA AdvanceWrites ==
    ASSUME Types, AdvancePastNow, pc' # "stopped"
    PROVE  /\ pc' = "requeue" /\ cur' = cur
           /\ \E r : /\ RowType(r) /\ Write(cur, r) /\ r.rule = row[cur].rule /\ r.config = row[cur].config
                     /\ r.phase = row[cur].phase /\ r.runs = row[cur].runs /\ row[cur].last <= r.last
                     /\ r.last <= slot \/ r.last = row[cur].last
                     /\ slot # Never => r.last # Never
<1> DEFINE r == row[cur]
           from == IF r.last # Never THEN r.last ELSE IF r.next # Never THEN r.next - 1 ELSE slot
           walked == IF Exhausted(r) THEN {} ELSE {s \in r.rule : from < s /\ s <= slot}
           anchor == IF walked # {} THEN Latest(walked)
                     ELSE IF r.last # Never THEN r.last ELSE slot
           b == [r EXCEPT !.last = anchor]
<1>1. WriteBack(b, Turn("requeue", 0))
  BY DEF AdvancePastNow
<1>2. Write(cur, b) /\ pc' = "requeue" /\ cur' = cur
  BY <1>1 DEF WriteBack, Turn
<1>3. /\ cur \in Timers /\ RowType(r) /\ r.last \in Int /\ r.next \in Int /\ slot \in Int /\ slot >= Never
      /\ r.runs \in Nat
  BY DEF Types, Locals, Rowed, RowType
<1>4. walked \subseteq Nat /\ \A s \in walked : s <= slot /\ from < s
  BY <1>3 DEF RowType
<1>5. walked # {} => Latest(walked) \in walked
  <2>1. walked # {} => slot \in Nat
    <3>1. ASSUME NEW s \in walked PROVE slot \in Nat
      <4>1. s \in Nat /\ s <= slot
        BY <1>4
      <4> QED BY <1>3, <4>1
    <3> QED BY <3>1
  <2> HIDE DEF walked
  <2> QED BY <1>4, <2>1, LatestIsThere
<1>6. /\ anchor \in Int /\ r.last <= anchor /\ (anchor <= slot \/ anchor = r.last)
      /\ slot # Never => anchor # Never
  <2>1. CASE walked # {}
    <3>1. anchor \in walked
      BY <1>5, <2>1
    <3> HIDE DEF anchor, walked
    <3>2. anchor \in Nat /\ anchor <= slot /\ from < anchor
      BY <1>4, <3>1
    <3>3. r.last = Never \/ from = r.last
      OBVIOUS
    <3> HIDE DEF from
    <3> QED BY <1>3, <3>2, <3>3 DEF Never
  <2>2. CASE walked = {}
    <3>1. anchor = IF r.last # Never THEN r.last ELSE slot
      BY <2>2
    <3> HIDE DEF anchor
    <3> QED BY <1>3, <3>1 DEF Never
  <2> QED BY <2>1, <2>2
<1> HIDE DEF anchor
<1>7. /\ RowType(b) /\ b.last = anchor /\ b.runs = r.runs /\ b.phase = r.phase /\ b.config = r.config
      /\ b.rule = r.rule
  <2>1. RowType(r) /\ anchor \in Int
    BY <1>3, <1>6
  <2>2. RowType(b) /\ b.last = anchor /\ b.runs = r.runs /\ b.phase = r.phase /\ b.config = r.config
    BY <2>1, FiredRow
  <2>3. b.rule = r.rule
    BY <2>1 DEF RowType
  <2> QED BY <2>2, <2>3
<1> HIDE DEF b
<1>8. /\ RowType(b) /\ Write(cur, b) /\ b.rule = row[cur].rule /\ b.config = row[cur].config
      /\ b.phase = row[cur].phase /\ b.runs = row[cur].runs /\ row[cur].last <= b.last
      /\ b.last <= slot \/ b.last = row[cur].last
      /\ slot # Never => b.last # Never
  BY <1>2, <1>6, <1>7
<1> QED BY <1>2, <1>8, Zenon

LEMMA LogAdvances ==
    ASSUME Types, Types', LogInv, Calm, EnsureAdvanced \/ AnchorLastFired \/ AdvancePastNow
    PROVE  LogInv'
<1> USE DEF clocks, claims, events, local, work
<1>1. /\ UNCHANGED <<wall, manual, at>> /\ SameClaims /\ UNCHANGED <<open, closed, merged, skipped>>
      /\ pc \in {"ensuring", "anchoring", "advancing"}
      /\ cur \in Timers /\ slot \in Int /\ RowType(row[cur]) /\ row[cur].runs \in Nat /\ row[cur].last \in Int
  BY DEF EnsureAdvanced, AnchorLastFired, AdvancePastNow, SameClaims, Types, Locals, Rowed, RowType
<1>2. CASE ~("scheduler" \in fresh /\ row[cur].phase = "live")
  <2>1. pc' = "stopped" /\ row' = row /\ fresh' = fresh
    BY <1>2 DEF EnsureAdvanced, AnchorLastFired, AdvancePastNow, WriteBack
  <2>2. at <= wall
    BY DEF LogInv, Aging
  <2> QED BY <1>1, <2>1, <2>2, LogQuiet
<1>3. CASE ("scheduler" \in fresh /\ row[cur].phase = "live") /\ (EnsureAdvanced \/ AnchorLastFired)
  <2> DEFINE b == [row[cur] EXCEPT !.last = slot]
  <2>1. Write(cur, b) /\ cur' = cur /\ pc' # "stopped" /\ pc \in {"ensuring", "anchoring"}
    <3>1. CASE EnsureAdvanced
      <4>1. Write(cur, b) /\ (IF Overdue(row'[cur], wall) THEN Turn("advance", wall) ELSE Delivered)
        BY <1>3, <3>1 DEF EnsureAdvanced, WriteBack
      <4>2. CASE Overdue(row'[cur], wall)
        BY <3>1, <4>1, <4>2 DEF Turn, EnsureAdvanced
      <4>3. CASE ~Overdue(row'[cur], wall)
        BY <3>1, <4>1, <4>3, Onward DEF EnsureAdvanced
      <4> QED BY <4>2, <4>3
    <3>2. CASE AnchorLastFired
      BY <1>3, <3>2 DEF AnchorLastFired, WriteBack
    <3> QED BY <1>3, <3>1, <3>2
  <2>2. /\ RowType(b) /\ b.runs = row[cur].runs /\ b.phase = row[cur].phase
        /\ b.config = row[cur].config /\ b.rule = row[cur].rule
    BY <1>1, FiredRow, FiredRule
  <2> HIDE DEF b
  <2>3. \A c \in Timers : c = cur => ~Logs(c)
    BY <2>1 DEF LogInv, Carried
  <2>4. ~Logs(cur)
    BY <1>1, <2>3 DEF Logs
  <2> QED BY <1>1, <2>1, <2>2, <2>3, <2>4, LogWrites
<1>4. CASE ("scheduler" \in fresh /\ row[cur].phase = "live") /\ AdvancePastNow
  <2>1. pc = "advancing" /\ pc' # "stopped"
    BY <1>4 DEF AdvancePastNow, WriteBack, Turn
  <2>2. PICK r : /\ RowType(r) /\ Write(cur, r) /\ r.rule = row[cur].rule /\ r.config = row[cur].config
                 /\ r.phase = row[cur].phase /\ r.runs = row[cur].runs /\ row[cur].last <= r.last
                 /\ r.last <= slot \/ r.last = row[cur].last
                 /\ slot # Never => r.last # Never
    BY <1>4, <2>1, AdvanceWrites
  <2>3. pc' = "requeue" /\ cur' = cur
    BY <1>4, <2>1, AdvanceWrites
  <2>4. Logs(cur) => r.last <= wall /\ r.last # Never
    <3>1. ASSUME NEW c \in Timers, c = cur, Logs(c) PROVE r.last <= wall /\ r.last # Never
      <4>1. slot = at /\ at <= wall /\ row[c].last <= wall /\ at \in Nat /\ wall \in Nat
        BY <2>1, <3>1 DEF LogInv, Carried, Aging, Types, Locals
      <4>2. slot # Never
        BY <4>1 DEF Never
      <4>3. r.last \in Int
        BY <2>2 DEF RowType
      <4> QED BY <2>2, <3>1, <4>1, <4>2, <4>3
    <3>2. Logs(cur) => \E c \in Timers : c = cur /\ Logs(c)
      BY <1>1 DEF Logs
    <3> QED BY <3>1, <3>2
  <2>5. \A c \in Timers : c = cur /\ Logs(c) => Carried(c)'
    BY <2>3 DEF Carried
  <2> QED BY <1>1, <2>1, <2>2, <2>3, <2>4, <2>5, LogWrites
<1> QED BY <1>2, <1>3, <1>4
\* Another process writes a row.
LEMMA LogAroundWrites ==
    ASSUME Types, Types', LogInv, Calm, NEW t \in Timers, NEW r, RowType(r), Write(t, r),
           UNCHANGED <<pc, cur, slot, at, batch, merged, skipped, wall>>, SameClaims,
           r.rule = row[t].rule, r.config = row[t].config, r.runs >= row[t].runs,
           row[t].phase = "gone" => r.phase = "gone",
           manual' = manual \/ manual'.pc \notin {"read", "fired"},
           Logs(t) => /\ row[t].last <= r.last /\ r.last <= wall
                      /\ r.last = Never => Reached(t, wall)
                      /\ r.last # Never => Reached(t, r.last)
    PROVE  LogInv'
<1>1. wall \in Nat /\ DOMAIN row = Timers /\ \A u \in Timers : RowType(row[u])
  BY DEF Types, Locals, Rowed
<1>2. /\ \A u \in Timers \ {t} : row'[u] = row[u]
      /\ row'[t].last = r.last /\ row'[t].phase = r.phase /\ row'[t].config = r.config
  BY WriteRows
<1>3. PICK base \in Int : base = IF r.last = Never THEN wall ELSE r.last
  BY <1>1 DEF RowType
<1>4. /\ row'[t].rule = r.rule /\ Reached(t, base)'
      /\ Reached(t, base) => \A s \in Int : Pending(t, s)' => Pending(t, s)
  BY <1>3, NextGrows
<1>5. Logs(t) => Reached(t, base)
  BY <1>3 DEF Reached
<1>6. Since(t)' = base
  BY <1>2, <1>3 DEF Since
<1>7. \A u \in Timers : Onwards(u)
  <2>1. Onwards(t)
    <3>1. row[t].last \in Int /\ r.last \in Int
      BY <1>1 DEF RowType
    <3>2. Logs(t) => row'[t].last >= row[t].last /\ \A s \in Int : Pending(t, s)' => Pending(t, s)
      BY <1>2, <1>4, <1>5, <3>1
    <3> QED BY <1>2, <1>4, <3>2 DEF Onwards
  <2>2. ASSUME NEW u \in Timers \ {t} PROVE Onwards(u)
    BY <1>2, <2>2, StillOnwards
  <2> QED BY <2>1, <2>2
<1>8. Aging'
  <2>1. \A u \in Timers : Logs(u)' = Logs(u)
    BY <1>7 DEF Onwards, Logs
  <2>2. ASSUME NEW u \in Timers, Logs(u) PROVE row'[u].last <= wall /\ Reached(u, Since(u))'
    <3>1. CASE u = t
      <4>1. row'[t].last <= wall
        BY <1>2, <2>2, <3>1
      <4>2. Reached(t, Since(t))'
        BY <1>4, <1>6 DEF Reached, Pending
      <4> QED BY <3>1, <4>1, <4>2
    <3>2. CASE u # t
      <4>1. row'[u] = row[u]
        BY <1>2, <3>2
      <4>2. Since(u)' = Since(u) /\ row[u].last <= wall /\ Reached(u, Since(u))
        BY <2>2, <4>1 DEF LogInv, Aging, Since
      <4> QED BY <4>1, <4>2 DEF Reached, Pending, Exhausted
    <3> QED BY <3>1, <3>2
  <2> QED BY <1>7, <2>1, <2>2 DEF LogInv, Aging, Onwards
<1>9. ManualAging'
  <2>1. CASE manual' = manual
    <3>1. "manual" \in fresh' => "manual" \in fresh /\ row'[manual.timer] = row[manual.timer]
      <4>1. manual.timer \in Timers
        BY DEF Types, Locals
      <4>2. ASSUME "manual" \in fresh' PROVE "manual" \in fresh /\ manual.timer # t
        BY <4>2 DEF Write, Reading
      <4> QED BY <1>2, <4>1, <4>2
    <3> QED BY <1>1, <2>1, <3>1, ManualStays DEF LogInv
  <2>2. CASE manual'.pc \notin {"read", "fired"}
    BY <2>2 DEF ManualAging
  <2> QED BY <2>1, <2>2
<1>10. "scheduler" \in fresh' => "scheduler" \in fresh /\ row'[cur] = row[cur]
  <2>1. cur \in Timers
    BY DEF Types, Locals
  <2>2. ASSUME "scheduler" \in fresh' PROVE "scheduler" \in fresh /\ cur # t
    BY <2>2 DEF Write, Reading
  <2> QED BY <1>2, <2>1, <2>2
<1> QED BY <1>7, <1>8, <1>9, <1>10, LogAround

LEMMA LogEdits ==
    ASSUME Types, Types', LogInv, Calm, SetEnabled \/ Create \/ Delete
    PROVE  LogInv'
<1> USE DEF clocks, claims, events, local, work, scheduler
<1>1. /\ UNCHANGED <<pc, cur, slot, at, batch, merged, skipped, wall>> /\ SameClaims /\ manual' = manual
      /\ UNCHANGED <<open, closed>>
  BY DEF SetEnabled, Create, Delete, Foreign, SameClaims
<1>2. ASSUME NEW t \in Timers, Logs(t)
      PROVE  /\ row[t].last <= wall
             /\ row[t].last = Never => Reached(t, wall)
             /\ row[t].last # Never => Reached(t, row[t].last)
  BY <1>2 DEF LogInv, Aging, Since, Reached
<1>3. CASE SetEnabled
  <2>1. PICK t \in Timers : Write(t, [row[t] EXCEPT !.enabled = ~row[t].enabled])
    BY <1>3 DEF SetEnabled
  <2> DEFINE x == ~row[t].enabled
             a == [row[t] EXCEPT !.enabled = x]
  <2>2. RowType(row[t])
    BY DEF Types, Rowed
  <2> HIDE DEF x
  <2>3. /\ RowType(a) /\ a.last = row[t].last /\ a.runs = row[t].runs /\ a.phase = row[t].phase
        /\ a.config = row[t].config
    BY <2>2, EnabledRow
  <2>4. a.rule = row[t].rule
    BY <2>2 DEF RowType
  <2>5. Write(t, a) /\ row[t].runs \in Nat /\ row[t].last \in Int
    BY <2>1, <2>2 DEF RowType, x
  <2> HIDE DEF a
  <2> QED BY <1>1, <1>2, <2>3, <2>4, <2>5, LogAroundWrites
<1>4. CASE Create
  <2>1. PICK t \in Timers : row[t].phase = "unborn" /\ Write(t, [row[t] EXCEPT !.phase = "live"])
    BY <1>4 DEF Create
  <2> DEFINE a == [row[t] EXCEPT !.phase = "live"]
  <2>2. RowType(row[t])
    BY DEF Types, Rowed
  <2>3. /\ RowType(a) /\ a.last = row[t].last /\ a.runs = row[t].runs /\ a.phase = "live"
        /\ a.config = row[t].config
    BY <2>2, PhasedRow
  <2>4. a.rule = row[t].rule
    BY <2>2 DEF RowType
  <2>5. Write(t, a) /\ row[t].runs \in Nat /\ row[t].last \in Int /\ row[t].phase = "unborn"
    BY <2>1, <2>2 DEF RowType
  <2> HIDE DEF a
  <2> QED BY <1>1, <1>2, <2>3, <2>4, <2>5, LogAroundWrites
<1>5. CASE Delete
  <2>1. PICK t \in Timers : row' = [row EXCEPT ![t].phase = "gone"] /\ fresh' = fresh \ Reading(t)
    BY <1>5 DEF Delete
  <2> DEFINE a == [row[t] EXCEPT !.phase = "gone"]
  <2>2. RowType(row[t]) /\ DOMAIN row = Timers
    BY DEF Types, Rowed
  <2>3. /\ a.last = row[t].last /\ a.runs = row[t].runs /\ a.phase = "gone"
        /\ a.config = row[t].config /\ a.next = row[t].next
    BY <2>2, PhasedRow
  <2>4. a.rule = row[t].rule
    BY <2>2 DEF RowType
  <2>5. DOMAIN row' = Timers /\ row'[t] = a /\ \A u \in Timers \ {t} : row'[u] = row[u]
    BY <2>1, <2>2
  <2> HIDE DEF a
  <2>6. ASSUME NEW u \in Timers
        PROVE  /\ row'[u].last = row[u].last /\ row'[u].next = row[u].next /\ row'[u].rule = row[u].rule
               /\ row'[u].config = row[u].config /\ row'[u].runs = row[u].runs /\ row[u].last \in Int
               /\ row'[u].phase # "gone" => row[u].phase # "gone"
    <3>1. row[u].last \in Int
      BY DEF Types, Rowed, RowType
    <3> QED BY <2>3, <2>4, <2>5, <3>1
  <2>7. \A u \in Timers : Onwards(u)
    BY <2>6 DEF Onwards, Pending
  <2>8. \A u \in Timers : Logs(u)' = Logs(u) /\ Since(u)' = Since(u) /\ (Exhausted(row'[u]) <=> Exhausted(row[u]))
    BY <1>1, <2>6 DEF Logs, Since, Exhausted
  <2>9. Aging'
    <3>1. ASSUME NEW u \in Timers, Logs(u) PROVE row'[u].last <= wall /\ Reached(u, Since(u))'
      <4>1. row[u].last <= wall /\ Reached(u, Since(u))
        BY <3>1 DEF LogInv, Aging
      <4>2. /\ row'[u].last = row[u].last /\ row'[u].next = row[u].next /\ row'[u].rule = row[u].rule
            /\ Since(u)' = Since(u) /\ (Exhausted(row'[u]) <=> Exhausted(row[u]))
        BY <2>6, <2>8
      <4>3. Reached(u, Since(u))'
        BY <4>1, <4>2 DEF Reached, Pending
      <4> QED BY <4>1, <4>2, <4>3
    <3> QED BY <1>1, <2>6, <2>8, <3>1 DEF LogInv, Aging
  <2>10. ASSUME NEW p \in {"scheduler", "manual"}, p \in fresh'
         PROVE  p \in fresh /\ (p = "scheduler" => row'[cur] = row[cur])
                /\ (p = "manual" => row'[manual.timer] = row[manual.timer])
    <3>1. cur \in Timers /\ manual.timer \in Timers
      BY DEF Types, Locals
    <3>2. p \in fresh /\ p \notin Reading(t)
      BY <2>1, <2>10
    <3>3. (p = "scheduler" => cur # t) /\ (p = "manual" => manual.timer # t)
      BY <3>2 DEF Reading
    <3> QED BY <2>5, <3>1, <3>2, <3>3
  <2>11. ManualAging'
    <3>1. wall <= wall' /\ wall' \in Int
      BY <1>1 DEF Types, Locals
    <3>2. "manual" \in fresh' => "manual" \in fresh /\ row'[manual.timer] = row[manual.timer]
      BY <2>10
    <3> QED BY <1>1, <3>1, <3>2, ManualStays DEF LogInv
  <2>12. "scheduler" \in fresh' => "scheduler" \in fresh /\ row'[cur] = row[cur]
    BY <2>10
  <2> QED BY <1>1, <2>7, <2>9, <2>11, <2>12, LogAround
<1> QED BY <1>3, <1>4, <1>5
LEMMA LogManual ==
    ASSUME Types, Types', LogInv, Calm, ManualRead \/ ManualFire \/ ManualMark
    PROVE  LogInv'
<1> USE DEF clocks, claims, events, local, work, scheduler
<1>1. /\ UNCHANGED <<pc, cur, slot, at, batch, merged, skipped, wall>> /\ SameClaims
      /\ UNCHANGED <<open, closed>> /\ wall \in Nat /\ wall' \in Int /\ wall' <= MaxTime /\ at' <= wall'
  BY DEF ManualRead, ManualFire, ManualMark, SameClaims, Types, Locals, LogInv, Aging
<1>2. ASSUME row' = row, ManualAging', "scheduler" \in fresh' => "scheduler" \in fresh PROVE LogInv'
  <2>1. Aging'
    BY <1>1, <1>2, StillAging DEF LogInv
  <2>2. \A t \in Timers : Onwards(t)
    BY <1>2, StillOnwards
  <2> QED BY <1>1, <1>2, <2>1, <2>2, LogAround
<1>3. CASE ManualRead
  <2>1. PICK t \in Timers : manual' = [pc |-> "read", timer |-> t, at |-> wall]
    BY <1>3 DEF ManualRead
  <2>2. row' = row /\ fresh' = fresh \union {"manual"}
    BY <1>3 DEF ManualRead
  <2>3. ASSUME NEW m \in Timers, Logs(m) PROVE row[m].last <= wall /\ Reached(m, wall)
    <3>1. row[m].last <= wall /\ Reached(m, Since(m)) /\ RowType(row[m])
      BY <2>3 DEF LogInv, Aging, Types, Rowed
    <3>2. PICK x \in Int : x = Since(m) /\ x <= wall
      BY <1>1, <3>1 DEF Since, RowType
    <3>3. Reached(m, x)
      BY <3>1, <3>2 DEF Reached
    <3>4. Reached(m, wall)
      BY <1>1, <3>1, <3>2, <3>3, ReachedLater
    <3> QED BY <3>1, <3>4
  <2>4. ManualAging'
    <3>1. manual'.at = wall
      BY <2>1
    <3>2. ASSUME NEW m \in Timers, Logs(m)' PROVE row'[m].last <= manual'.at /\ Reached(m, manual.at)'
      <4>1. row[m].last <= wall /\ Reached(m, wall)
        BY <2>2, <2>3, <3>2 DEF Logs
      <4> QED BY <2>2, <3>1, <4>1 DEF Reached, Pending
    <3> QED BY <1>1, <3>1, <3>2 DEF ManualAging
  <2> QED BY <1>2, <2>2, <2>4
<1>4. CASE ManualFire
  <2>1. row' = row /\ fresh' = fresh /\ manual.pc = "read" /\ manual'.at = manual.at /\ manual'.timer = manual.timer
    BY <1>4 DEF ManualFire, Types, Locals
  <2>2. ManualAging'
    <3>1. ASSUME NEW m \in Timers, m = manual.timer, "manual" \in fresh, Logs(m)'
          PROVE  row'[m].last <= manual'.at /\ Reached(m, manual.at)'
      <4>1. row[m].last <= manual.at /\ Reached(m, manual.at)
        BY <2>1, <3>1 DEF LogInv, ManualAging, Logs
      <4> QED BY <2>1, <4>1 DEF Reached, Pending
    <3> QED BY <1>1, <2>1, <3>1 DEF ManualAging, LogInv
  <2> QED BY <1>2, <2>1, <2>2
<1>5. CASE ManualMark /\ ~("manual" \in fresh /\ row[manual.timer].phase = "live")
  <2>1. row' = row /\ fresh' = fresh /\ manual'.pc = "refused"
    BY <1>5 DEF ManualMark
  <2> QED BY <1>2, <2>1 DEF ManualAging
<1>6. CASE ManualMark /\ "manual" \in fresh /\ row[manual.timer].phase = "live"
  <2>1. PICK t \in Timers : t = manual.timer
    BY DEF Types, Locals
  <2> DEFINE b == [row[t] EXCEPT !.last = manual.at, !.runs = @ + 1]
  <2>2. Write(t, b) /\ manual'.pc = "idle" /\ manual.pc = "fired"
    BY <1>6, <2>1 DEF ManualMark
  <2>3. manual.at \in Nat /\ manual.at \in Int /\ RowType(row[t]) /\ row[t].runs \in Nat
    BY DEF Types, Locals, Rowed, RowType
  <2>4. /\ RowType(b) /\ b.last = manual.at /\ b.runs = row[t].runs + 1 /\ b.phase = row[t].phase
        /\ b.config = row[t].config
    BY <2>3, FiredRow
  <2>5. b.rule = row[t].rule
    BY <2>3 DEF RowType
  <2> HIDE DEF b
  <2>6. Logs(t) => row[t].last <= b.last /\ b.last <= wall /\ b.last # Never /\ Reached(t, b.last)
    <3>1. ASSUME Logs(t) PROVE row[t].last <= manual.at /\ manual.at <= wall /\ Reached(t, manual.at)
      BY <1>6, <2>1, <2>2, <3>1 DEF LogInv, ManualAging
    <3>2. manual.at # Never
      BY <2>3 DEF Never
    <3> QED BY <2>4, <3>1, <3>2 DEF Reached
  <2> QED BY <1>1, <2>2, <2>3, <2>4, <2>5, <2>6, LogAroundWrites
<1> QED BY <1>3, <1>4, <1>5, <1>6

LEMMA LogSurroundings ==
    ASSUME Types, Types', LogInv, Calm, wall <= wall', Pass \/ SetClock \/ SendPause \/ Finish
    PROVE  LogInv'
<1> USE DEF clocks, claims, events, local, work, scheduler
<1>1. /\ UNCHANGED <<pc, cur, slot, at, batch, merged, skipped>> /\ row' = row /\ fresh' = fresh /\ manual' = manual
      /\ SameClaims
  BY DEF Pass, SetClock, SendPause, Finish, SameClaims
<1>2. wall \in Nat /\ wall' \in Nat /\ at \in Nat /\ at <= wall /\ wall <= MaxTime /\ MaxTime \in Nat
  BY LimitsAssumption DEF Types, Locals, LogInv, Aging
<1>3. wall' <= MaxTime
  <2>1. CASE Pass
    BY <1>2, <2>1 DEF Pass
  <2>2. CASE SetClock
    BY <1>2, <2>2 DEF SetClock, Instants
  <2>3. CASE SendPause
    BY <1>2, <2>3 DEF SendPause
  <2>4. CASE Finish
    BY <1>2, <2>4 DEF Finish
  <2> QED BY <2>1, <2>2, <2>3, <2>4
<1>4. at' <= wall'
  BY <1>1, <1>2
<1>5. Aging' /\ ManualAging'
  <2>1. Aging'
    BY <1>1, <1>2, <1>3, <1>4, StillAging DEF LogInv
  <2>2. "manual" \in fresh' => "manual" \in fresh /\ row'[manual.timer] = row[manual.timer]
    BY <1>1
  <2>3. ManualAging'
    BY <1>1, <1>2, <2>2, ManualStays DEF LogInv
  <2> QED BY <2>1, <2>3
<1>6. \A t \in Timers : Onwards(t)
  BY <1>1, StillOnwards
<1> QED BY <1>1, <1>5, <1>6, LogAround
-----------------------------------------------------------------------------
(* The invariant, and what it says of a step *)

LEMMA InitLog == Init => LogInv
<1> SUFFICES ASSUME Init PROVE LogInv
  OBVIOUS
<1>1. PICK start \in Starts :
        row = [t \in Timers |->
                 [phase |-> start[t].phase, config |-> start[t].config, enabled |-> TRUE,
                  rule |-> start[t].rule, last |-> Never, runs |-> 0,
                  next |-> Earliest({s \in start[t].rule : s > 0})]]
  BY DEF Init
<1>2. wall = 0 /\ at = 0 /\ pc = "down" /\ manual.pc = "idle" /\ open = {} /\ closed = {} /\ MaxTime \in Nat
  BY LimitsAssumption DEF Init
<1>3. ASSUME NEW t \in Timers
      PROVE  /\ row[t].rule \in Rules /\ row[t].config.misfire \in {"skip", "coalesce", "catch_up"}
             /\ row[t].last <= wall /\ Reached(t, Since(t))
  <2> DEFINE later == {s \in start[t].rule : s > 0}
  <2>1. start[t] \in [phase : {"live", "unborn"}, rule : Rules, config : Configs]
    BY StartsAssumption
  <2>2. /\ start[t].rule \in Rules /\ start[t].rule \subseteq Nat
        /\ start[t].config.misfire \in {"skip", "coalesce", "catch_up"}
    BY <2>1, RulesAssumption DEF Configs
  <2>3. \A s \in later : Earliest(later) \in Nat /\ Earliest(later) <= s
    <3>1. later \subseteq Nat
      BY <2>2
    <3> HIDE DEF later
    <3> QED BY <3>1, SmallestMember DEF Earliest
  <2>4. /\ row[t].config = start[t].config /\ row[t].rule = start[t].rule /\ row[t].last = Never
        /\ row[t].next = Earliest(later)
    BY <1>1
  <2>5. Since(t) = 0 /\ row[t].last <= 0
    BY <1>2, <2>4 DEF Since, Never
  <2>6. ASSUME NEW s \in row[t].rule, s > 0 PROVE Pending(t, s)
    <3>1. s \in later
      BY <2>4, <2>6
    <3> HIDE DEF later
    <3> QED BY <2>3, <2>4, <3>1 DEF Pending, Never
  <2> QED BY <1>2, <2>2, <2>4, <2>5, <2>6 DEF Reached
<1>4. Aging
  BY <1>2, <1>3 DEF Aging
<1>5. ManualAging /\ Recorded /\ \A c \in Timers : Carried(c)
  BY <1>2 DEF ManualAging, Recorded, Claimed, Carried
<1> QED BY <1>4, <1>5 DEF LogInv

LEMMA LogNext ==
    ASSUME Inv, Types', Uncapped, LogInv, wall <= wall', [Next]_vars
    PROVE  LogInv'
<1>1. Types /\ (Calm => Limits)
  BY DEF Inv
<1>2. CASE ~Calm'
  BY <1>2 DEF LogInv
<1>3. CASE Calm' /\ ~Calm
  <2>1. CASE Next
    BY <1>1, <1>3, <2>1, ThreadKeeps, UserEdits, ManualRuns, Surroundings, Upsets
       DEF Next, Environment, Keeps
  <2>2. CASE UNCHANGED vars
    BY <1>3, <2>2 DEF vars, Calm
  <2> QED BY <2>1, <2>2
<1>4. CASE Calm /\ Thread
  BY <1>1, <1>4, LogMoves, LogPasses, LogFires, LogMarks, LogMarked, LogReads, LogAdvances DEF Thread
<1>5. CASE Calm /\ Calm' /\ Environment
  BY <1>1, <1>5, LogEdits, LogManual, LogSurroundings, Upsets DEF Environment
<1>6. CASE Calm /\ UNCHANGED vars
  <2>1. /\ UNCHANGED <<pc, cur, slot, at, batch, merged, skipped, open, closed, row, fresh, manual>>
        /\ wall' = wall /\ wall \in Nat
    BY <1>1, <1>6 DEF vars, clocks, claims, events, local, work, Types, Locals
  <2>2. Aging' /\ ManualAging' /\ \A t \in Timers : Onwards(t)
    <3>1. wall <= wall' /\ wall' <= MaxTime /\ wall' \in Int /\ at' <= wall'
      BY <1>6, <2>1 DEF LogInv, Aging
    <3>2. Aging'
      BY <1>1, <1>6, <2>1, <3>1, StillAging DEF LogInv
    <3>3. ManualAging'
      BY <1>1, <1>6, <2>1, <3>1, ManualStays DEF LogInv
    <3>4. \A t \in Timers : Onwards(t)
      BY <1>1, <2>1, StillOnwards
    <3> QED BY <3>2, <3>3, <3>4
  <2> QED BY <1>1, <1>6, <2>1, <2>2, LogAround DEF SameClaims
<1> QED BY <1>2, <1>3, <1>4, <1>5, <1>6 DEF Next

\* A write leaves nothing of the rule between the last fire and the next one.
LEMMA NoneSkipped ==
    ASSUME Types, NEW t \in Timers, NEW r, RowType(r), Write(t, r), r.last # Never,
           NEW s \in r.rule, s > r.last
    PROVE  Exhausted(row'[t]) \/ (row'[t].next # Never /\ row'[t].next <= s)
<1>1. PICK x \in Int : x = r.last
  BY DEF RowType
<1>2. x = IF r.last = Never THEN wall ELSE r.last
  BY <1>1
<1>3. row'[t].rule = r.rule /\ Reached(t, x)'
  BY <1>2, NextGrows
<1> QED BY <1>1, <1>3 DEF Reached, Pending

LEMMA NothingIsLost ==
    ASSUME Types, Types', LogInv, Calm, [Next]_vars, NEW t \in Timers, Logs(t)
    PROVE  LostSilently(t) = {}
<1> USE DEF clocks, claims, events, local, work, scheduler
<1> SUFFICES ASSUME NEW s \in row[t].rule, pc' # pc, Pending(t, s),
                    row'[t].next = Never \/ s < row'[t].next, ~Exhausted(row'[t]), ~Logged(t, s)
             PROVE  FALSE
  BY DEF LostSilently, Pending, Logged
<1>1. s \in Nat /\ RowType(row[t]) /\ RowOK(row[t]) /\ RowType(row'[t]) /\ DOMAIN row = Timers
  BY DEF Types, Rowed, RowType
<1>2. CASE row'[t] = row[t]
  BY <1>1, <1>2 DEF Pending, RowType
<1>3. CASE row'[t] # row[t]
  <2>1. MarkFired \/ EnsureAdvanced \/ AdvancePastNow \/ AnchorLastFired
    <3>1. CASE Thread
      BY <1>3, <3>1 DEF Thread, Boot, Rebuild, Wake, CheckStore, Tick, ScanNext, ScanDone, DrainNext, DrainDone,
                        Fire, Mark, Ensure, Advance, Requeue, CatchUp, Anchor, Caught
    <3>2. CASE Environment
      BY <1>3, <3>2 DEF Environment, Pass, SetClock, SetEnabled, ChangeRule, Create, Delete, SendPause,
                        SendShutdown, ManualRead, ManualFire, ManualMark, Finish, Crash, Foreign
    <3>3. CASE UNCHANGED vars
      BY <3>3 DEF vars
    <3> QED BY <3>1, <3>2, <3>3 DEF Next
  <2>2. "scheduler" \in fresh /\ row[cur].phase = "live"
    BY <1>3, <2>1 DEF MarkFired, EnsureAdvanced, AdvancePastNow, AnchorLastFired, WriteBack
  <2>3. t = cur
    <3>1. \E r : Write(cur, r)
      BY <2>1, <2>2 DEF MarkFired, EnsureAdvanced, AdvancePastNow, AnchorLastFired, WriteBack
    <3> QED BY <1>1, <1>3, <3>1 DEF Write
  <2>4. Carried(t)
    BY <2>3 DEF LogInv
  <2>5. pc \notin {"ensuring", "anchoring"}
    BY <2>4 DEF Carried
  <2>6. CASE MarkFired
    <3> DEFINE b == [row[t] EXCEPT !.last = slot, !.runs = @ + 1]
    <3>1. Write(t, b) /\ pc = "marking"
      BY <2>2, <2>3, <2>6 DEF MarkFired, WriteBack
    <3>2. 0 <= slot /\ slot <= at /\ slot \in Int /\ at \in Nat /\ \A u \in Backlog(t) : Logged(t, u)
      BY <2>4, <3>1 DEF Carried, Types, Locals
    <3>3. slot # Never
      BY <3>2 DEF Never
    <3>4. RowType(b) /\ b.last = slot
      BY <1>1, <3>2, FiredRow
    <3>5. b.rule = row[t].rule
      BY <1>1 DEF RowType
    <3> HIDE DEF b
    <3>6. s <= slot
      BY <1>1, <3>1, <3>2, <3>3, <3>4, <3>5, NoneSkipped DEF RowType
    <3>7. s \in Backlog(t)
      BY <1>1, <3>2, <3>6 DEF Backlog, Upto
    <3> QED BY <3>2, <3>7
  <2>7. CASE AdvancePastNow
    <3>1. pc = "advancing" /\ pc' # "stopped"
      BY <2>2, <2>7 DEF AdvancePastNow, WriteBack, Turn
    <3>2. PICK r : /\ RowType(r) /\ Write(cur, r) /\ r.rule = row[cur].rule /\ row[cur].last <= r.last
                   /\ r.last <= slot \/ r.last = row[cur].last
                   /\ slot # Never => r.last # Never
      BY <2>7, <3>1, AdvanceWrites
    <3>3. slot = at /\ at \in Nat /\ (s <= slot => Logged(t, s))
      BY <2>4, <3>1 DEF Carried, Types, Locals
    <3>4. slot # Never /\ Write(t, r) /\ r.rule = row[t].rule /\ r.last \in Int
      BY <2>3, <3>2, <3>3 DEF Never, RowType
    <3>5. s <= r.last
      BY <1>1, <3>2, <3>3, <3>4, NoneSkipped DEF RowType
    <3>6. s > slot /\ r.last = row[t].last
      BY <1>1, <2>3, <3>2, <3>3, <3>4, <3>5
    <3> QED BY <1>1, <3>5, <3>6 DEF RowOK, Pending, RowType
  <2> QED BY <2>1, <2>5, <2>6, <2>7 DEF EnsureAdvanced, AnchorLastFired
<1> QED BY <1>2, <1>3

\* "Every miss/outcome is logged to JSONL" (delivery.rs:34): under Skip and Coalesce no write of the
\* scheduler moves a timer past a due slot without a claim or an event (handle_due_timer, mark_fired,
\* advance_past_now), whatever users, apps and manual runs do between its transactions - unless it
\* restarted or the rule was changed.  The clock is not set back, and one walk passes any backlog.
THEOREM BacklogsAreLogged ==
    ASSUME Uncapped
    PROVE  Spec /\ [][wall <= wall']_vars => BacklogIsLogged
<1> DEFINE Complete == Inv /\ LogInv
           Step == \A t \in Timers : row[t].config.misfire # "catch_up" /\ spent["crash"] = 0 =>
                                         LostSilently(t) = {}
<1>1. Init => Complete
  BY InitInv, InitLog
<1>2. Complete /\ [Next]_vars /\ [wall <= wall']_vars => Complete' /\ Step
  <2> SUFFICES ASSUME Complete, [Next]_vars, [wall <= wall']_vars PROVE Complete' /\ Step
    OBVIOUS
  <2>1. Inv' /\ Types /\ Types'
    BY InvStep DEF Inv
  <2>2. wall <= wall'
    <3>1. CASE UNCHANGED vars
      BY <2>1, <3>1 DEF vars, clocks, Types, Locals
    <3> QED BY <3>1
  <2>3. LogInv'
    BY <2>1, <2>2, LogNext
  <2>4. ASSUME NEW t \in Timers, row[t].config.misfire # "catch_up", spent["crash"] = 0
        PROVE  LostSilently(t) = {}
    <3>1. CASE spent["rule"] = 0
      BY <2>1, <2>4, <3>1, NothingIsLost DEF Logs, Calm
    <3>2. CASE spent["rule"] # 0
      BY <3>2 DEF LostSilently
    <3> QED BY <3>1, <3>2
  <2> QED BY <2>1, <2>3, <2>4
<1> HIDE DEF Complete, Step
<1>3. Spec /\ [][wall <= wall']_vars => [][Step]_vars
  BY <1>1, <1>2, PTL DEF Spec
<1> QED BY <1>3 DEF BacklogIsLogged, Step
=============================================================================
