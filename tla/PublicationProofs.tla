-------------------------- MODULE PublicationProofs --------------------------
(* Two action properties and an invariant of the notifications, for any number of  *)
(* timers, fires, connections and failures.  The threads act on snapshots of their *)
(* rows, so the argument is about what a snapshot still says: the timer and the    *)
(* order of a row never change while the row is there, and its state may only have *)
(* moved.                                                                          *)
(* Beside them, the calendar: what its view of past fires shows, for any evidence  *)
(* that events and ledger hold and in any order, and what an edit makes of a rule. *)
EXTENDS Publication, Calendar, WellFoundedInduction, TLAPS

States == {"none", "pending", "published", "picked_up", "obsolete"}
Projections == [timer : Timers \cup {0}, kind : {"none", "file", "ipc"}, target : Targets,
                order : Nat, state : States, attempts : Nat]
Places == {"idle", "sweep", "next", "check", "write", "mark", "fallback", "pickup", "remove"}
Tasks == [run : Runs, snap : Projections]
Jobs == [pc : Places, run : 0..MaxRuns, snap : Projections, todo : SUBSET Tasks, sweeps : BOOLEAN]

\* A snapshot of a run's row names its order and its timer, as long as the row is there.
Known(r, s) == /\ r <= fired /\ (rows[r].state = "none" \/ rows[r].order = s.order)
               /\ rows[r].timer \in {s.timer, 0}

\* What a thread holds was read from the table.
Fits(j) ==
    /\ j \in Jobs
    /\ j.pc \notin {"idle", "next"} => j.run \in Runs /\ Known(j.run, j.snap)
    /\ \A x \in j.todo : Known(x.run, x.snap)

RowsOK == rows \in [Runs -> Projections]
\* Rows are numbered in the order of the fires; a run to come has none.
Numbered == \A r \in Runs : /\ rows[r].order <= fired
                            /\ r > fired => rows[r].state = "none" /\ rows[r].timer = 0
FilesOK == file \in [Files -> 0..MaxRuns]
JobsOK == job \in [Threads -> Jobs] /\ \A th \in Threads : Fits(job[th])
IInv == fired \in Nat /\ RowsOK /\ Numbered /\ FilesOK /\ JobsOK

-----------------------------------------------------------------------------
(* Smallest and largest members *)

LEMMA SmallestMember ==
    ASSUME NEW T, T \subseteq Nat, T # {}
    PROVE  \E x \in T : \A y \in T : x <= y
<1> DEFINE R == OpToRel(<, Nat)
<1>1. IsWellFoundedOn(R, Nat)
  BY NatLessThanWellFounded
<1>2. \A x, y \in Nat : x < y => <<x, y>> \in R
  BY DEF OpToRel
<1> HIDE DEF R
<1>3. PICK x \in T : \A y \in T : ~(<<y, x>> \in R)
  BY <1>1, WFMin
<1>4. ASSUME NEW y \in T PROVE x <= y
  <2>1. x \in Nat /\ y \in Nat /\ ~(y < x)
    BY <1>2, <1>3
  <2> QED BY <2>1
<1> QED BY <1>4

LEMMA LargestMember ==
    ASSUME NEW T, T \subseteq Nat, T # {}, NEW n \in Nat, \A y \in T : y <= n
    PROVE  Max(T) \in T /\ \A y \in T : y <= Max(T)
<1> DEFINE B == {b \in Nat : \A y \in T : y <= b}
<1>1. PICK b \in B : \A c \in B : b <= c
  <2>1. n \in B
    OBVIOUS
  <2>2. B \subseteq Nat /\ B # {}
    BY <2>1
  <2> HIDE DEF B
  <2> QED BY <2>2, SmallestMember
<1>2. b \in T
  <2> SUFFICES ASSUME b \notin T PROVE FALSE
    OBVIOUS
  <2>1. PICK y \in T : TRUE
    OBVIOUS
  <2>2. \A z \in T : z \in Nat /\ z <= b /\ z # b
    BY <1>1
  <2>3. b \in Nat /\ b > 0
    BY <1>1, <2>1, <2>2
  <2>4. b - 1 \in B
    BY <2>2, <2>3
  <2> QED BY <1>1, <2>3, <2>4
<1>3. \A y \in T : b >= y
  BY <1>1
<1>4. \E x \in T : \A y \in T : x >= y
  BY <1>2, <1>3
<1>5. Max(T) \in T /\ \A y \in T : Max(T) >= y
  BY <1>4 DEF Max
<1> QED BY <1>5

LEMMA FirstIsThere ==
    ASSUME NEW S \in SUBSET Tasks, S # {}
    PROVE  First(S) \in S
<1> DEFINE T == {x.snap.order : x \in S}
<1>1. T \subseteq Nat /\ T # {}
  BY DEF Tasks, Projections
<1>2. PICK n \in T : \A m \in T : n <= m
  BY <1>1, SmallestMember
<1>3. PICK x \in S : x.snap.order = n
  BY <1>2
<1>4. \A y \in S : x.snap.order <= y.snap.order
  BY <1>2, <1>3
<1> QED BY <1>3, <1>4 DEF First

\* The order of a new row.
LEMMA NextOrderIsNew ==
    ASSUME IInv
    PROVE  NextOrder \in Nat /\ NextOrder <= fired + 1
<1> DEFINE T == {0} \cup {rows[r].order : r \in Runs}
<1>1. T \subseteq Nat /\ T # {} /\ fired \in Nat /\ \A y \in T : y <= fired
  BY DEF IInv, RowsOK, Numbered, Projections
<1> HIDE DEF T
<1>2. Max(T) \in T
  BY <1>1, LargestMember
<1>3. Max(T) \in Nat /\ Max(T) <= fired
  BY <1>1, <1>2
<1>4. NextOrder = 1 + Max(T)
  BY DEF NextOrder, T
<1> QED BY <1>1, <1>3, <1>4

-----------------------------------------------------------------------------
(* What every step but a fire does *)

\* A row may go, a live one may move on, and nothing else happens to a row.
RowsKept ==
    /\ rows' \in [Runs -> Projections]
    /\ \A r \in Runs :
          /\ rows'[r].order <= rows[r].order /\ rows'[r].timer \in {rows[r].timer, 0}
          /\ rows'[r].state = "none" \/ rows'[r].order = rows[r].order
          /\ rows[r].state = "none" => rows'[r].state = "none"
          /\ Settled(r) => rows'[r].state \in {rows[r].state, "none"}

JobsKept == job' \in [Threads -> Jobs] /\ \A th \in Threads : Fits(job'[th])

\* A file stays, goes, or is replaced by one that is not older.
FileKept(f) ==
    file[f] # 0 /\ file'[f] # 0 /\ rows[file[f]].state # "none"
        => rows[file'[f]].state = "none" \/ rows[file'[f]].order >= rows[file[f]].order
FilesKept == file' \in [Files -> 0..MaxRuns] /\ \A f \in Files : FileKept(f)

Orderly == fired' = fired /\ RowsKept /\ JobsKept /\ FilesKept

LEMMA InitIInv == Init => IInv
<1> SUFFICES ASSUME Init PROVE IInv
  OBVIOUS
<1>1. NoRow \in Projections
  BY DEF NoRow, Projections, Targets, Files, States
<1>2. RowsOK /\ Numbered /\ fired \in Nat
  BY <1>1 DEF Init, RowsOK, Numbered, NoRow
<1>3. FilesOK
  BY LimitsAssumption DEF Init, FilesOK
<1>4. Idle \in Jobs /\ Idle.pc = "idle" /\ Idle.todo = {}
  BY <1>1, LimitsAssumption DEF Idle, Jobs, Places
<1>5. JobsOK
  BY <1>4 DEF Init, JobsOK, Fits
<1> QED BY <1>2, <1>3, <1>5 DEF IInv

\* An orderly step keeps the invariant and the two properties.
LEMMA OrderlyIInv ==
    ASSUME IInv, Orderly
    PROVE  /\ IInv'
           /\ \A r \in Runs : Settled(r) => rows'[r].state \in {rows[r].state, "none"}
           /\ \A f \in Files : FileKept(f)
<1>1. fired' \in Nat /\ RowsOK' /\ FilesOK'
  BY DEF IInv, Orderly, RowsKept, FilesKept, RowsOK, FilesOK
<1>2. Numbered'
  <2> SUFFICES ASSUME NEW r \in Runs
               PROVE  /\ rows'[r].order <= fired'
                      /\ r > fired' => rows'[r].state = "none" /\ rows'[r].timer = 0
    BY DEF Numbered
  <2>1. rows[r] \in Projections /\ rows'[r] \in Projections
    BY DEF IInv, RowsOK, Orderly, RowsKept
  <2>2. rows[r].order \in Nat /\ rows'[r].order \in Nat
    BY <2>1 DEF Projections
  <2> QED BY <2>2 DEF IInv, Numbered, Orderly, RowsKept
<1>3. \A r \in Runs : \A s : Known(r, s) => Known(r, s)'
  BY DEF Known, Orderly, RowsKept
<1>4. ASSUME NEW th \in Threads PROVE Fits(job[th])'
  <2>1. Fits(job'[th])
    BY DEF Orderly, JobsKept
  <2>2. \A x \in job'[th].todo : x.run \in Runs
    BY <2>1 DEF Fits, Jobs, Tasks
  <2> QED BY <1>3, <2>1, <2>2 DEF Fits, Known, Orderly, RowsKept
<1>5. JobsOK'
  BY <1>4 DEF JobsOK, Orderly, JobsKept
<1> QED BY <1>1, <1>2, <1>5 DEF IInv, Orderly, RowsKept, FilesKept

-----------------------------------------------------------------------------
(* The pieces the steps are made of *)

LEMMA RowsSame ==
    ASSUME IInv, UNCHANGED rows
    PROVE  RowsKept
<1>1. \A r \in Runs : rows[r].order \in Nat
  BY DEF IInv, RowsOK, Projections
<1> QED BY <1>1 DEF IInv, RowsOK, RowsKept

LEMMA StateMoves ==
    ASSUME IInv, NEW r, NEW from \in SUBSET {"pending", "published"},
           NEW to \in States \ {"none"}, SetState(r, from, to)
    PROVE  RowsKept
<1>1. ASSUME NEW q \in Runs
      PROVE  /\ rows'[q] \in Projections
             /\ rows'[q].order = rows[q].order /\ rows[q].order \in Nat
             /\ rows'[q].timer = rows[q].timer
             /\ rows'[q].state = rows[q].state \/ rows[q].state \in from
  <2>1. rows[q] \in Projections
    BY DEF IInv, RowsOK
  <2>2. rows'[q] = IF q = r THEN [rows[q] EXCEPT !.state = IF @ \in from THEN to ELSE @]
                   ELSE rows[q]
    BY DEF SetState, IInv, RowsOK
  <2> QED BY <2>1, <2>2 DEF Projections
<1>2. rows' \in [Runs -> Projections]
  <2>1. rows' = [q \in Runs |-> rows'[q]]
    BY DEF SetState, IInv, RowsOK
  <2> QED BY <1>1, <2>1
<1>3. ASSUME NEW q \in Runs
      PROVE  rows[q].state = "none" \/ Settled(q) => rows'[q].state = rows[q].state
  BY <1>1 DEF Settled
<1> QED BY <1>1, <1>2, <1>3 DEF RowsKept

LEMMA ObsoleteMoves ==
    ASSUME IInv, NEW r, MarkObsolete(r)
    PROVE  RowsKept
BY StateMoves DEF MarkObsolete, States

LEMMA RequeueMoves ==
    ASSUME IInv, NEW r, Requeue(r)
    PROVE  RowsKept
<1>1. SetState(r, {"published"}, "pending")
  BY DEF Requeue
<1> QED BY <1>1, StateMoves DEF States

LEMMA FilesSame ==
    ASSUME IInv, UNCHANGED file
    PROVE  FilesKept
<1>1. ASSUME NEW f \in Files PROVE FileKept(f)
  <2>1. file[f] # 0 => file[f] \in Runs
    BY DEF IInv, FilesOK, Runs
  <2>2. file[f] # 0 => rows[file[f]].order \in Nat
    BY <2>1 DEF IInv, RowsOK, Projections
  <2> QED BY <2>2 DEF FileKept
<1> QED BY <1>1 DEF FilesKept, IInv, FilesOK

LEMMA LoadFits ==
    ASSUME NEW j, Fits(j), j.todo # {}
    PROVE  Fits(Load(j))
<1> DEFINE x == First(j.todo)
<1>1. j \in Jobs /\ j.todo \in SUBSET Tasks
  BY DEF Fits, Jobs
<1>2. x \in j.todo
  BY <1>1, FirstIsThere
<1>3. x \in Tasks /\ Known(x.run, x.snap)
  BY <1>1, <1>2 DEF Fits
<1> HIDE DEF x
<1>4. x.run \in Runs /\ x.run \in 0..MaxRuns /\ x.snap \in Projections
  BY <1>3 DEF Tasks, Runs
<1>5. Load(j) = [j EXCEPT !.pc = IF j.sweeps THEN "sweep" ELSE "check",
                          !.run = x.run, !.snap = x.snap, !.todo = @ \ {x}]
  BY DEF Load, x
<1>6. (IF j.sweeps THEN "sweep" ELSE "check") \in Places
  BY DEF Places
<1>7. Load(j) \in Jobs
  BY <1>1, <1>4, <1>5, <1>6 DEF Jobs
<1>8. Load(j).run = x.run /\ Load(j).snap = x.snap /\ Load(j).todo = j.todo \ {x}
  BY <1>1, <1>5 DEF Jobs
<1> QED BY <1>3, <1>4, <1>7, <1>8 DEF Fits

LEMMA IdleFits ==
    /\ Idle \in Jobs /\ Fits(Idle)
    /\ [Idle EXCEPT !.pc = "next"] \in Jobs /\ Fits([Idle EXCEPT !.pc = "next"])
<1>1. NoRow \in Projections
  BY DEF NoRow, Projections, Targets, Files, States
<1>2. Idle \in Jobs /\ Idle.pc = "idle" /\ Idle.todo = {}
  BY <1>1, LimitsAssumption DEF Idle, Jobs, Places
<1> DEFINE j == [Idle EXCEPT !.pc = "next"]
<1>3. j \in Jobs /\ j.pc = "next" /\ j.todo = Idle.todo
  BY <1>2 DEF Jobs, Places
<1> HIDE DEF j
<1>4. Fits(Idle) /\ Fits(j)
  BY <1>2, <1>3 DEF Fits
<1> QED BY <1>2, <1>3, <1>4 DEF j

LEMMA AfterFits ==
    ASSUME NEW th \in Threads, Fits(job[th])
    PROVE  Fits(After(th))
<1>1. CASE job[th].todo # {}
  BY <1>1, LoadFits DEF After
<1>2. CASE job[th].todo = {}
  BY <1>2, IdleFits DEF After
<1> QED BY <1>1, <1>2

\* One thread moves to something that fits.
LEMMA OneJob ==
    ASSUME IInv, NEW th \in Threads, NEW j, Fits(j), job' = [job EXCEPT ![th] = j]
    PROVE  JobsKept
<1>1. j \in Jobs
  BY DEF Fits
<1>2. job' \in [Threads -> Jobs]
  BY <1>1 DEF IInv, JobsOK
<1>3. ASSUME NEW u \in Threads PROVE Fits(job'[u])
  <2>1. job'[u] = IF u = th THEN j ELSE job[u]
    BY DEF IInv, JobsOK
  <2>2. Fits(job[u])
    BY DEF IInv, JobsOK
  <2> QED BY <2>1, <2>2
<1> QED BY <1>2, <1>3 DEF JobsKept

LEMMA JobsSame ==
    ASSUME IInv, UNCHANGED job
    PROVE  JobsKept
<1>1. ASSUME NEW u \in Threads PROVE Fits(job'[u])
  BY DEF IInv, JobsOK
<1> QED BY <1>1 DEF IInv, JobsOK, JobsKept

LEMMA DoneFits ==
    ASSUME IInv, NEW th \in Threads, Done(th)
    PROVE  JobsKept
BY OneJob, AfterFits DEF Done, IInv, JobsOK

LEMMA GotoFits ==
    ASSUME IInv, NEW th \in Threads, NEW pc \in Places,
           job[th].pc \notin {"idle", "next"}, Goto(th, pc)
    PROVE  JobsKept
<1> DEFINE j == [job[th] EXCEPT !.pc = pc]
<1>1. Fits(job[th]) /\ job[th] \in Jobs
  BY DEF IInv, JobsOK
<1>2. j \in Jobs /\ j.run = job[th].run /\ j.snap = job[th].snap /\ j.todo = job[th].todo
  BY <1>1 DEF Jobs
<1>3. job' = [job EXCEPT ![th] = j]
  BY DEF Goto, IInv, JobsOK
<1> HIDE DEF j
<1>4. Fits(j)
  BY <1>1, <1>2 DEF Fits
<1> QED BY <1>3, <1>4, OneJob

LEMMA BeginFits ==
    ASSUME IInv, NEW th \in Threads, NEW r \in Runs, r <= fired, Begin(th, r)
    PROVE  JobsKept
<1> DEFINE j == [job[th] EXCEPT !.pc = "check", !.run = r, !.snap = rows[r]]
<1>0. r \in 0..MaxRuns
  BY DEF Runs
<1>1. Fits(job[th]) /\ job[th] \in Jobs /\ rows[r] \in Projections
  BY DEF IInv, JobsOK, RowsOK
<1>2. j \in Jobs /\ j.run = r /\ j.snap = rows[r] /\ j.todo = job[th].todo
  BY <1>1, <1>0 DEF Jobs, Places
<1>3. job' = [job EXCEPT ![th] = j]
  BY DEF Begin, IInv, JobsOK
<1> HIDE DEF j
<1>4. Known(r, rows[r])
  BY DEF Known
<1>5. Fits(j)
  BY <1>1, <1>2, <1>4 DEF Fits
<1> QED BY <1>3, <1>5, OneJob

LEMMA DeferMoves ==
    ASSUME IInv, NEW th \in Threads, Defer(th)
    PROVE  RowsKept /\ JobsKept
<1> DEFINE r == job[th].run  n == job[th].snap.attempts + 1
<1>1. JobsKept
  BY DoneFits DEF Defer
<1>2. CASE n > MaxAttempts
  BY <1>1, <1>2, ObsoleteMoves DEF Defer
<1>3. CASE ~(n > MaxAttempts)
  <2>1. n \in Nat
    BY DEF IInv, JobsOK, Jobs, Projections
  <2> HIDE DEF n
  <2>2. rows' = [rows EXCEPT ![r].attempts = IF rows[r].state = "pending" THEN n ELSE @]
    BY <1>3 DEF Defer, n
  <2> HIDE DEF r
  <2>3. ASSUME NEW q \in Runs
        PROVE  /\ rows'[q] \in Projections
               /\ rows'[q].order = rows[q].order /\ rows[q].order \in Nat
               /\ rows'[q].timer = rows[q].timer
               /\ rows'[q].state = rows[q].state
    <3>1. rows[q] \in Projections
      BY DEF IInv, RowsOK
    <3>2. rows'[q] = IF q = r THEN [rows[q] EXCEPT !.attempts = IF rows[r].state = "pending"
                                                                 THEN n ELSE @]
                     ELSE rows[q]
      BY <2>2 DEF IInv, RowsOK
    <3> QED BY <2>1, <3>1, <3>2 DEF Projections
  <2>4. rows' \in [Runs -> Projections]
    <3>1. rows' = [q \in Runs |-> rows'[q]]
      BY <2>2 DEF IInv, RowsOK
    <3> QED BY <2>3, <3>1
  <2>5. RowsKept
    BY <2>3, <2>4 DEF RowsKept
  <2> QED BY <1>1, <2>5
<1> QED BY <1>2, <1>3

-----------------------------------------------------------------------------
(* The steps *)

\* Nothing of the argument is touched.
LEMMA Apart ==
    ASSUME IInv, UNCHANGED <<fired, rows, file, job>>
    PROVE  Orderly
BY RowsSame, JobsSame, FilesSame DEF Orderly

LEMMA AttemptOrderly ==
    ASSUME IInv, NEW th \in Threads,
           Obsolete(th) \/ CheckFiles(th) \/ SendIpc(th) \/ Mark(th) \/ PickUp(th)
    PROVE  Orderly
<1>1. fired' = fired /\ UNCHANGED file
  BY DEF Obsolete, CheckFiles, SendIpc, Mark, PickUp, folder
<1>2. FilesKept
  BY <1>1, FilesSame
<1>3. CASE Obsolete(th)
  <2>1. RowsKept
    BY <1>3, ObsoleteMoves DEF Obsolete
  <2>2. JobsKept
    BY <1>3, DoneFits DEF Obsolete
  <2> QED BY <1>1, <1>2, <2>1, <2>2 DEF Orderly
<1>4. CASE CheckFiles(th)
  <2>1. CASE Defer(th)
    BY <1>1, <1>2, <2>1, DeferMoves DEF Orderly
  <2>2. CASE Goto(th, "write") /\ UNCHANGED rows
    <3>1. JobsKept
      BY <1>4, <2>2, GotoFits DEF CheckFiles, Eligible, Places
    <3> QED BY <1>1, <1>2, <2>2, <3>1, RowsSame DEF Orderly
  <2> QED BY <1>4, <2>1, <2>2 DEF CheckFiles
<1>5. CASE SendIpc(th)
  <2>1. CASE Defer(th)
    BY <1>1, <1>2, <2>1, DeferMoves DEF Orderly
  <2>2. ASSUME NEW pc \in {"pickup", "mark", "fallback"}, Goto(th, pc), UNCHANGED rows
        PROVE  Orderly
    <3>1. JobsKept
      BY <1>5, <2>2, GotoFits DEF SendIpc, Eligible, Places
    <3> QED BY <1>1, <1>2, <2>2, <3>1, RowsSame DEF Orderly
  <2> QED BY <1>5, <2>1, <2>2 DEF SendIpc
<1>6. CASE Mark(th)
  <2>1. RowsKept
    BY <1>6, StateMoves DEF Mark, MarkPublished, States
  <2>2. JobsKept
    BY <1>6, DoneFits DEF Mark
  <2> QED BY <1>1, <1>2, <2>1, <2>2 DEF Orderly
<1>7. CASE PickUp(th)
  <2>1. RowsKept
    BY <1>7, StateMoves DEF PickUp, MarkPickedUp, States
  <2>2. Goto(th, "remove") \/ Done(th)
    BY <1>7 DEF PickUp
  <2>3. JobsKept
    BY <1>7, <2>2, DoneFits, GotoFits DEF PickUp, Places
  <2> QED BY <1>1, <1>2, <2>1, <2>3 DEF Orderly
<1> QED BY <1>3, <1>4, <1>5, <1>6, <1>7

\* The file is replaced only when what it holds is older than the snapshot, and the
\* snapshot still names the order of its run.
LEMMA WriteOrderly ==
    ASSUME IInv, NEW th \in Threads, Write(th)
    PROVE  Orderly
<1> DEFINE s == job[th].snap  r == job[th].run  there == file[s.target]
<1>1. r \in Runs /\ Known(r, s) /\ s \in Projections
  BY DEF Write, IInv, JobsOK, Fits, Jobs
<1>2. fired' = fired
  BY DEF Write
<1>3. CASE there = r
  <2>1. Defer(th) /\ UNCHANGED file
    BY <1>3 DEF Write
  <2> QED BY <1>2, <2>1, DeferMoves, FilesSame DEF Orderly
<1>4. CASE there # r /\ NewerThere(s, there)
  <2>1. MarkObsolete(r) /\ Done(th) /\ UNCHANGED file
    BY <1>4 DEF Write
  <2> QED BY <1>2, <2>1, ObsoleteMoves, DoneFits, FilesSame DEF Orderly
<1>5. CASE there # r /\ ~NewerThere(s, there)
  <2>1. CASE UNCHANGED file /\ Defer(th)
    BY <1>2, <2>1, DeferMoves, FilesSame DEF Orderly
  <2>2. CASE file' = [file EXCEPT ![s.target] = r] /\ Goto(th, "mark") /\ UNCHANGED rows
    <3>1. JobsKept
      BY <2>2, GotoFits DEF Write, Places
    <3>2. file' \in [Files -> 0..MaxRuns]
      <4>1. r \in 0..MaxRuns
        BY <1>1 DEF Runs
      <4> HIDE DEF r, s
      <4> QED BY <2>2, <4>1 DEF IInv, FilesOK
    <3>3. ASSUME NEW f \in Files PROVE FileKept(f)
      <4>1. CASE f # s.target
        <5>1. file'[f] = file[f]
          BY <2>2, <4>1 DEF IInv, FilesOK
        <5>2. file[f] # 0 => file[f] \in Runs
          BY DEF IInv, FilesOK, Runs
        <5>3. file[f] # 0 => rows[file[f]].order \in Nat
          BY <5>2 DEF IInv, RowsOK, Projections
        <5> QED BY <5>1, <5>3 DEF FileKept
      <4>2. CASE f = s.target
        <5>1. file'[f] = r /\ file[f] = there
          BY <2>2, <4>2 DEF IInv, FilesOK
        <5>2. there # 0 => there \in Runs
          BY <5>1 DEF IInv, FilesOK, Runs
        <5>3. there # 0 => rows[there].order \in Nat /\ s.order \in Nat
          BY <1>1, <5>2 DEF IInv, RowsOK, Projections
        <5>4. there # 0 => rows[there].order <= s.order
          BY <1>5, <5>3 DEF NewerThere
        <5>5. rows[r].state = "none" \/ rows[r].order = s.order
          BY <1>1 DEF Known
        <5> HIDE DEF s, r, there
        <5> QED BY <5>1, <5>3, <5>4, <5>5 DEF FileKept
      <4> QED BY <4>1, <4>2
    <3>4. RowsKept
      BY <2>2, RowsSame
    <3> QED BY <1>2, <3>1, <3>2, <3>3, <3>4 DEF Orderly, FilesKept
  <2> QED BY <1>5, <2>1, <2>2 DEF Write
<1> QED BY <1>3, <1>4, <1>5

\* Only a live row becomes a file projection.
LEMMA FallbackOrderly ==
    ASSUME IInv, NEW th \in Threads, Fallback(th)
    PROVE  Orderly
<1> DEFINE s == job[th].snap  r == job[th].run
           p == [rows[r] EXCEPT !.kind = "file", !.target = OwnFile(r), !.state = "pending"]
<1>1. r \in Runs /\ Known(r, s) /\ job[th] \in Jobs /\ Fits(job[th]) /\ rows[r] \in Projections
  BY DEF Fallback, IInv, JobsOK, Fits, RowsOK
<1>2. fired' = fired /\ FilesKept
  BY FilesSame DEF Fallback
<1>3. CASE Defer(th)
  BY <1>2, <1>3, DeferMoves DEF Orderly
<1>4. CASE Done(th) /\ UNCHANGED rows
  BY <1>2, <1>4, DoneFits, RowsSame DEF Orderly
<1>5. CASE /\ Convertible(r) /\ rows' = [rows EXCEPT ![r] = p]
           /\ job' = [job EXCEPT ![th].pc = "check", ![th].snap = p]
  <2>1. OwnFile(r) \in Targets
    BY <1>1 DEF Targets, Files
  <2>2. p \in Projections /\ p.order = rows[r].order /\ p.state = "pending"
        /\ p.timer = rows[r].timer
    BY <1>1, <2>1 DEF Projections, States
  <2>3. IsLive(r)
    BY <1>5 DEF Convertible
  <2> HIDE DEF p
  <2>4. RowsKept
    <3>1. rows' \in [Runs -> Projections]
      BY <1>5, <2>2 DEF IInv, RowsOK
    <3>2. ASSUME NEW q \in Runs
          PROVE  /\ rows'[q].order <= rows[q].order /\ rows'[q].timer \in {rows[q].timer, 0}
                 /\ rows'[q].state = "none" \/ rows'[q].order = rows[q].order
                 /\ rows[q].state = "none" => rows'[q].state = "none"
                 /\ Settled(q) => rows'[q].state \in {rows[q].state, "none"}
      <4>1. rows[q].order \in Nat
        BY DEF IInv, RowsOK, Projections
      <4>2. CASE q = r
        <5>1. rows'[q] = p
          BY <1>1, <1>5, <4>2 DEF IInv, RowsOK
        <5> QED BY <2>2, <2>3, <4>1, <4>2, <5>1 DEF IsLive, Settled
      <4>3. CASE q # r
        <5>1. rows'[q] = rows[q]
          BY <1>5, <4>3 DEF IInv, RowsOK
        <5> QED BY <4>1, <5>1
      <4> QED BY <4>2, <4>3
    <3> QED BY <3>1, <3>2 DEF RowsKept
  <2> DEFINE j == [job[th] EXCEPT !.pc = "check", !.snap = p]
  <2>5. j \in Jobs /\ j.run = r /\ j.snap = p /\ j.todo = job[th].todo
    BY <1>1, <2>2 DEF Jobs, Places
  <2>6. job' = [job EXCEPT ![th] = j]
    BY <1>5 DEF IInv, JobsOK
  <2> HIDE DEF j
  <2>7. Known(r, p)
    BY <1>1, <2>2 DEF Known
  <2>8. Fits(j)
    BY <1>1, <2>5, <2>7 DEF Fits
  <2>9. JobsKept
    BY <2>6, <2>8, OneJob
  <2> QED BY <1>2, <2>4, <2>9 DEF Orderly
<1> QED BY <1>3, <1>4, <1>5 DEF Fallback

LEMMA RemoveOrderly ==
    ASSUME IInv, NEW file0, \A f \in Files : file0[f] \in {file[f], 0},
           file' = file0, file0 \in [Files -> 0..MaxRuns]
    PROVE  FilesKept
<1>1. ASSUME NEW f \in Files PROVE FileKept(f)
  <2>1. file'[f] \in {file[f], 0}
    OBVIOUS
  <2>2. file[f] # 0 => file[f] \in Runs
    BY DEF IInv, FilesOK, Runs
  <2>3. file[f] # 0 => rows[file[f]].order \in Nat
    BY <2>2 DEF IInv, RowsOK, Projections
  <2> QED BY <2>1, <2>3 DEF FileKept
<1> QED BY <1>1 DEF FilesKept

LEMMA StepOrderly ==
    ASSUME IInv, NEW th \in Threads, Step(th)
    PROVE  Orderly
<1>1. CASE RemoveFile(th)
  <2>1. UNCHANGED <<fired, rows>> /\ Done(th)
    BY <1>1 DEF RemoveFile, durable
  <2>2. file' = [file EXCEPT ![job[th].snap.target] = IF @ = job[th].run THEN 0 ELSE @]
    BY <1>1 DEF RemoveFile
  <2>3. file' \in [Files -> 0..MaxRuns]
    <3> DEFINE g == job[th].snap.target  v == IF file[g] = job[th].run THEN 0 ELSE file[g]
    <3>1. 0 \in 0..MaxRuns /\ file \in [Files -> 0..MaxRuns]
      BY LimitsAssumption DEF IInv, FilesOK
    <3>2. g \in Files => v \in 0..MaxRuns
      BY <3>1
    <3>3. file' = [file EXCEPT ![g] = v]
      BY <2>2
    <3> HIDE DEF g, v
    <3> QED BY <3>1, <3>2, <3>3
  <2>4. \A f \in Files : file'[f] \in {file[f], 0}
    BY <2>2 DEF IInv, FilesOK
  <2>5. FilesKept
    BY <2>3, <2>4, RemoveOrderly
  <2> QED BY <2>1, <2>5, RowsSame, DoneFits DEF Orderly
<1>2. CASE Fallback(th)
  BY <1>2, FallbackOrderly
<1>3. CASE Write(th)
  BY <1>3, WriteOrderly
<1>4. CASE Obsolete(th) \/ CheckFiles(th) \/ SendIpc(th) \/ Mark(th) \/ PickUp(th)
  BY <1>4, AttemptOrderly
<1> QED BY <1>1, <1>2, <1>3, <1>4 DEF Step

\* A list read from the table fits.
LEMMA ListFits ==
    ASSUME IInv, NEW S \in SUBSET Runs, \A r \in S : rows[r].state # "none", S # {},
           NEW j \in Jobs, j.todo = Snapshots(S), j.pc = "idle"
    PROVE  Fits(Load(j))
<1>1. ASSUME NEW x \in j.todo PROVE Known(x.run, x.snap)
  <2>1. PICK r \in S : x = [run |-> r, snap |-> rows[r]]
    BY DEF Snapshots
  <2>2. r \in Runs /\ ~(r > fired)
    BY DEF IInv, Numbered
  <2>3. r <= fired
    BY <2>2, LimitsAssumption DEF IInv, Runs
  <2> QED BY <2>1, <2>3 DEF Known
<1>2. j.todo # {}
  BY DEF Snapshots
<1>3. Fits(j)
  BY <1>1 DEF Fits
<1> QED BY <1>2, <1>3, LoadFits

LEMMA ListIsTasks ==
    ASSUME IInv, NEW S \in SUBSET Runs
    PROVE  Snapshots(S) \in SUBSET Tasks
BY DEF Snapshots, Tasks, IInv, RowsOK

LEMMA PumpOrderly ==
    ASSUME IInv, Pump
    PROVE  Orderly
<1>0. "pump" \in Threads
  BY DEF Threads
<1>1. CASE PumpStart
  <2> DEFINE due == Oldest({r \in Runs : rows[r].state = "pending"} \ waiting)
             j == [Idle EXCEPT !.todo = Snapshots(due)]
  <2>1. due \in SUBSET Runs /\ \A r \in due : rows[r].state # "none"
    BY DEF Oldest
  <2>2. j \in Jobs /\ j.todo = Snapshots(due) /\ j.pc = "idle"
    <3> HIDE DEF due
    <3>1. Idle \in Jobs /\ Idle.pc = "idle"
      BY IdleFits DEF Idle
    <3>2. Snapshots(due) \in SUBSET Tasks
      BY <2>1, ListIsTasks
    <3> QED BY <3>1, <3>2 DEF Jobs
  <2>3. CASE due = {}
    <3>1. Snapshots(due) = {}
      BY <2>3 DEF Snapshots
    <3>2. job' = [job EXCEPT !["pump"] = [j EXCEPT !.pc = "next"]]
      BY <1>1, <2>3 DEF PumpStart
    <3>3. Fits([j EXCEPT !.pc = "next"])
      <4> HIDE DEF j, due
      <4> DEFINE k == [j EXCEPT !.pc = "next"]
      <4>1. k \in Jobs /\ k.pc = "next" /\ k.todo = j.todo
        BY <2>2 DEF Jobs, Places
      <4> HIDE DEF k
      <4>2. Fits(k)
        BY <2>2, <3>1, <4>1 DEF Fits
      <4> QED BY <4>2 DEF k
    <3> HIDE DEF j, due
    <3>4. JobsKept
      BY <1>0, <3>2, <3>3, OneJob
    <3> QED BY <1>1, <3>4, RowsSame, FilesSame DEF PumpStart, Orderly, durable, folder
  <2>4. CASE due # {}
    <3>1. job' = [job EXCEPT !["pump"] = Load(j)]
      BY <1>1, <2>4 DEF PumpStart
    <3> HIDE DEF j, due
    <3>2. Fits(Load(j))
      BY <2>1, <2>2, <2>4, ListFits
    <3>3. JobsKept
      BY <1>0, <3>1, <3>2, OneJob
    <3> QED BY <1>1, <3>3, RowsSame, FilesSame DEF PumpStart, Orderly, durable, folder
  <2> QED BY <2>3, <2>4
<1>2. CASE SweepStart
  <2> DEFINE alive == Oldest({r \in Runs : IsLive(r)})
             j == [Idle EXCEPT !.sweeps = TRUE, !.todo = Snapshots(alive)]
  <2>1. alive \in SUBSET Runs /\ \A r \in alive : rows[r].state # "none"
    BY DEF Oldest, IsLive
  <2>2. j \in Jobs /\ j.todo = Snapshots(alive) /\ j.pc = "idle"
    <3> HIDE DEF alive
    <3>1. Idle \in Jobs /\ Idle.pc = "idle"
      BY IdleFits DEF Idle
    <3>2. Snapshots(alive) \in SUBSET Tasks
      BY <2>1, ListIsTasks
    <3> QED BY <3>1, <3>2 DEF Jobs
  <2>3. CASE alive = {}
    <3>1. job' = [job EXCEPT !["pump"] = Idle]
      BY <1>2, <2>3 DEF SweepStart
    <3>2. JobsKept
      BY <1>0, <3>1, IdleFits, OneJob
    <3> QED BY <1>2, <3>2, RowsSame, FilesSame DEF SweepStart, Orderly, durable, folder
  <2>4. CASE alive # {}
    <3>1. job' = [job EXCEPT !["pump"] = Load(j)]
      BY <1>2, <2>4 DEF SweepStart
    <3> HIDE DEF j, alive
    <3>2. Fits(Load(j))
      BY <2>1, <2>2, <2>4, ListFits
    <3>3. JobsKept
      BY <1>0, <3>1, <3>2, OneJob
    <3> QED BY <1>2, <3>3, RowsSame, FilesSame DEF SweepStart, Orderly, durable, folder
  <2> QED BY <2>3, <2>4
<1>3. CASE Sweep
  <2> DEFINE r == job["pump"].run
  <2>1. fired' = fired /\ FilesKept
    BY <1>3, FilesSame DEF Sweep, folder
  <2>2. ASSUME NEW pc \in {"pickup", "fallback"}, Goto("pump", pc), UNCHANGED rows
        PROVE  Orderly
    <3>1. JobsKept
      BY <1>0, <1>3, <2>2, GotoFits DEF Sweep, Places
    <3> QED BY <2>1, <2>2, <3>1, RowsSame DEF Orderly
  <2>3. ASSUME Done("pump"), MarkObsolete(r) \/ Requeue(r) \/ UNCHANGED rows
        PROVE  Orderly
    <3>1. JobsKept
      BY <1>0, <2>3, DoneFits
    <3>2. RowsKept
      BY <2>3, ObsoleteMoves, RequeueMoves, RowsSame
    <3> QED BY <2>1, <3>1, <3>2 DEF Orderly
  <2> QED BY <1>3, <2>2, <2>3 DEF Sweep
<1> QED BY <1>1, <1>2, <1>3 DEF Pump

LEMMA ReconcileOrderly ==
    ASSUME IInv, NEW t \in Timers, Reconcile(t)
    PROVE  Orderly
<1> DEFINE r == Current(t)
<1>0. "other" \in Threads
  BY DEF Threads
<1>1. fired' = fired /\ FilesKept
  BY FilesSame DEF Reconcile
<1>2. r \in Runs
  <2>1. RunsOf(t) # {}
    BY DEF Reconcile, Current
  <2>2. RunsOf(t) \subseteq Runs /\ Runs \subseteq Nat /\ \A q \in Runs : q <= MaxRuns
    BY DEF RunsOf, Runs
  <2>3. Max(RunsOf(t)) \in RunsOf(t)
    BY <2>1, <2>2, LargestMember, LimitsAssumption
  <2> QED BY <2>1, <2>2, <2>3 DEF Current
<1> HIDE DEF r
<1>3. rows[r].state # "none" => r <= fired
  <2>1. rows[r].state # "none" => ~(r > fired)
    BY <1>2 DEF IInv, Numbered
  <2> QED BY <1>2, <2>1, LimitsAssumption DEF IInv, Runs
<1>4. CASE rows[r].state = "pending" /\ Begin("other", r) /\ UNCHANGED rows
  <2>1. JobsKept
    BY <1>0, <1>2, <1>3, <1>4, BeginFits
  <2> QED BY <1>1, <1>4, <2>1, RowsSame DEF Orderly
<1>5. CASE FileTaken(rows[r]) /\ Requeue(r) /\ Begin("other", r)
  <2>1. JobsKept
    BY <1>0, <1>2, <1>3, <1>5, BeginFits DEF FileTaken
  <2> QED BY <1>1, <1>5, <2>1, RequeueMoves DEF Orderly
<1>6. CASE UNCHANGED <<rows, job>>
  BY <1>1, <1>6, RowsSame, JobsSame DEF Orderly
<1> QED BY <1>4, <1>5, <1>6 DEF Reconcile, r

LEMMA DeleteOrderly ==
    ASSUME IInv, NEW t \in Timers, Delete(t)
    PROVE  Orderly
<1>1. fired' = fired /\ FilesKept /\ JobsKept
  BY FilesSame, JobsSame DEF Delete
<1>2. rows' = [r \in Runs |-> IF rows[r].timer = t THEN NoRow ELSE rows[r]]
  BY DEF Delete
<1>3. NoRow \in Projections /\ NoRow.state = "none" /\ NoRow.order = 0 /\ NoRow.timer = 0
  BY DEF NoRow, Projections, Targets, Files, States
<1>4. \A r \in Runs : rows[r] \in Projections /\ rows[r].order \in Nat
  BY DEF IInv, RowsOK, Projections
<1>5. RowsKept
  <2>1. rows' \in [Runs -> Projections]
    BY <1>2, <1>3, <1>4
  <2>2. \A r \in Runs : rows'[r] = NoRow \/ rows'[r] = rows[r]
    BY <1>2
  <2> QED BY <1>3, <1>4, <2>1, <2>2 DEF RowsKept
<1> QED BY <1>1, <1>5 DEF Orderly

\* A fire gives the next run a row with the next order.
LEMMA FireIInv ==
    ASSUME IInv, NEW t \in Timers, NEW reach \in BOOLEAN, NEW io \in BOOLEAN, Fire(t, reach, io)
    PROVE  /\ IInv'
           /\ \A r \in Runs : Settled(r) => rows'[r].state \in {rows[r].state, "none"}
           /\ \A f \in Files : FileKept(f)
<1> DEFINE n == fired + 1  p == NewProjection(t, n, Select(t, reach))
<1>0. "other" \in Threads
  BY DEF Threads
<1>1. n \in Runs /\ fired \in Nat /\ n \in Nat /\ fired' = n
  BY LimitsAssumption DEF Fire, IInv, Runs
<1>2. /\ rows' = [rows EXCEPT ![n] = p] /\ file' = file
      /\ job' = [job EXCEPT !["other"] = [Idle EXCEPT !.pc = "check", !.run = n, !.snap = p]]
  BY DEF Fire
<1>3. p.order = NextOrder /\ p.order \in Nat /\ p.order <= n
  BY NextOrderIsNew DEF NewProjection
<1>4. p \in Projections
  <2>1. IpcOf(t) \in Targets /\ OwnFile(n) \in Targets /\ FixedFile \in Targets
    BY <1>1 DEF Targets, Files
  <2>2. p.timer = t /\ p.kind \in {"file", "ipc"} /\ p.target \in Targets /\ p.state = "pending"
        /\ p.attempts = 0
    BY <2>1 DEF NewProjection
  <2>3. p = [timer |-> p.timer, kind |-> p.kind, target |-> p.target, order |-> p.order,
             state |-> p.state, attempts |-> p.attempts]
    BY DEF NewProjection
  <2> HIDE DEF p
  <2> QED BY <1>3, <2>2, <2>3 DEF Projections, States
<1> HIDE DEF p
<1>5. \A r \in Runs : rows'[r] = IF r = n THEN p ELSE rows[r]
  BY <1>1, <1>2 DEF IInv, RowsOK
<1>6. RowsOK'
  BY <1>1, <1>2, <1>4 DEF IInv, RowsOK
<1>7. Numbered'
  <2> SUFFICES ASSUME NEW r \in Runs
               PROVE  /\ rows'[r].order <= n
                      /\ r > n => rows'[r].state = "none" /\ rows'[r].timer = 0
    BY <1>1 DEF Numbered
  <2>1. rows[r].order \in Nat /\ rows[r].order <= fired 
        /\ (r > fired => rows[r].state = "none" /\ rows[r].timer = 0)
    BY DEF IInv, RowsOK, Numbered, Projections
  <2>2. r > n => r > fired /\ r # n
    BY <1>1 DEF Runs
  <2> QED BY <1>1, <1>3, <1>5, <2>1, <2>2
<1>8. FilesOK' /\ \A f \in Files : FileKept(f)
  BY <1>2, FilesSame DEF IInv, FilesOK, FilesKept
<1>9. \A r \in Runs : Settled(r) => rows'[r].state \in {rows[r].state, "none"}
  <2>1. ~Settled(n)
    BY <1>1 DEF IInv, Numbered, Settled
  <2> QED BY <1>5, <2>1
<1>10. \A r \in Runs : \A s : Known(r, s) => Known(r, s)'
  BY <1>1, <1>5, LimitsAssumption DEF Known, Runs
<1>11. JobsOK'
  <2> DEFINE j == [Idle EXCEPT !.pc = "check", !.run = n, !.snap = p]
  <2>1. Idle \in Jobs /\ Idle.todo = {} /\ n \in 0..MaxRuns
    BY <1>1, IdleFits DEF Idle, Runs
  <2>2. j \in Jobs /\ j.pc = "check" /\ j.run = n /\ j.snap = p /\ j.todo = {}
    BY <1>4, <2>1 DEF Jobs, Places
  <2>3. job' = [job EXCEPT !["other"] = j]
    BY <1>2
  <2> HIDE DEF j, n
  <2>4. n <= fired' /\ rows'[n] = p
    BY <1>1, <1>5
  <2>5. job' \in [Threads -> Jobs]
    BY <1>0, <2>2, <2>3 DEF IInv, JobsOK
  <2>6. ASSUME NEW th \in Threads PROVE Fits(job[th])'
    <3>1. CASE th = "other"
      <4>1. job'[th] = j
        BY <2>3, <3>1 DEF IInv, JobsOK
      <4> QED BY <1>1, <2>2, <2>4, <4>1 DEF Fits, Known
    <3>2. CASE th # "other"
      <4>1. job'[th] = job[th] /\ Fits(job[th])
        BY <2>3, <3>2 DEF IInv, JobsOK
      <4>2. \A x \in job[th].todo : x.run \in Runs
        BY <4>1 DEF Fits, Jobs, Tasks
      <4> QED BY <1>10, <4>1, <4>2 DEF Fits, Known
    <3> QED BY <3>1, <3>2
  <2> QED BY <2>5, <2>6 DEF JobsOK
<1> QED BY <1>1, <1>6, <1>7, <1>8, <1>9, <1>11 DEF IInv

LEMMA NextIInv ==
    ASSUME IInv, [Next]_vars
    PROVE  /\ IInv'
           /\ \A r \in Runs : Settled(r) => rows'[r].state \in {rows[r].state, "none"}
           /\ \A f \in Files : FileKept(f)
<1>1. ASSUME NEW t \in Timers, NEW reach \in BOOLEAN, NEW io \in BOOLEAN, Fire(t, reach, io)
      PROVE  /\ IInv'
             /\ \A r \in Runs : Settled(r) => rows'[r].state \in {rows[r].state, "none"}
             /\ \A f \in Files : FileKept(f)
  BY <1>1, FireIInv
<1>2. ASSUME NEW t \in Timers, Delete(t) PROVE Orderly
  BY <1>2, DeleteOrderly
<1>3. ASSUME NEW th \in Threads, Step(th) PROVE Orderly
  BY <1>3, StepOrderly
<1>4. ASSUME Pump PROVE Orderly
  BY <1>4, PumpOrderly
<1>5. ASSUME NEW t \in Timers, Reconcile(t) PROVE Orderly
  BY <1>5, ReconcileOrderly
<1>6. ASSUME NEW f \in Files, Consume(f) PROVE Orderly
  <2>1. UNCHANGED <<fired, rows, job>> /\ file' = [file EXCEPT ![f] = 0]
    BY <1>6 DEF Consume, durable
  <2>2. file' \in [Files -> 0..MaxRuns] /\ \A g \in Files : file'[g] \in {file[g], 0}
    BY <2>1, LimitsAssumption DEF IInv, FilesOK
  <2>3. FilesKept
    BY <2>2, RemoveOrderly
  <2> QED BY <2>1, <2>3, RowsSame, JobsSame DEF Orderly
<1>7. ASSUME Crash PROVE Orderly
  <2>1. UNCHANGED <<fired, rows, file>> /\ job' = [th \in Threads |-> Idle]
    BY <1>7 DEF Crash, durable, folder
  <2>2. JobsKept
    BY <2>1, IdleFits DEF JobsKept
  <2> QED BY <2>1, <2>2, RowsSame, FilesSame DEF Orderly
<1>8. ASSUME \/ \E r \in Runs : Elapse(r) \/ Answer(r) \/ Acknowledge(r) \/ GiveUp(r)
             \/ \E c \in Conns, t \in Timers : Connect(c, t)
             \/ \E c \in Conns : Drain(c) \/ WriterFails(c) \/ Unregister(c)
             \/ Serve \/ UNCHANGED vars
      PROVE  Orderly
  <2>1. UNCHANGED <<fired, rows, file, job>>
    BY <1>8 DEF Elapse, Answer, Acknowledge, GiveUp, Connect, Drain, WriterFails, Unregister,
                Serve, vars, durable, folder
  <2> QED BY <2>1, Apart
<1> QED BY <1>1, <1>2, <1>3, <1>4, <1>5, <1>6, <1>7, <1>8, OrderlyIInv DEF Next

-----------------------------------------------------------------------------
\* Picked up and obsolete are final, whatever the two threads, the apps, deletions and
\* crashes do in between (mark_transport_published, mark_transport_obsolete, defer,
\* ipc_fallback, requeue): a stale snapshot revives no projection.
THEOREM SettledIsFinal == Spec => SettledStays
<1>1. Init => IInv
  BY InitIInv
<1>2. IInv /\ [Next]_vars => IInv'
  BY NextIInv
<1>3. IInv /\ [Next]_vars => [\A r \in Runs : Settled(r) =>
                                 rows'[r].state \in {rows[r].state, "none"}]_vars
  BY NextIInv
<1> QED BY <1>1, <1>2, <1>3, PTL DEF Spec, SettledStays

\* A file at a fixed name is never overwritten with an older fire's notification
\* (attempt_file compares with what the file holds, under the target's lock), although
\* the cursor it checked first was read before the lock.
THEOREM FilesNeverGoBack == Spec => NewerStays
<1>1. Init => IInv
  BY InitIInv
<1>2. IInv /\ [Next]_vars => IInv'
  BY NextIInv
<1>3. IInv /\ [Next]_vars =>
        [\A f \in Files :
            file[f] # 0 /\ file'[f] # 0 /\ rows[file[f]].state # "none"
               => rows[file'[f]].state = "none" \/ rows[file'[f]].order >= rows[file[f]].order]_vars
  BY NextIInv DEF FileKept
<1> QED BY <1>1, <1>2, <1>3, PTL DEF Spec, NewerStays

-----------------------------------------------------------------------------
(* A notification and the files it names *)

\* A file names a run that has been.
Written == \A f \in Files : file[f] <= fired
\* A thread about to write has seen the files of its run, and if the run is still current
\* they are there.
Ready ==
    \A th \in Threads, t \in Timers :
        job[th].pc = "write" /\ job[th].run = Current(t) => t \in status /\ job[th].run \in stubs
NamesInv == Written /\ Ready /\ NamesItsFiles

LEMMA CurrentIsThere ==
    ASSUME IInv, NEW t \in Timers, Current(t) # 0
    PROVE  Current(t) \in RunsOf(t) /\ Current(t) \in Runs /\ Current(t) <= fired
<1>1. RunsOf(t) # {}
  BY DEF Current
<1>2. RunsOf(t) \subseteq Runs /\ Runs \subseteq Nat /\ \A q \in Runs : q <= MaxRuns
  BY DEF RunsOf, Runs
<1>3. Max(RunsOf(t)) \in RunsOf(t)
  BY <1>1, <1>2, LargestMember, LimitsAssumption
<1>4. Current(t) = Max(RunsOf(t))
  BY <1>1 DEF Current
<1>5. \A r \in RunsOf(t) : ~(r > fired)
  BY TimersAssumption DEF IInv, Numbered, RunsOf
<1>6. Current(t) \in Nat /\ fired \in Nat
  BY <1>2, <1>3, <1>4 DEF IInv
<1> QED BY <1>2, <1>3, <1>4, <1>5, <1>6

\* What a step must see to: the current run of a timer keeps its files unless another run
\* is current after it; a thread writes only what it was ready to write, and gets ready
\* only when the files are there.
FilesStay ==
    \A t \in Timers :
        \/ Current(t)' = 0
        \/ Current(t)' > fired
        \/ Current(t)' = Current(t) /\ (t \in status => t \in status') /\ (Current(t) \in stubs => Current(t) \in stubs')
WritesReady ==
    \A f \in Files : file'[f] \in {file[f], 0}
                     \/ \E th \in Threads : job[th].pc = "write" /\ file'[f] = job[th].run
GetsReady ==
    \A th \in Threads : job'[th].pc = "write" =>
        \/ job[th].pc = "write" /\ job'[th].run = job[th].run
        \/ \A t \in Timers : job'[th].run = Current(t)' => t \in status' /\ job'[th].run \in stubs'

LEMMA NamesStay ==
    ASSUME IInv, NamesInv, IInv', fired' >= fired, FilesStay, WritesReady, GetsReady
    PROVE  NamesInv'
<1>1. fired \in Nat /\ fired' \in Nat
  BY DEF IInv
<1>2. ASSUME NEW th \in Threads, job[th].pc = "write" PROVE job[th].run \in Runs /\ job[th].run <= fired
  BY <1>2 DEF IInv, JobsOK, Fits, Known
<1>3. \A f \in Files : file[f] \in Nat /\ file'[f] \in Nat
  BY LimitsAssumption DEF IInv, FilesOK
<1>4. Written'
  <2> SUFFICES ASSUME NEW f \in Files PROVE file'[f] <= fired'
    BY DEF Written
  <2>1. file[f] <= fired
    BY DEF NamesInv, Written
  <2>2. CASE file'[f] \in {file[f], 0}
    BY <1>1, <1>3, <2>1, <2>2
  <2>3. CASE \E th \in Threads : job[th].pc = "write" /\ file'[f] = job[th].run
    BY <1>1, <1>2, <1>3, <2>3
  <2> QED BY <2>2, <2>3 DEF WritesReady
<1>5. ASSUME NEW r \in Runs, r <= fired, NEW t \in Timers, r = Current(t)',
             r = Current(t) => t \in status /\ r \in stubs
      PROVE  t \in status' /\ r \in stubs'
  <2>1. r \in Nat /\ r # 0
    BY DEF Runs
  <2> QED BY <1>1, <1>5, <2>1 DEF FilesStay
<1>6. Ready'
  <2> SUFFICES ASSUME NEW th \in Threads, NEW t \in Timers, job'[th].pc = "write", job'[th].run = Current(t)'
               PROVE  t \in status' /\ job'[th].run \in stubs'
    BY DEF Ready
  <2>1. CASE job[th].pc = "write" /\ job'[th].run = job[th].run
    <3>1. job[th].run = Current(t) => t \in status /\ job[th].run \in stubs
      BY <2>1 DEF NamesInv, Ready
    <3> QED BY <1>2, <1>5, <2>1, <3>1
  <2> QED BY <2>1 DEF GetsReady
<1>7. NamesItsFiles'
  <2> SUFFICES ASSUME NEW f \in Files, NEW t \in Timers, file'[f] # 0, file'[f] = Current(t)'
               PROVE  t \in status' /\ file'[f] \in stubs'
    BY DEF NamesItsFiles
  <2>1. CASE file'[f] = file[f]
    <3>1. file[f] \in Runs /\ file[f] <= fired
      BY <2>1 DEF IInv, FilesOK, Runs, NamesInv, Written
    <3>2. file[f] = Current(t) => t \in status /\ file[f] \in stubs
      BY <2>1 DEF NamesInv, NamesItsFiles
    <3> QED BY <1>5, <2>1, <3>1, <3>2
  <2>2. CASE \E th \in Threads : job[th].pc = "write" /\ file'[f] = job[th].run
    <3>1. PICK th \in Threads : job[th].pc = "write" /\ file'[f] = job[th].run
      BY <2>2
    <3>2. job[th].run = Current(t) => t \in status /\ job[th].run \in stubs
      BY <3>1 DEF NamesInv, Ready
    <3> QED BY <1>2, <1>5, <3>1, <3>2
  <2> QED BY <2>1, <2>2 DEF WritesReady
<1> QED BY <1>4, <1>6, <1>7 DEF NamesInv

-----------------------------------------------------------------------------
(* The pieces once more *)

SameTimers == \A r \in Runs : rows'[r].timer = rows[r].timer
StillWriting ==
    \A th \in Threads : job'[th].pc = "write" => job[th].pc = "write" /\ job'[th].run = job[th].run

LEMMA CurrentSame ==
    ASSUME SameTimers, status \subseteq status', stubs \subseteq stubs'
    PROVE  FilesStay /\ \A t \in Timers : Current(t)' = Current(t)
<1>1. ASSUME NEW t \in Timers PROVE Current(t)' = Current(t)
  <2>1. RunsOf(t)' = RunsOf(t)
    BY DEF RunsOf, SameTimers
  <2> QED BY <2>1 DEF Current
<1> QED BY <1>1 DEF FilesStay

LEMMA StateKeepsTimers ==
    ASSUME IInv, NEW r, NEW from, NEW to, SetState(r, from, to)
    PROVE  SameTimers
<1>1. ASSUME NEW q \in Runs PROVE rows'[q].timer = rows[q].timer
  <2>1. rows[q] \in Projections
    BY DEF IInv, RowsOK
  <2>2. rows'[q] = IF q = r THEN [rows[q] EXCEPT !.state = IF @ \in from THEN to ELSE @]
                   ELSE rows[q]
    BY DEF SetState, IInv, RowsOK
  <2> QED BY <2>1, <2>2 DEF Projections
<1> QED BY <1>1 DEF SameTimers

LEMMA DeferKeepsTimers ==
    ASSUME IInv, NEW th \in Threads, Defer(th)
    PROVE  SameTimers
<1> DEFINE r == job[th].run  n == job[th].snap.attempts + 1
<1>1. CASE n > MaxAttempts
  BY <1>1, StateKeepsTimers DEF Defer, MarkObsolete
<1>2. CASE ~(n > MaxAttempts)
  <2> HIDE DEF n
  <2>1. rows' = [rows EXCEPT ![r].attempts = IF rows[r].state = "pending" THEN n ELSE @]
    BY <1>2 DEF Defer, n
  <2> HIDE DEF r
  <2>2. ASSUME NEW q \in Runs PROVE rows'[q].timer = rows[q].timer
    <3>1. rows[q] \in Projections
      BY DEF IInv, RowsOK
    <3>2. rows'[q] = IF q = r THEN [rows[q] EXCEPT !.attempts = IF rows[r].state = "pending" THEN n ELSE @]
                     ELSE rows[q]
      BY <2>1 DEF IInv, RowsOK
    <3> QED BY <3>1, <3>2 DEF Projections
  <2> QED BY <2>2 DEF SameTimers
<1> QED BY <1>1, <1>2

LEMMA AfterWritesNothing ==
    ASSUME IInv, NEW th \in Threads
    PROVE  After(th).pc # "write"
<1>1. job[th] \in Jobs
  BY DEF IInv, JobsOK
<1>2. Load(job[th]).pc # "write"
  BY <1>1 DEF Load, Jobs
<1>3. Idle.pc = "idle" /\ [Idle EXCEPT !.pc = "next"].pc = "next"
  BY DEF Idle
<1> QED BY <1>2, <1>3 DEF After

\* One thread goes to a place where it does not write.
LEMMA OneStopsWriting ==
    ASSUME IInv, NEW th \in Threads, NEW j, j.pc # "write", job' = [job EXCEPT ![th] = j]
    PROVE  StillWriting
<1>1. \A u \in Threads : job'[u] = IF u = th THEN j ELSE job[u]
  BY DEF IInv, JobsOK
<1> QED BY <1>1 DEF StillWriting

LEMMA DoneStopsWriting ==
    ASSUME IInv, NEW th \in Threads, Done(th)
    PROVE  StillWriting
BY AfterWritesNothing, OneStopsWriting DEF Done

LEMMA GotoStopsWriting ==
    ASSUME IInv, NEW th \in Threads, NEW pc, pc # "write", Goto(th, pc)
    PROVE  StillWriting
<1> DEFINE j == [job[th] EXCEPT !.pc = pc]
<1>1. job[th] \in Jobs
  BY DEF IInv, JobsOK
<1>2. j.pc = pc
  BY <1>1 DEF Jobs
<1>3. job' = [job EXCEPT ![th] = j]
  BY DEF Goto, IInv, JobsOK
<1> HIDE DEF j
<1> QED BY <1>2, <1>3, OneStopsWriting

LEMMA BeginStopsWriting ==
    ASSUME IInv, NEW th \in Threads, NEW r, Begin(th, r)
    PROVE  StillWriting
<1> DEFINE j == [job[th] EXCEPT !.pc = "check", !.run = r, !.snap = rows[r]]
<1>1. job[th] \in Jobs
  BY DEF IInv, JobsOK
<1>2. j.pc = "check"
  BY <1>1 DEF Jobs
<1>3. job' = [job EXCEPT ![th] = j]
  BY DEF Begin, IInv, JobsOK
<1> HIDE DEF j
<1> QED BY <1>2, <1>3, OneStopsWriting

\* A step that fires nothing, deletes nothing, writes no file and makes nobody ready.
LEMMA NamesApart ==
    ASSUME IInv, NamesInv, Orderly, SameTimers, StillWriting, status \subseteq status', stubs \subseteq stubs',
           \A f \in Files : file'[f] \in {file[f], 0}
    PROVE  NamesInv'
<1>1. IInv'
  BY OrderlyIInv
<1>2. fired' >= fired
  BY DEF Orderly, IInv
<1>3. FilesStay
  BY CurrentSame
<1>4. WritesReady
  BY DEF WritesReady
<1>5. GetsReady
  BY DEF GetsReady, StillWriting
<1> QED BY <1>1, <1>2, <1>3, <1>4, <1>5, NamesStay

-----------------------------------------------------------------------------
(* The steps once more *)

LEMMA NamesByAttempt ==
    ASSUME IInv, NamesInv, NEW th \in Threads,
           Obsolete(th) \/ SendIpc(th) \/ Mark(th) \/ PickUp(th) \/ RemoveFile(th)
    PROVE  NamesInv'
<1>1. Orderly /\ UNCHANGED <<status, stubs>>
  BY StepOrderly DEF Step, Obsolete, SendIpc, Mark, PickUp, RemoveFile, folder
<1>2. \A f \in Files : file'[f] \in {file[f], 0}
  BY DEF Obsolete, SendIpc, Mark, PickUp, RemoveFile, folder, IInv, FilesOK
<1>3. SameTimers
  <2>1. CASE UNCHANGED rows
    BY <2>1 DEF SameTimers
  <2>2. CASE Defer(th)
    BY <2>2, DeferKeepsTimers
  <2>3. CASE Obsolete(th) \/ Mark(th) \/ PickUp(th)
    BY <2>3, StateKeepsTimers DEF Obsolete, Mark, PickUp, MarkObsolete, MarkPublished, MarkPickedUp
  <2> QED BY <2>1, <2>2, <2>3 DEF SendIpc, RemoveFile, durable
<1>4. StillWriting
  <2>1. CASE Done(th)
    BY <2>1, DoneStopsWriting
  <2>2. CASE Goto(th, "pickup") \/ Goto(th, "mark") \/ Goto(th, "fallback") \/ Goto(th, "remove")
    BY <2>2, GotoStopsWriting
  <2> QED BY <2>1, <2>2 DEF Obsolete, SendIpc, Mark, PickUp, RemoveFile, Defer
<1> QED BY <1>1, <1>2, <1>3, <1>4, NamesApart

LEMMA NamesByFallback ==
    ASSUME IInv, NamesInv, NEW th \in Threads, Fallback(th)
    PROVE  NamesInv'
<1> DEFINE r == job[th].run
           p == [rows[r] EXCEPT !.kind = "file", !.target = OwnFile(r), !.state = "pending"]
<1>1. Orderly /\ status \subseteq status' /\ stubs \subseteq stubs' /\ UNCHANGED file
  BY FallbackOrderly DEF Fallback
<1>2. \/ Defer(th)
      \/ Done(th) /\ UNCHANGED rows
      \/ rows' = [rows EXCEPT ![r] = p] /\ job' = [job EXCEPT ![th].pc = "check", ![th].snap = p]
  BY DEF Fallback
<1>3. job[th] \in Jobs /\ r \in Runs /\ rows[r] \in Projections
  BY DEF Fallback, IInv, JobsOK, Fits, RowsOK
<1>4. p.timer = rows[r].timer
  BY <1>3 DEF Projections
<1>5. SameTimers
  <2>1. CASE rows' = [rows EXCEPT ![r] = p]
    <3> HIDE DEF p
    <3>1. \A q \in Runs : rows'[q] = IF q = r THEN p ELSE rows[q]
      BY <2>1 DEF IInv, RowsOK
    <3> QED BY <1>4, <3>1 DEF SameTimers
  <2>2. CASE UNCHANGED rows
    BY <2>2 DEF SameTimers
  <2> QED BY <1>2, <2>1, <2>2, DeferKeepsTimers
<1>6. StillWriting
  <2>1. CASE Done(th)
    BY <2>1, DoneStopsWriting
  <2>2. CASE job' = [job EXCEPT ![th].pc = "check", ![th].snap = p]
    <3> DEFINE j == [job[th] EXCEPT !.pc = "check", !.snap = p]
    <3>1. j.pc = "check" /\ job' = [job EXCEPT ![th] = j]
      BY <1>3, <2>2 DEF Jobs, IInv, JobsOK
    <3> HIDE DEF j
    <3> QED BY <3>1, OneStopsWriting
  <2> QED BY <1>2, <2>1, <2>2 DEF Defer
<1> QED BY <1>1, <1>5, <1>6, NamesApart

\* The files are looked for, and whoever finds them is ready.
LEMMA NamesByCheck ==
    ASSUME IInv, NamesInv, NEW th \in Threads, CheckFiles(th)
    PROVE  NamesInv'
<1> DEFINE s == job[th].snap  r == job[th].run
<1>1. Orderly /\ UNCHANGED <<status, stubs, file>>
  BY AttemptOrderly DEF CheckFiles, folder
<1>2. CASE Defer(th)
  <2>1. SameTimers /\ StillWriting
    BY <1>2, DeferKeepsTimers, DoneStopsWriting DEF Defer
  <2> QED BY <1>1, <2>1, NamesApart
<1>3. CASE FilesExist(s, r) /\ Goto(th, "write") /\ UNCHANGED rows
  <2>1. SameTimers
    BY <1>3 DEF SameTimers
  <2>2. FilesStay /\ \A t \in Timers : Current(t)' = Current(t)
    BY <1>1, <2>1, CurrentSame
  <2>3. r \in Runs /\ Known(r, s) /\ job[th] \in Jobs /\ fired' = fired
    BY <1>1 DEF CheckFiles, Eligible, IInv, JobsOK, Fits, Orderly
  <2>4. \A u \in Threads : /\ job'[u].run = job[u].run
                           /\ job'[u].pc = "write" => u = th \/ job[u].pc = "write"
    <3> DEFINE j == [job[th] EXCEPT !.pc = "write"]
    <3>1. j.run = r /\ job' = [job EXCEPT ![th] = j]
      BY <1>3, <2>3 DEF Jobs, Goto, IInv, JobsOK
    <3> HIDE DEF j
    <3> QED BY <3>1 DEF IInv, JobsOK
  <2>5. ASSUME NEW t \in Timers, r = Current(t)' PROVE t \in status' /\ r \in stubs'
    <3>1. r = Current(t) /\ r # 0
      BY <2>2, <2>3, <2>5 DEF Runs
    <3>2. rows[r].timer = t
      BY <3>1, CurrentIsThere DEF RunsOf
    <3>3. s.timer = t
      BY <2>3, <3>2, TimersAssumption DEF Known
    <3> QED BY <1>1, <1>3, <3>3 DEF FilesExist
  <2>6. GetsReady
    BY <2>4, <2>5 DEF GetsReady
  <2>7. WritesReady
    BY <1>1 DEF WritesReady
  <2> QED BY <1>1, <2>2, <2>3, <2>6, <2>7, NamesStay, OrderlyIInv DEF IInv
<1> QED BY <1>2, <1>3 DEF CheckFiles

LEMMA NamesByWrite ==
    ASSUME IInv, NamesInv, NEW th \in Threads, Write(th)
    PROVE  NamesInv'
<1> DEFINE s == job[th].snap  r == job[th].run
<1>1. Orderly /\ UNCHANGED <<status, stubs>> /\ job[th].pc = "write"
  BY WriteOrderly DEF Write
<1>2. SameTimers /\ StillWriting
  <2>1. CASE Defer(th)
    BY <2>1, DeferKeepsTimers, DoneStopsWriting DEF Defer
  <2>2. CASE MarkObsolete(r) /\ Done(th)
    BY <2>2, StateKeepsTimers, DoneStopsWriting DEF MarkObsolete
  <2>3. CASE UNCHANGED rows /\ Goto(th, "mark")
    BY <2>3, GotoStopsWriting DEF SameTimers
  <2> QED BY <2>1, <2>2, <2>3 DEF Write
<1>3. \A f \in Files : file'[f] \in {file[f], r}
  <2>1. file' = file \/ file' = [file EXCEPT ![s.target] = r]
    BY DEF Write
  <2> HIDE DEF s, r
  <2> QED BY <2>1 DEF IInv, FilesOK
<1>4. WritesReady
  BY <1>1, <1>3 DEF WritesReady
<1>5. GetsReady
  BY <1>2 DEF GetsReady, StillWriting
<1>6. FilesStay
  BY <1>1, <1>2, CurrentSame
<1> QED BY <1>1, <1>4, <1>5, <1>6, NamesStay, OrderlyIInv DEF IInv, Orderly

LEMMA NamesByPump ==
    ASSUME IInv, NamesInv, Pump
    PROVE  NamesInv'
<1>0. "pump" \in Threads
  BY DEF Threads
<1>1. Orderly /\ UNCHANGED <<status, stubs, file>>
  BY PumpOrderly DEF Pump, PumpStart, SweepStart, Sweep, folder
<1>2. SameTimers
  BY StateKeepsTimers DEF Pump, PumpStart, SweepStart, Sweep, durable, SameTimers, MarkObsolete, Requeue
<1>3. StillWriting
  <2>1. ASSUME NEW j, j \in Jobs, job' = [job EXCEPT !["pump"] = Load(j)] PROVE StillWriting
    <3>1. Load(j).pc # "write"
      BY <2>1 DEF Load, Jobs
    <3> QED BY <1>0, <2>1, <3>1, OneStopsWriting
  <2>2. Idle \in Jobs /\ Idle.pc = "idle"
    BY IdleFits DEF Idle
  <2>3. CASE PumpStart
    <3> DEFINE due == Oldest({r \in Runs : rows[r].state = "pending"} \ waiting)
               j == [Idle EXCEPT !.todo = Snapshots(due)]
    <3>1. due \in SUBSET Runs
      BY DEF Oldest
    <3>2. \/ job' = [job EXCEPT !["pump"] = [j EXCEPT !.pc = "next"]]
          \/ job' = [job EXCEPT !["pump"] = Load(j)]
      BY <2>3 DEF PumpStart
    <3> HIDE DEF due
    <3>3. j \in Jobs
      BY <2>2, <3>1, ListIsTasks DEF Jobs
    <3> HIDE DEF j
    <3>4. [j EXCEPT !.pc = "next"].pc = "next"
      BY <3>3 DEF Jobs
    <3> QED BY <1>0, <2>1, <3>2, <3>3, <3>4, OneStopsWriting
  <2>4. CASE SweepStart
    <3> DEFINE alive == Oldest({r \in Runs : IsLive(r)})
               j == [Idle EXCEPT !.sweeps = TRUE, !.todo = Snapshots(alive)]
    <3>1. alive \in SUBSET Runs
      BY DEF Oldest
    <3>2. \/ job' = [job EXCEPT !["pump"] = Idle]
          \/ job' = [job EXCEPT !["pump"] = Load(j)]
      BY <2>4 DEF SweepStart
    <3> HIDE DEF alive
    <3>3. j \in Jobs
      BY <2>2, <3>1, ListIsTasks DEF Jobs
    <3> HIDE DEF j
    <3> QED BY <1>0, <2>1, <2>2, <3>2, <3>3, OneStopsWriting
  <2>5. CASE Sweep
    BY <1>0, <2>5, DoneStopsWriting, GotoStopsWriting DEF Sweep
  <2> QED BY <2>3, <2>4, <2>5 DEF Pump
<1> QED BY <1>1, <1>2, <1>3, NamesApart

LEMMA NamesByReconcile ==
    ASSUME IInv, NamesInv, NEW t \in Timers, Reconcile(t)
    PROVE  NamesInv'
<1>0. "other" \in Threads
  BY DEF Threads
<1>1. Orderly /\ status \subseteq status' /\ stubs \subseteq stubs' /\ UNCHANGED file
  BY ReconcileOrderly DEF Reconcile
<1>2. SameTimers
  BY StateKeepsTimers DEF Reconcile, SameTimers, Requeue
<1>3. StillWriting
  BY <1>0, BeginStopsWriting DEF Reconcile, StillWriting
<1> QED BY <1>1, <1>2, <1>3, NamesApart

\* A fire makes a run current that no file and no thread names yet.
LEMMA NamesByFire ==
    ASSUME IInv, NamesInv, NEW t \in Timers, NEW reach \in BOOLEAN, NEW io \in BOOLEAN, Fire(t, reach, io)
    PROVE  NamesInv'
<1> DEFINE n == fired + 1  p == NewProjection(t, n, Select(t, reach))
<1>0. "other" \in Threads
  BY DEF Threads
<1>1. n \in Runs /\ fired \in Nat /\ n \in Nat /\ fired' = n
  BY LimitsAssumption DEF Fire, IInv, Runs
<1>2. /\ rows' = [rows EXCEPT ![n] = p] /\ file' = file
      /\ job' = [job EXCEPT !["other"] = [Idle EXCEPT !.pc = "check", !.run = n, !.snap = p]]
      /\ status \subseteq status' /\ stubs \ RunsOf(t) \subseteq stubs'
  BY DEF Fire
<1>3. p.timer = t
  BY DEF NewProjection
<1> HIDE DEF p
<1>4. \A r \in Runs : rows'[r] = IF r = n THEN p ELSE rows[r]
  BY <1>1, <1>2 DEF IInv, RowsOK
<1>5. rows[n].timer = 0
  BY <1>1 DEF IInv, Numbered
<1>6. IInv'
  BY FireIInv
<1>7. FilesStay
  <2> SUFFICES ASSUME NEW u \in Timers
               PROVE  \/ Current(u)' = 0
                      \/ Current(u)' > fired
                      \/ /\ Current(u)' = Current(u) /\ (u \in status => u \in status')
                         /\ Current(u) \in stubs => Current(u) \in stubs'
    BY DEF FilesStay
  <2>1. CASE u = t
    <3>1. n \in RunsOf(t)'
      BY <1>1, <1>3, <1>4 DEF RunsOf
    <3>2. RunsOf(t)' \subseteq Nat /\ RunsOf(t)' # {} /\ \A q \in RunsOf(t)' : q <= MaxRuns
      BY <3>1 DEF RunsOf, Runs
    <3>3. Max(RunsOf(t)') \in RunsOf(t)' /\ n <= Max(RunsOf(t)')
      BY <3>1, <3>2, LargestMember, LimitsAssumption
    <3>4. Current(t)' = Max(RunsOf(t)')
      BY <3>2 DEF Current
    <3>5. Current(t)' > fired
      BY <1>1, <3>2, <3>3, <3>4
    <3> QED BY <2>1, <3>5
  <2>2. CASE u # t
    <3>1. RunsOf(u)' = RunsOf(u)
      BY <1>3, <1>4, <1>5, <2>2, TimersAssumption DEF RunsOf
    <3>2. Current(u)' = Current(u)
      BY <3>1 DEF Current
    <3>3. CASE Current(u) # 0
      <4>1. Current(u) \notin RunsOf(t)
        BY <2>2, <3>3, CurrentIsThere DEF RunsOf
      <4> QED BY <1>2, <3>2, <4>1
    <3> QED BY <3>2, <3>3
  <2> QED BY <2>1, <2>2
<1>8. WritesReady
  BY <1>2 DEF WritesReady
<1>9. GetsReady
  <2> DEFINE j == [Idle EXCEPT !.pc = "check", !.run = n, !.snap = p]
  <2>1. j.pc = "check" /\ job' = [job EXCEPT !["other"] = j]
    BY <1>2 DEF Idle
  <2> HIDE DEF j
  <2>2. StillWriting
    BY <1>0, <2>1, OneStopsWriting
  <2> QED BY <2>2 DEF GetsReady, StillWriting
<1> QED BY <1>1, <1>6, <1>7, <1>8, <1>9, NamesStay

LEMMA NamesByDelete ==
    ASSUME IInv, NamesInv, NEW t \in Timers, Delete(t)
    PROVE  NamesInv'
<1>1. Orderly
  BY DeleteOrderly
<1>2. /\ rows' = [r \in Runs |-> IF rows[r].timer = t THEN NoRow ELSE rows[r]]
      /\ status' = status \ {t} /\ stubs' = stubs \ RunsOf(t) /\ UNCHANGED <<file, job>>
  BY DEF Delete
<1>3. NoRow.timer = 0
  BY DEF NoRow
<1>4. FilesStay
  <2> SUFFICES ASSUME NEW u \in Timers
               PROVE  \/ Current(u)' = 0
                      \/ /\ Current(u)' = Current(u) /\ (u \in status => u \in status')
                         /\ Current(u) \in stubs => Current(u) \in stubs'
    BY DEF FilesStay
  <2>1. CASE u = t
    <3>1. RunsOf(u)' = {}
      BY <1>2, <1>3, <2>1, TimersAssumption DEF RunsOf
    <3> QED BY <3>1 DEF Current
  <2>2. CASE u # t
    <3>1. RunsOf(u)' = RunsOf(u)
      BY <1>2, <1>3, <2>2, TimersAssumption DEF RunsOf
    <3>2. Current(u)' = Current(u)
      BY <3>1 DEF Current
    <3>3. CASE Current(u) # 0
      <4>1. Current(u) \notin RunsOf(t)
        BY <2>2, <3>3, CurrentIsThere DEF RunsOf
      <4> QED BY <1>2, <2>2, <3>2, <4>1
    <3>4. CASE Current(u) = 0
      BY <3>2, <3>4
    <3> QED BY <3>3, <3>4
  <2> QED BY <2>1, <2>2
<1>5. WritesReady /\ GetsReady
  BY <1>2 DEF WritesReady, GetsReady
<1> QED BY <1>1, <1>4, <1>5, NamesStay, OrderlyIInv DEF IInv, Orderly

LEMMA NamesInit == Init => NamesInv
<1> SUFFICES ASSUME Init PROVE NamesInv
  OBVIOUS
<1>1. Idle.pc = "idle"
  BY DEF Idle
<1> QED BY <1>1 DEF Init, NamesInv, Written, Ready, NamesItsFiles

LEMMA NamesNext ==
    ASSUME IInv, NamesInv, [Next]_vars
    PROVE  NamesInv'
<1>1. ASSUME NEW th \in Threads, Step(th) PROVE NamesInv'
  BY <1>1, NamesByAttempt, NamesByFallback, NamesByCheck, NamesByWrite DEF Step
<1>2. ASSUME NEW f \in Files, Consume(f) PROVE NamesInv'
  <2>1. UNCHANGED <<fired, rows, job, status, stubs>> /\ file' = [file EXCEPT ![f] = 0]
    BY <1>2 DEF Consume, durable
  <2>2. file' \in [Files -> 0..MaxRuns] /\ \A g \in Files : file'[g] \in {file[g], 0}
    BY <2>1, LimitsAssumption DEF IInv, FilesOK
  <2>3. FilesKept
    BY <2>2, RemoveOrderly
  <2>4. Orderly
    BY <2>1, <2>3, RowsSame, JobsSame DEF Orderly
  <2> QED BY <2>1, <2>2, <2>4, NamesApart DEF SameTimers, StillWriting
<1>3. ASSUME Crash PROVE NamesInv'
  <2>1. UNCHANGED <<fired, rows, file, status, stubs>> /\ job' = [th \in Threads |-> Idle]
    BY <1>3 DEF Crash, durable, folder
  <2>2. JobsKept /\ StillWriting
    BY <2>1, IdleFits DEF JobsKept, StillWriting, Idle
  <2>3. Orderly
    BY <2>1, <2>2, RowsSame, FilesSame DEF Orderly
  <2> QED BY <2>1, <2>2, <2>3, NamesApart DEF SameTimers
<1>4. ASSUME \/ \E r \in Runs : Elapse(r) \/ Answer(r) \/ Acknowledge(r) \/ GiveUp(r)
             \/ \E c \in Conns, t \in Timers : Connect(c, t)
             \/ \E c \in Conns : Drain(c) \/ WriterFails(c) \/ Unregister(c)
             \/ Serve \/ UNCHANGED vars
      PROVE  NamesInv'
  <2>1. UNCHANGED <<fired, rows, file, job, status, stubs>>
    BY <1>4 DEF Elapse, Answer, Acknowledge, GiveUp, Connect, Drain, WriterFails, Unregister,
                Serve, vars, durable, folder
  <2> QED BY <2>1, Apart, NamesApart DEF SameTimers, StillWriting
<1> QED BY <1>1, <1>2, <1>3, <1>4, NamesByPump, NamesByReconcile, NamesByFire, NamesByDelete DEF Next

\* A notification that names a timer's current run lies beside a status.json and the stub
\* of the reply, whatever fires, deletions, fallbacks and reconciliations came between the
\* look for these files and the write (attempt_file, ipc_fallback, delete_timer_lifecycle).
THEOREM NotificationsNameFiles == Spec => []NamesItsFiles
<1>1. Init => IInv /\ NamesInv
  BY InitIInv, NamesInit
<1>2. IInv /\ NamesInv /\ [Next]_vars => IInv' /\ NamesInv'
  BY NextIInv, NamesNext
<1>3. NamesInv => NamesItsFiles
  BY DEF NamesInv
<1> QED BY <1>1, <1>2, <1>3, PTL DEF Spec

-----------------------------------------------------------------------------
(* The calendar *)

\* A run's events and its claim name its timer and its slot.
Identified ==
    /\ \A e \in History \cup Ledger : e.at \in Int
    /\ \A e, f \in History \cup Ledger : e.run = f.run /\ e.run # NoRun => Slot(e) = Slot(f)

\* Timers in a list, each with its own id.
Distinct(list) ==
    /\ \E S : list \in Seq(S)
    /\ \A i, j \in DOMAIN list : list[i].id = list[j].id => i = j
Unborn(list) == \A i \in DOMAIN list : list[i].id # "new"
OwnIds ==
    /\ \A list \in TaskLists : Distinct(list)
    /\ \A list \in EditCases.tasks : Distinct(list) /\ Unborn(list) /\ list # <<>>

\* What lies between the midnights of the range bears its dates: clocks are not put back over one.
DatesInOrder ==
    ~Rejected => \A u \in Int : RangeStart <= u /\ u < RangeEnd => DateOf(request.zone, u) \in From..To

\* The buckets, when the events E and the claims C are merged: one for each timer and instant.
Sorted(E, C) ==
    /\ \A k \in DOMAIN buckets :
        /\ DOMAIN buckets[k] = {"timer", "run", "at", "kinds"}
        /\ \E e \in E \cup C : k \in {<<"run", e.run>>, <<"slot", Slot(e)>>} /\ Slot(buckets[k]) = Slot(e)
        /\ buckets[k].kinds = {e.kind : e \in {f \in E : Slot(f) = Slot(buckets[k])}}
        /\ Slot(buckets[k]) \in DOMAIN bySec /\ bySec[Slot(buckets[k])] = k
    /\ \A r \in DOMAIN byRun \ {NoRun} :
        /\ byRun[r] \in DOMAIN buckets
        /\ \A e \in History \cup Ledger : e.run = r => Slot(e) = Slot(buckets[byRun[r]])
    /\ \A s \in DOMAIN bySec : bySec[s] \in DOMAIN buckets /\ Slot(buckets[bySec[s]]) = s
    /\ \A e \in E \cup C : Slot(e) \in DOMAIN bySec

TakenEvents == {e \in input.history \ unread : Relevant(e) /\ e.kind \in OutcomeEvents}
AllEvents == {e \in input.history : Relevant(e) /\ e.kind \in OutcomeEvents}
TakenClaims == {c \in input.ledger \ unread : c.outcome = "WakeDelivered" /\ Relevant(c)}

\* What is shown, once the records are entered.
Honest ==
    /\ \A x, y \in entries : x.timer = y.timer /\ x.at = y.at => x = y
    /\ \A x \in Recorded :
        /\ x.label = "failed" <=> \E e \in Evidence(x.timer, x.at) : e.kind \in {"WakeFailed", "NoAck"}
        /\ x.label = "unknown" <=> Evidence(x.timer, x.at) = {}
    /\ \A e \in Outcomes \cup Delivered : Relevant(e) => \E x \in Recorded : x.timer = e.timer /\ x.at = e.at

Input ==
    /\ input.history \subseteq History /\ input.ledger \subseteq Ledger
    /\ Truth \/ (input.history = {} /\ input.ledger = {})
    /\ DatesInOrder
Listed ==
    /\ Distinct(tasks) /\ \A i \in DOMAIN tasks : "id" \in DOMAIN tasks[i]
    /\ at = "edit" => Unborn(tasks) /\ tasks # <<>>
Merging ==
    /\ at \in {"edit", "start", "events", "claims"} => entries = {}
    /\ at \in {"edit", "start"} => buckets = <<>> /\ byRun = <<>> /\ bySec = <<>>
    /\ at \in {"events", "claims", "project", "done"} => ~Rejected
    /\ at = "events" => unread \subseteq input.history /\ Sorted(TakenEvents, {})
    /\ at = "claims" => unread \subseteq input.ledger /\ Sorted(AllEvents, TakenClaims)
Projecting ==
    /\ at \in {"project", "done"} => Honest
    /\ \A x \in entries : x.source \in {"recorded", "projected"}
    /\ at = "project" => /\ Distinct(todo)
                         /\ \A x \in entries : x.source = "projected" => \A i \in DOMAIN todo : todo[i].id # x.timer
HistoryInv == Input /\ Listed /\ Merging /\ Projecting

-----------------------------------------------------------------------------
LEMMA MinOfOne == ASSUME NEW x \in Int PROVE Min({x, x}) = x
<1>1. \A y \in {x, x} : y = x
  OBVIOUS
<1> QED BY <1>1 DEF Min

LEMMA LabelTells ==
    ASSUME NEW kinds, kinds \subseteq OutcomeEvents
    PROVE  /\ LabelOf(kinds) = "failed" <=> \E k \in kinds : k \in {"WakeFailed", "NoAck"}
           /\ LabelOf(kinds) = "unknown" <=> kinds = {}
<1> DEFINE S == {i \in DOMAIN Labels : Labels[i].of \cap kinds # {}}
<1>1. /\ DOMAIN Labels = 1..5
      /\ Labels[1].of = {"WakeFailed", "NoAck"} /\ Labels[1].is = "failed"
      /\ \A i \in 2..5 : Labels[i].is \notin {"failed", "unknown"}
  BY DEF Labels
<1>2. CASE kinds = {}
  BY <1>2 DEF LabelOf
<1>3. CASE kinds # {}
  <2>1. PICK k \in kinds : TRUE
    BY <1>3
  <2>2. PICK l \in Range(Labels) : k \in l.of
    BY DEF OutcomeEvents
  <2>3. S # {} /\ S \subseteq 1..5
    BY <1>1, <2>2 DEF Range
  <2>4. \E i \in S : \A j \in S : i <= j
    <3> HIDE DEF S
    <3>1. CASE 1 \in S
      BY <2>3, <3>1
    <3>2. CASE 1 \notin S /\ 2 \in S
      BY <2>3, <3>2
    <3>3. CASE 1 \notin S /\ 2 \notin S /\ 3 \in S
      BY <2>3, <3>3
    <3>4. CASE 1 \notin S /\ 2 \notin S /\ 3 \notin S /\ 4 \in S
      BY <2>3, <3>4
    <3>5. CASE S = {5}
      BY <3>5
    <3>6. S \subseteq {1, 2, 3, 4, 5}
      BY <2>3
    <3> QED BY <2>3, <3>1, <3>2, <3>3, <3>4, <3>5, <3>6
  <2>5. Min(S) \in S /\ \A j \in S : Min(S) <= j
    BY <2>4 DEF Min
  <2>6. LabelOf(kinds) = Labels[Min(S)].is
    BY <1>3 DEF LabelOf
  <2>7. 1 \in S <=> \E x \in kinds : x \in {"WakeFailed", "NoAck"}
    <3>1. 1 \in S <=> Labels[1].of \cap kinds # {}
      BY <1>1
    <3> QED BY <1>1, <3>1
  <2> HIDE DEF S
  <2>8. Min(S) \in 1..5 /\ (1 \in S <=> Min(S) = 1)
    <3>1. PICK m : m = Min(S)
      OBVIOUS
    <3>2. m \in 1..5 /\ m \in S /\ \A j \in S : m <= j
      BY <2>3, <2>5, <3>1
    <3>3. 1 \in S => m = 1
      BY <3>2
    <3> QED BY <3>1, <3>2, <3>3
  <2> QED BY <1>1, <1>3, <2>6, <2>7, <2>8
<1> QED BY <1>2, <1>3

-----------------------------------------------------------------------------
(* The merge *)

\* A bucket that evidence finds is the one of its timer and instant; where it finds none, there is none.
LEMMA FindsItsFire ==
    ASSUME Identified, NEW E, NEW C, E \subseteq History, C \subseteq Ledger, Sorted(E, C),
           NEW e \in History \cup Ledger
    PROVE  /\ Bucket(e) \in DOMAIN buckets =>
                  /\ Slot(buckets[Bucket(e)]) = Slot(e)
                  /\ Slot(e) \in DOMAIN bySec /\ bySec[Slot(e)] = Bucket(e)
           /\ Bucket(e) \notin DOMAIN buckets =>
                  /\ Slot(e) \notin DOMAIN bySec
                  /\ Bucket(e) \in {<<"run", e.run>>, <<"slot", Slot(e)>>}
<1>1. CASE e.run # NoRun /\ e.run \in DOMAIN byRun
  <2>1. Bucket(e) = byRun[e.run]
    BY <1>1 DEF Bucket
  <2>2. byRun[e.run] \in DOMAIN buckets /\ Slot(e) = Slot(buckets[byRun[e.run]])
    BY <1>1 DEF Sorted
  <2>3. Slot(buckets[byRun[e.run]]) \in DOMAIN bySec /\ bySec[Slot(buckets[byRun[e.run]])] = byRun[e.run]
    BY <2>2 DEF Sorted
  <2> QED BY <2>1, <2>2, <2>3
<1>2. CASE ~(e.run # NoRun /\ e.run \in DOMAIN byRun) /\ Slot(e) \in DOMAIN bySec
  <2>1. Bucket(e) = bySec[Slot(e)]
    BY <1>2 DEF Bucket
  <2> QED BY <1>2, <2>1 DEF Sorted
<1>3. CASE ~(e.run # NoRun /\ e.run \in DOMAIN byRun) /\ Slot(e) \notin DOMAIN bySec
  <2>1. Bucket(e) = IF e.run # NoRun THEN <<"run", e.run>> ELSE <<"slot", Slot(e)>>
    BY <1>3 DEF Bucket
  <2>2. ASSUME Bucket(e) \in DOMAIN buckets PROVE FALSE
    <3>1. PICK f \in E \cup C : /\ Bucket(e) \in {<<"run", f.run>>, <<"slot", Slot(f)>>}
                                /\ Slot(buckets[Bucket(e)]) = Slot(f)
      BY <2>2 DEF Sorted
    <3>2. f \in History \cup Ledger
      OBVIOUS
    <3>3. Slot(f) = Slot(e)
      <4>1. CASE e.run # NoRun
        <5>1. Bucket(e) = <<"run", e.run>>
          BY <2>1, <4>1
        <5>2. "run" # "slot"
          OBVIOUS
        <5>3. f.run = e.run
          BY <3>1, <5>1, <5>2
        <5> QED BY <3>2, <4>1, <5>3 DEF Identified
      <4>2. CASE e.run = NoRun
        <5>1. Bucket(e) = <<"slot", Slot(e)>>
          BY <2>1, <4>2
        <5>2. "run" # "slot"
          OBVIOUS
        <5> QED BY <3>1, <5>1, <5>2
      <4> QED BY <4>1, <4>2
    <3>4. Slot(e) \in DOMAIN bySec
      BY <2>2, <3>1, <3>3 DEF Sorted
    <3> QED BY <1>3, <3>4
  <2> QED BY <1>3, <2>1, <2>2
<1> QED BY <1>1, <1>2, <1>3

\* What becomes of a bucket.
LEMMA MergedSlot ==
    ASSUME Identified, NEW E, NEW C, E \subseteq History, C \subseteq Ledger, Sorted(E, C),
           NEW e \in History \cup Ledger, NEW kinds, NEW m, m = Merged(Bucket(e), e, kinds)
    PROVE  /\ DOMAIN m = {"timer", "run", "at", "kinds"} /\ Slot(m) = Slot(e)
           /\ m.kinds = kinds \cup (IF Bucket(e) \in DOMAIN buckets THEN buckets[Bucket(e)].kinds ELSE {})
<1> DEFINE b == Bucket(e)
<1>1. CASE b \notin DOMAIN buckets
  <2>1. m = [timer |-> e.timer, run |-> e.run, at |-> e.at, kinds |-> kinds]
    BY <1>1 DEF Merged
  <2> QED BY <1>1, <2>1 DEF Slot
<1>2. CASE b \in DOMAIN buckets
  <2>1. /\ DOMAIN buckets[b] = {"timer", "run", "at", "kinds"}
        /\ Slot(buckets[b]) = Slot(e)
    BY <1>2, FindsItsFire DEF Sorted
  <2>2. buckets[b].timer = e.timer /\ buckets[b].at = e.at
    BY <2>1 DEF Slot
  <2>3. Min({buckets[b].at, e.at}) = e.at
    BY <2>2, MinOfOne DEF Identified
  <2>4. m = [buckets[b] EXCEPT !.run = IF @ = NoRun THEN e.run ELSE @,
                               !.at = IF kinds = {} THEN @ ELSE Min({@, e.at}), !.kinds = @ \cup kinds]
    BY <1>2 DEF Merged
  <2> HIDE DEF b
  <2>5. DOMAIN m = {"timer", "run", "at", "kinds"} /\ m.timer = buckets[b].timer
        /\ m.at = (IF kinds = {} THEN buckets[b].at ELSE Min({buckets[b].at, e.at}))
        /\ m.kinds = buckets[b].kinds \cup kinds
    BY <2>1, <2>4
  <2>6. m.timer = e.timer /\ m.at = e.at
    BY <2>2, <2>3, <2>5
  <2> QED BY <1>2, <2>5, <2>6 DEF b, Slot
<1> QED BY <1>1, <1>2

\* One more event, or one more claim.
LEMMA MergeSorts ==
    ASSUME Identified, NEW E, NEW C, E \subseteq History, C \subseteq Ledger, Sorted(E, C),
           NEW e, NEW kinds, NEW F, NEW D,
           \/ e \in History /\ kinds = {e.kind} /\ F = E \cup {e} /\ D = C
           \/ e \in Ledger /\ kinds = {} /\ F = E /\ D = C \cup {e},
           buckets' = Put(buckets, Bucket(e), Merged(Bucket(e), e, kinds)),
           bySec' = Put(bySec, Slot(e), Bucket(e)),
           byRun' = byRun \/ byRun' = Put(byRun, e.run, Bucket(e))
    PROVE  Sorted(F, D)'
<1>1. PICK b : b = Bucket(e)
  OBVIOUS
<1>2. PICK m : m = Merged(b, e, kinds)
  OBVIOUS
<1>3. PICK s : s = Slot(e)
  OBVIOUS
<1>4. e \in History \cup Ledger
  OBVIOUS
<1>5. /\ b \in DOMAIN buckets => Slot(buckets[b]) = s /\ s \in DOMAIN bySec /\ bySec[s] = b
      /\ b \notin DOMAIN buckets => s \notin DOMAIN bySec /\ b \in {<<"run", e.run>>, <<"slot", s>>}
  BY <1>1, <1>3, <1>4, FindsItsFire
<1>6. /\ DOMAIN m = {"timer", "run", "at", "kinds"} /\ Slot(m) = s
      /\ m.kinds = kinds \cup (IF b \in DOMAIN buckets THEN buckets[b].kinds ELSE {})
  BY <1>1, <1>2, <1>3, <1>4, MergedSlot
<1>7. /\ DOMAIN buckets' = DOMAIN buckets \cup {b} /\ buckets'[b] = m
      /\ \A k \in DOMAIN buckets : k # b => buckets'[k] = buckets[k]
  BY <1>1, <1>2 DEF Put
<1>8. /\ DOMAIN bySec' = DOMAIN bySec \cup {s} /\ bySec'[s] = b
      /\ \A x \in DOMAIN bySec : x # s => bySec'[x] = bySec[x]
  BY <1>1, <1>3 DEF Put
<1>9. /\ DOMAIN byRun' \subseteq DOMAIN byRun \cup {e.run}
      /\ \A r \in DOMAIN byRun' : (byRun'[r] = byRun[r] /\ r \in DOMAIN byRun) \/ (byRun'[r] = b /\ r = e.run)
  <2>1. CASE byRun' = byRun
    BY <2>1
  <2>2. CASE byRun' = Put(byRun, e.run, b)
    BY <2>2 DEF Put
  <2> QED BY <1>1, <2>1, <2>2
<1>10. \A k \in DOMAIN buckets : k # b => Slot(buckets[k]) # s
  <2> SUFFICES ASSUME NEW k \in DOMAIN buckets, k # b, Slot(buckets[k]) = s PROVE FALSE
    OBVIOUS
  <2>1. s \in DOMAIN bySec /\ bySec[s] = k
    BY DEF Sorted
  <2> QED BY <1>5, <2>1
<1>11. F \cup D = E \cup C \cup {e}
  OBVIOUS
<1>12. ASSUME NEW k \in DOMAIN buckets'
       PROVE  /\ DOMAIN buckets'[k] = {"timer", "run", "at", "kinds"}
              /\ \E f \in F \cup D : k \in {<<"run", f.run>>, <<"slot", Slot(f)>>} /\ Slot(buckets'[k]) = Slot(f)
              /\ buckets'[k].kinds = {f.kind : f \in {x \in F : Slot(x) = Slot(buckets'[k])}}
              /\ Slot(buckets'[k]) \in DOMAIN bySec' /\ bySec'[Slot(buckets'[k])] = k
  <2>1. CASE k = b
    <3>1. \E f \in F \cup D : k \in {<<"run", f.run>>, <<"slot", Slot(f)>>} /\ Slot(m) = Slot(f)
      <4>1. CASE b \in DOMAIN buckets
        <5>1. PICK f \in E \cup C : b \in {<<"run", f.run>>, <<"slot", Slot(f)>>} /\ Slot(buckets[b]) = Slot(f)
          BY <4>1 DEF Sorted
        <5> QED BY <1>5, <1>6, <1>11, <2>1, <4>1, <5>1
      <4>2. CASE b \notin DOMAIN buckets
        BY <1>3, <1>5, <1>6, <1>11, <2>1, <4>2
      <4> QED BY <4>1, <4>2
    <3>2. IF b \in DOMAIN buckets THEN buckets[b].kinds = {f.kind : f \in {x \in E : Slot(x) = s}}
          ELSE {x \in E : Slot(x) = s} = {}
      <4>1. CASE b \in DOMAIN buckets
        BY <1>5, <4>1 DEF Sorted
      <4>2. CASE b \notin DOMAIN buckets
        <5>1. s \notin DOMAIN bySec
          BY <1>5, <4>2
        <5>2. \A x \in E : Slot(x) \in DOMAIN bySec
          BY DEF Sorted
        <5> QED BY <4>2, <5>1, <5>2
      <4> QED BY <4>1, <4>2
    <3>3. m.kinds = {f.kind : f \in {x \in F : Slot(x) = s}}
      <4>1. m.kinds = kinds \cup {f.kind : f \in {x \in E : Slot(x) = s}}
        BY <1>6, <3>2
      <4>2. \/ kinds = {e.kind} /\ F = E \cup {e}
            \/ kinds = {} /\ F = E
        OBVIOUS
      <4> QED BY <1>3, <4>1, <4>2
    <3> QED BY <1>6, <1>7, <1>8, <2>1, <3>1, <3>3
  <2>2. CASE k # b
    <3>1. k \in DOMAIN buckets /\ buckets'[k] = buckets[k]
      BY <1>7, <2>2
    <3>2. Slot(buckets[k]) # s
      BY <1>10, <2>2, <3>1
    <3>3. {x \in F : Slot(x) = Slot(buckets[k])} = {x \in E : Slot(x) = Slot(buckets[k])}
      BY <1>3, <3>2
    <3>4. /\ DOMAIN buckets[k] = {"timer", "run", "at", "kinds"}
          /\ \E f \in E \cup C : k \in {<<"run", f.run>>, <<"slot", Slot(f)>>} /\ Slot(buckets[k]) = Slot(f)
          /\ buckets[k].kinds = {f.kind : f \in {x \in E : Slot(x) = Slot(buckets[k])}}
          /\ Slot(buckets[k]) \in DOMAIN bySec /\ bySec[Slot(buckets[k])] = k
      BY <3>1 DEF Sorted
    <3>5. \E f \in F \cup D : k \in {<<"run", f.run>>, <<"slot", Slot(f)>>} /\ Slot(buckets[k]) = Slot(f)
      BY <1>11, <3>4
    <3>6. bySec'[Slot(buckets[k])] = k
      BY <1>8, <3>2, <3>4
    <3> QED BY <1>8, <3>1, <3>3, <3>4, <3>5, <3>6
  <2> QED BY <2>1, <2>2
<1>13. ASSUME NEW r \in DOMAIN byRun' \ {NoRun}
       PROVE  /\ byRun'[r] \in DOMAIN buckets'
              /\ \A f \in History \cup Ledger : f.run = r => Slot(f) = Slot(buckets'[byRun'[r]])
  <2>1. CASE byRun'[r] = b /\ r = e.run
    <3>1. \A f \in History \cup Ledger : f.run = r => Slot(f) = s
      BY <1>3, <1>4, <2>1 DEF Identified
    <3> QED BY <1>6, <1>7, <2>1, <3>1
  <2>2. CASE byRun'[r] = byRun[r] /\ r \in DOMAIN byRun
    <3>1. /\ byRun[r] \in DOMAIN buckets
          /\ \A f \in History \cup Ledger : f.run = r => Slot(f) = Slot(buckets[byRun[r]])
      BY <2>2 DEF Sorted
    <3>2. Slot(buckets'[byRun[r]]) = Slot(buckets[byRun[r]])
      BY <1>5, <1>6, <1>7, <3>1
    <3> QED BY <1>7, <2>2, <3>1, <3>2
  <2> QED BY <1>9, <2>1, <2>2
<1>14. ASSUME NEW x \in DOMAIN bySec'
       PROVE  bySec'[x] \in DOMAIN buckets' /\ Slot(buckets'[bySec'[x]]) = x
  <2>1. CASE x = s
    BY <1>6, <1>7, <1>8, <2>1
  <2>2. CASE x # s
    <3>1. x \in DOMAIN bySec /\ bySec'[x] = bySec[x]
      BY <1>8, <2>2
    <3>2. bySec[x] \in DOMAIN buckets /\ Slot(buckets[bySec[x]]) = x
      BY <3>1 DEF Sorted
    <3>3. bySec[x] # b
      BY <1>5, <2>2, <3>2
    <3> QED BY <1>7, <3>1, <3>2, <3>3
  <2> QED BY <2>1, <2>2
<1>15. \A f \in F \cup D : Slot(f) \in DOMAIN bySec'
  BY <1>3, <1>8, <1>11 DEF Sorted
<1>16. \A f : Slot(f)' = Slot(f)
  BY DEF Slot
<1> QED BY <1>12, <1>13, <1>14, <1>15 DEF Sorted, Slot

-----------------------------------------------------------------------------
(* The steps of the builder *)

\* A view does not change what was asked for.
LEMMA InputStays == ASSUME Input, input' = input PROVE Input'
<1>1. From' = From /\ To' = To /\ Rejected' = Rejected /\ RangeStart' = RangeStart /\ RangeEnd' = RangeEnd
      /\ request' = request /\ Truth' = Truth
  BY DEF From, To, Rejected, RangeStart, RangeEnd, ResolveRange, ResolveMonth, ThisMonth, Today, ResolveDay,
         Midnight, request, Truth
<1>2. DatesInOrder'
  BY <1>1 DEF Input, DatesInOrder
<1> QED BY <1>1, <1>2 DEF Input

\* Which evidence counts does not change either.
LEMMA RelevantStays == ASSUME input' = input, NEW e PROVE Relevant(e)' = Relevant(e)
BY DEF Relevant, RangeStart, RangeEnd, From, To, ResolveRange, ResolveMonth, ThisMonth, Today, ResolveDay,
       Midnight, request

LEMMA RejectedStays == ASSUME input' = input PROVE Rejected' = Rejected
BY DEF From, To, Rejected, RangeStart, RangeEnd, ResolveRange, ResolveMonth, ThisMonth, Today, ResolveDay,
       Midnight, request

LEMMA EmptyIsSorted ==
    ASSUME buckets = <<>>, byRun = <<>>, bySec = <<>>
    PROVE  Sorted({}, {})
BY DEF Sorted

LEMMA TakeEventKeeps ==
    ASSUME Identified, HistoryInv, NEW e \in unread, TakeEvent(e)
    PROVE  HistoryInv'
<1>1. at = "events" /\ at' = "events" /\ unread' = unread \ {e} /\ UNCHANGED <<input, tasks, entries, todo>>
  BY DEF TakeEvent, store
<1>2. Input'
  BY <1>1, InputStays DEF HistoryInv
<1>3. e \in input.history /\ input.history \subseteq History /\ unread \subseteq input.history
  BY <1>1 DEF HistoryInv, Merging, Input
<1>4. PICK E : E = TakenEvents
  OBVIOUS
<1>5. PICK F : F = TakenEvents'
  OBVIOUS
<1>6. E \subseteq History /\ Sorted(E, {})
  BY <1>1, <1>3, <1>4 DEF HistoryInv, Merging, TakenEvents
<1>7. F = IF Relevant(e) /\ e.kind \in OutcomeEvents THEN E \cup {e} ELSE E
  <2>1. F = {x \in input.history \ (unread \ {e}) : Relevant(x) /\ x.kind \in OutcomeEvents}
    BY <1>1, <1>5, RelevantStays DEF TakenEvents
  <2> QED BY <1>3, <1>4, <2>1 DEF TakenEvents
<1>8. Sorted(F, {})'
  <2>1. CASE Relevant(e) /\ e.kind \in OutcomeEvents
    <3>1. /\ buckets' = Put(buckets, Bucket(e), Merged(Bucket(e), e, {e.kind}))
          /\ bySec' = Put(bySec, Slot(e), Bucket(e))
          /\ byRun' = byRun \/ byRun' = Put(byRun, e.run, Bucket(e))
      BY <2>1 DEF TakeEvent
    <3>2. e \in History /\ F = E \cup {e} /\ {} \subseteq Ledger
      BY <1>3, <1>7, <2>1
    <3> QED BY <1>6, <3>1, <3>2, MergeSorts
  <2>2. CASE ~(Relevant(e) /\ e.kind \in OutcomeEvents)
    <3>1. UNCHANGED <<buckets, byRun, bySec>> /\ F = E
      BY <1>7, <2>2 DEF TakeEvent
    <3> QED BY <1>6, <3>1 DEF Sorted, Slot
  <2> QED BY <2>1, <2>2
<1>9. Sorted(TakenEvents, {})'
  BY <1>5, <1>8 DEF Sorted
<1>10. unread' \subseteq input'.history /\ entries' = {} /\ ~Rejected'
  BY <1>1, <1>3, RejectedStays DEF HistoryInv, Merging
<1>11. Merging'
  BY <1>1, <1>9, <1>10 DEF Merging
<1>12. Listed' /\ Projecting'
  BY <1>1 DEF HistoryInv, Listed, Projecting, Distinct
<1> QED BY <1>2, <1>11, <1>12 DEF HistoryInv

LEMMA EventsReadKeeps ==
    ASSUME Identified, HistoryInv, EventsRead
    PROVE  HistoryInv'
<1>1. /\ at = "events" /\ at' = "claims" /\ unread = {} /\ unread' = input.ledger
      /\ UNCHANGED <<input, tasks, entries, todo, buckets, byRun, bySec>>
  BY DEF EventsRead, store
<1>2. Input'
  BY <1>1, InputStays DEF HistoryInv
<1>3. PICK E : E = TakenEvents
  OBVIOUS
<1>4. AllEvents' = E /\ TakenClaims' = {}
  BY <1>1, <1>3, RelevantStays DEF AllEvents, TakenEvents, TakenClaims
<1>5. Sorted(E, {})
  BY <1>1, <1>3 DEF HistoryInv, Merging
<1>6. Sorted(E, {})'
  BY <1>1, <1>5 DEF Sorted, Slot
<1>7. Sorted(AllEvents, TakenClaims)'
  BY <1>4, <1>6 DEF Sorted
<1>8. Merging'
  BY <1>1, <1>7, RejectedStays DEF HistoryInv, Merging
<1>9. Listed' /\ Projecting'
  BY <1>1 DEF HistoryInv, Listed, Projecting, Distinct
<1> QED BY <1>2, <1>8, <1>9 DEF HistoryInv

LEMMA TakeClaimKeeps ==
    ASSUME Identified, HistoryInv, NEW c \in unread, TakeClaim(c)
    PROVE  HistoryInv'
<1>1. at = "claims" /\ at' = "claims" /\ unread' = unread \ {c} /\ UNCHANGED <<input, tasks, entries, todo>>
  BY DEF TakeClaim, store
<1>2. Input'
  BY <1>1, InputStays DEF HistoryInv
<1>3. /\ c \in input.ledger /\ input.ledger \subseteq Ledger
      /\ unread \subseteq input.ledger /\ input.history \subseteq History
  BY <1>1 DEF HistoryInv, Merging, Input
<1>4. PICK E : E = AllEvents
  OBVIOUS
<1>5. PICK C : C = TakenClaims
  OBVIOUS
<1>6. PICK D : D = TakenClaims'
  OBVIOUS
<1>7. E \subseteq History /\ C \subseteq Ledger /\ Sorted(E, C)
  BY <1>1, <1>3, <1>4, <1>5 DEF HistoryInv, Merging, AllEvents, TakenClaims
<1>8. D = (IF c.outcome = "WakeDelivered" /\ Relevant(c) THEN C \cup {c} ELSE C) /\ AllEvents' = E
  <2>1. D = {x \in input.ledger \ (unread \ {c}) : x.outcome = "WakeDelivered" /\ Relevant(x)} /\ AllEvents' = E
    BY <1>1, <1>4, <1>6, RelevantStays DEF TakenClaims, AllEvents
  <2> QED BY <1>3, <1>5, <2>1 DEF TakenClaims
<1>9. Sorted(E, D)'
  <2>1. CASE c.outcome = "WakeDelivered" /\ Relevant(c)
    <3>1. /\ buckets' = Put(buckets, Bucket(c), Merged(Bucket(c), c, {}))
          /\ bySec' = Put(bySec, Slot(c), Bucket(c))
          /\ byRun' = byRun \/ byRun' = Put(byRun, c.run, Bucket(c))
      BY <2>1 DEF TakeClaim
    <3>2. c \in Ledger /\ D = C \cup {c}
      BY <1>3, <1>8, <2>1
    <3> QED BY <1>7, <3>1, <3>2, MergeSorts
  <2>2. CASE ~(c.outcome = "WakeDelivered" /\ Relevant(c))
    <3>1. UNCHANGED <<buckets, byRun, bySec>> /\ D = C
      BY <1>8, <2>2 DEF TakeClaim
    <3> QED BY <1>7, <3>1 DEF Sorted, Slot
  <2> QED BY <2>1, <2>2
<1>10. Sorted(AllEvents, TakenClaims)'
  BY <1>6, <1>8, <1>9 DEF Sorted
<1>11. unread' \subseteq input'.ledger /\ entries' = {} /\ ~Rejected'
  BY <1>1, <1>3, RejectedStays DEF HistoryInv, Merging
<1>12. Merging'
  BY <1>1, <1>10, <1>11 DEF Merging
<1>13. Listed' /\ Projecting'
  BY <1>1 DEF HistoryInv, Listed, Projecting, Distinct
<1> QED BY <1>2, <1>12, <1>13 DEF HistoryInv

LEMMA TakenAreDistinct == ASSUME Distinct(tasks) PROVE Distinct(Taken)
<1>1. PICK S : tasks \in Seq(S)
  BY DEF Distinct
<1>2. PICK n : n = Min({Len(tasks), MaxTasks})
  OBVIOUS
<1>3. n \in Nat /\ n <= Len(tasks)
  <2>1. Len(tasks) \in Nat /\ MaxTasks \in Nat
    BY <1>1, CapsAssumption
  <2>2. \E x \in {Len(tasks), MaxTasks} : \A y \in {Len(tasks), MaxTasks} : x <= y
    <3>1. CASE Len(tasks) <= MaxTasks
      BY <2>1, <3>1
    <3>2. CASE MaxTasks <= Len(tasks)
      BY <2>1, <3>2
    <3> QED BY <2>1, <3>1, <3>2
  <2>3. n \in {Len(tasks), MaxTasks} /\ \A y \in {Len(tasks), MaxTasks} : n <= y
    BY <1>2, <2>2 DEF Min
  <2> QED BY <2>1, <2>3
<1>4. PICK q : q = SubSeq(tasks, 1, n)
  OBVIOUS
<1>5. q \in Seq(S) /\ DOMAIN q = 1..n /\ \A i \in 1..n : q[i] = tasks[i] /\ i \in DOMAIN tasks
  BY <1>1, <1>3, <1>4
<1> QED BY <1>2, <1>4, <1>5 DEF Taken, Distinct

LEMMA TailIsDistinct ==
    ASSUME NEW list, Distinct(list), list # <<>>
    PROVE  /\ Distinct(Tail(list)) /\ Head(list) = list[1] /\ 1 \in DOMAIN list
           /\ \A i \in DOMAIN Tail(list) : Tail(list)[i].id # Head(list).id
           /\ \A i \in DOMAIN Tail(list) : \E j \in DOMAIN list : Tail(list)[i] = list[j]
<1>1. PICK S : list \in Seq(S)
  BY DEF Distinct
<1>2. PICK q : q = Tail(list)
  OBVIOUS
<1>3. /\ q \in Seq(S) /\ DOMAIN q = 1 .. Len(list) - 1 /\ DOMAIN list = 1 .. Len(list) /\ Len(list) \in Nat
      /\ Len(list) > 0 /\ \A i \in 1 .. Len(list) - 1 : q[i] = list[i + 1]
  BY <1>1, <1>2
<1>4. \A i \in DOMAIN q : i + 1 \in DOMAIN list /\ q[i] = list[i + 1] /\ i + 1 # 1
  BY <1>3
<1>5. Head(list) = list[1] /\ 1 \in DOMAIN list
  BY <1>1, <1>3
<1>6. \A i, j \in DOMAIN q : q[i].id = q[j].id => i = j
  <2> SUFFICES ASSUME NEW i \in DOMAIN q, NEW j \in DOMAIN q, q[i].id = q[j].id PROVE i = j
    OBVIOUS
  <2>1. i + 1 = j + 1
    BY <1>4 DEF Distinct
  <2> QED BY <1>3, <2>1
<1>7. \A i \in DOMAIN q : q[i].id # list[1].id
  BY <1>4, <1>5 DEF Distinct
<1> QED BY <1>2, <1>3, <1>4, <1>5, <1>6, <1>7 DEF Distinct

\* What the records show is still there, and nothing is shown twice.
LEMMA HonestStays ==
    ASSUME Honest, input' = input, Recorded' = Recorded,
           \A x, y \in entries' : x.timer = y.timer /\ x.at = y.at => x = y
    PROVE  Honest'
<1>1. Outcomes' = Outcomes /\ Delivered' = Delivered
  BY DEF Outcomes, Delivered
<1>2. \A timer, u : Evidence(timer, u)' = Evidence(timer, u)
  BY <1>1 DEF Evidence
<1> QED BY <1>1, <1>2, RelevantStays DEF Honest

LEMMA RecordKeeps ==
    ASSUME Identified, HistoryInv, Record
    PROVE  HistoryInv'
<1>1. /\ at = "claims" /\ at' = "project" /\ unread = {} /\ todo' = Taken
      /\ UNCHANGED <<input, tasks, unread, buckets, byRun, bySec>>
      /\ entries' = {Entry(b.timer, b.run, b.at, "recorded", LabelOf(b.kinds)) :
                        b \in {x \in Range(buckets) : InRange(x.at)}}
  BY DEF Record, store
<1>2. Input' /\ ~Rejected'
  BY <1>1, InputStays, RejectedStays DEF HistoryInv, Merging
<1>3. PICK E : E = AllEvents
  OBVIOUS
<1>4. PICK C : C = TakenClaims
  OBVIOUS
<1>5. /\ E = {e \in Outcomes : Relevant(e)} /\ C = {c \in Delivered : Relevant(c)}
      /\ Sorted(E, C) /\ E \cup C \subseteq History \cup Ledger
  BY <1>1, <1>3, <1>4 DEF HistoryInv, Merging, Input, AllEvents, TakenClaims, Outcomes, Delivered
<1>6. \A b \in Range(buckets) : \E k \in DOMAIN buckets : b = buckets[k]
  BY DEF Range
<1>7. \A k \in DOMAIN buckets : buckets[k] \in Range(buckets)
  BY DEF Range
<1>8. PICK R : R = entries'
  OBVIOUS
<1>9. \A x \in R : \E k \in DOMAIN buckets :
          /\ x.timer = buckets[k].timer /\ x.at = buckets[k].at /\ x.source = "recorded"
          /\ x.label = LabelOf(buckets[k].kinds)
          /\ x = Entry(buckets[k].timer, buckets[k].run, buckets[k].at, "recorded", LabelOf(buckets[k].kinds))
  BY <1>1, <1>6, <1>8 DEF Entry
<1>10. \A x, y \in R : x.timer = y.timer /\ x.at = y.at => x = y
  <2> SUFFICES ASSUME NEW x \in R, NEW y \in R, x.timer = y.timer, x.at = y.at PROVE x = y
    OBVIOUS
  <2>1. PICK k \in DOMAIN buckets : /\ x.timer = buckets[k].timer /\ x.at = buckets[k].at
                                    /\ x = Entry(buckets[k].timer, buckets[k].run, buckets[k].at, "recorded",
                                                 LabelOf(buckets[k].kinds))
    BY <1>9
  <2>2. PICK l \in DOMAIN buckets : /\ y.timer = buckets[l].timer /\ y.at = buckets[l].at
                                    /\ y = Entry(buckets[l].timer, buckets[l].run, buckets[l].at, "recorded",
                                                 LabelOf(buckets[l].kinds))
    BY <1>9
  <2>3. Slot(buckets[k]) = Slot(buckets[l])
    BY <2>1, <2>2 DEF Slot
  <2>4. k = l
    BY <1>5, <2>3 DEF Sorted
  <2> QED BY <2>1, <2>2, <2>4
<1>11. ASSUME NEW x \in R
       PROVE  /\ x.label = "failed" <=> \E e \in Evidence(x.timer, x.at) : e.kind \in {"WakeFailed", "NoAck"}
              /\ x.label = "unknown" <=> Evidence(x.timer, x.at) = {}
  <2>1. PICK k \in DOMAIN buckets : /\ x.timer = buckets[k].timer /\ x.at = buckets[k].at
                                    /\ x.label = LabelOf(buckets[k].kinds)
    BY <1>9
  <2>2. PICK f \in E \cup C : Slot(buckets[k]) = Slot(f)
    BY <1>5 DEF Sorted
  <2>3. Relevant(f) /\ f.timer = x.timer /\ f.at = x.at
    BY <1>5, <2>1, <2>2 DEF Slot
  <2>4. Evidence(x.timer, x.at) = {e \in E : Slot(e) = Slot(buckets[k])}
    <3>1. \A e : e.at = f.at => (Relevant(e) <=> Relevant(f))
      BY DEF Relevant
    <3>2. \A e : Slot(e) = Slot(buckets[k]) <=> e.timer = x.timer /\ e.at = x.at
      BY <2>1 DEF Slot
    <3> QED BY <1>5, <2>3, <3>1, <3>2 DEF Evidence
  <2>5. buckets[k].kinds = {e.kind : e \in Evidence(x.timer, x.at)}
    BY <1>5, <2>4 DEF Sorted
  <2>6. buckets[k].kinds \subseteq OutcomeEvents
    BY <2>5 DEF Evidence, Outcomes
  <2>7. /\ x.label = "failed" <=> \E n \in buckets[k].kinds : n \in {"WakeFailed", "NoAck"}
        /\ x.label = "unknown" <=> buckets[k].kinds = {}
    BY <2>1, <2>6, LabelTells
  <2> QED BY <2>5, <2>7
<1>12. ASSUME NEW e \in Outcomes \cup Delivered, Relevant(e)
       PROVE  \E x \in R : x.timer = e.timer /\ x.at = e.at
  <2>1. e \in E \cup C
    BY <1>5, <1>12
  <2>2. PICK k \in DOMAIN buckets : Slot(buckets[k]) = Slot(e)
    BY <1>5, <2>1 DEF Sorted
  <2>3. buckets[k].timer = e.timer /\ buckets[k].at = e.at
    BY <2>2 DEF Slot
  <2>4. InRange(e.at)
    <3>1. e.at \in Int
      BY <1>5, <2>1 DEF Identified
    <3>2. RangeStart <= e.at /\ e.at < RangeEnd
      BY <1>12 DEF Relevant
    <3>3. DateOf(request.zone, e.at) \in From..To
      BY <1>1, <3>1, <3>2 DEF HistoryInv, Input, Merging, DatesInOrder
    <3> QED BY <3>2, <3>3 DEF InRange
  <2>5. Entry(buckets[k].timer, buckets[k].run, buckets[k].at, "recorded", LabelOf(buckets[k].kinds)) \in R
    BY <1>1, <1>7, <1>8, <2>3, <2>4
  <2> QED BY <2>3, <2>5 DEF Entry
<1>13. Recorded' = R /\ Outcomes' = Outcomes /\ Delivered' = Delivered
  BY <1>1, <1>8, <1>9 DEF Recorded, Outcomes, Delivered
<1>14. \A timer, u : Evidence(timer, u)' = Evidence(timer, u)
  BY <1>13 DEF Evidence
<1>15. Honest'
  BY <1>1, <1>8, <1>10, <1>11, <1>12, <1>13, <1>14, RelevantStays DEF Honest
<1>16. Distinct(todo')
  BY <1>1, TakenAreDistinct DEF HistoryInv, Listed
<1>17. \A x \in entries' : x.source = "recorded"
  BY <1>8, <1>9
<1>18. Projecting'
  BY <1>1, <1>15, <1>16, <1>17 DEF Projecting, Distinct
<1>19. Listed' /\ Merging'
  BY <1>1, <1>2 DEF HistoryInv, Listed, Merging, Distinct
<1> QED BY <1>2, <1>18, <1>19 DEF HistoryInv

LEMMA ProjectTaskKeeps ==
    ASSUME HistoryInv, ProjectTask
    PROVE  HistoryInv'
<1>1. PICK t : t = Head(todo)
  OBVIOUS
<1>2. PICK N : N = {Entry(t.id, NoRun, u, "projected", StatusOf(t, u)) : u \in Shown(t)}
  OBVIOUS
<1>3. /\ at = "project" /\ at' = "project" /\ todo # <<>> /\ todo' = Tail(todo) /\ entries' = entries \cup N
      /\ UNCHANGED <<input, tasks, unread, buckets, byRun, bySec>>
  BY <1>1, <1>2 DEF ProjectTask, store
<1>4. Input' /\ ~Rejected'
  BY <1>3, InputStays, RejectedStays DEF HistoryInv, Merging
<1>5. /\ Honest /\ Distinct(todo)
      /\ \A x \in entries : x.source \in {"recorded", "projected"}
      /\ \A x \in entries : x.source = "projected" => \A i \in DOMAIN todo : todo[i].id # x.timer
  BY <1>3 DEF HistoryInv, Projecting
<1>6. \A n \in N : \E u \in Shown(t) : /\ n = Entry(t.id, NoRun, u, "projected", StatusOf(t, u))
                                       /\ n.timer = t.id /\ n.at = u /\ n.source = "projected"
  BY <1>2 DEF Entry
<1>7. /\ Distinct(Tail(todo)) /\ t = todo[1] /\ 1 \in DOMAIN todo
      /\ \A i \in DOMAIN Tail(todo) : Tail(todo)[i].id # t.id
      /\ \A i \in DOMAIN Tail(todo) : \E j \in DOMAIN todo : Tail(todo)[i] = todo[j]
  BY <1>1, <1>3, <1>5, TailIsDistinct
<1>8. \A u \in Shown(t) : \A x \in entries : ~(x.source = "recorded" /\ x.timer = t.id /\ x.at = u)
  BY DEF Shown, Covered
<1>9. ASSUME NEW x \in entries, NEW n \in N PROVE ~(x.timer = n.timer /\ x.at = n.at)
  <2>1. PICK u \in Shown(t) : n.timer = t.id /\ n.at = u
    BY <1>6
  <2> QED BY <1>5, <1>7, <1>8, <2>1
<1>10. \A x, y \in entries' : x.timer = y.timer /\ x.at = y.at => x = y
  <2>1. \A x, y \in entries : x.timer = y.timer /\ x.at = y.at => x = y
    BY <1>5 DEF Honest
  <2>2. \A x, y \in N : x.timer = y.timer /\ x.at = y.at => x = y
    BY <1>6
  <2> QED BY <1>3, <1>9, <2>1, <2>2
<1>11. Recorded' = Recorded
  BY <1>3, <1>6 DEF Recorded
<1>12. Honest'
  BY <1>3, <1>5, <1>10, <1>11, HonestStays
<1>13. \A x \in entries' : x.source = "projected" => \A i \in DOMAIN todo' : todo'[i].id # x.timer
  BY <1>3, <1>5, <1>6, <1>7
<1>14. \A x \in entries' : x.source \in {"recorded", "projected"}
  BY <1>3, <1>5, <1>6
<1>15. Distinct(todo')
  BY <1>3, <1>7
<1>16. Projecting'
  BY <1>3, <1>12, <1>13, <1>14, <1>15 DEF Projecting, Distinct
<1>17. Listed' /\ Merging'
  BY <1>3, <1>4 DEF HistoryInv, Listed, Merging, Distinct
<1> QED BY <1>4, <1>16, <1>17 DEF HistoryInv

LEMMA StartKeeps ==
    ASSUME HistoryInv, StartTruth \/ StartSnapshot
    PROVE  HistoryInv'
<1>1. /\ at = "start" /\ ~Rejected /\ entries = {} /\ buckets = <<>> /\ byRun = <<>> /\ bySec = <<>>
      /\ UNCHANGED <<input, tasks, buckets, byRun, bySec, entries>>
  BY DEF StartTruth, StartSnapshot, store, HistoryInv, Merging
<1>2. Input' /\ ~Rejected'
  BY <1>1, InputStays, RejectedStays DEF HistoryInv
<1>3. Listed'
  <2>1. at' # "edit"
    BY DEF StartTruth, StartSnapshot
  <2> QED BY <1>1, <2>1 DEF HistoryInv, Listed, Distinct
<1>4. CASE StartTruth
  <2>1. at' = "events" /\ unread' = input.history
    BY <1>4 DEF StartTruth
  <2>2. TakenEvents' = {}
    BY <1>1, <2>1 DEF TakenEvents
  <2>3. Sorted({}, {})'
    BY <1>1 DEF Sorted
  <2>4. Sorted(TakenEvents, {})'
    BY <2>2, <2>3 DEF Sorted
  <2>5. Merging'
    BY <1>1, <1>2, <2>1, <2>4 DEF Merging
  <2>6. Projecting'
    BY <1>1, <2>1 DEF Projecting
  <2> QED BY <1>2, <1>3, <2>5, <2>6 DEF HistoryInv
<1>5. CASE StartSnapshot
  <2>1. at' = "project" /\ todo' = Taken /\ ~Truth
    BY <1>5 DEF StartSnapshot
  <2>2. input.history = {} /\ input.ledger = {}
    BY <2>1 DEF HistoryInv, Input
  <2>3. Outcomes = {} /\ Delivered = {} /\ Recorded = {}
    BY <1>1, <2>2 DEF Outcomes, Delivered, Recorded
  <2>4. Honest
    BY <1>1, <2>3 DEF Honest
  <2>5. Recorded' = Recorded
    BY <1>1 DEF Recorded
  <2>6. Honest'
    BY <1>1, <2>4, <2>5, HonestStays
  <2>7. Distinct(todo')
    BY <2>1, TakenAreDistinct DEF HistoryInv, Listed
  <2>8. Merging'
    BY <1>1, <1>2, <2>1 DEF Merging
  <2>9. Projecting'
    BY <1>1, <2>1, <2>6, <2>7 DEF Projecting, Distinct
  <2> QED BY <1>2, <1>3, <2>8, <2>9 DEF HistoryInv
<1> QED BY <1>4, <1>5

LEMMA EndKeeps ==
    ASSUME HistoryInv, EntriesFull \/ Finish \/ Reject
    PROVE  HistoryInv'
<1>1. UNCHANGED <<input, tasks, unread, buckets, byRun, bySec, entries>>
  BY DEF EntriesFull, Finish, Reject, store
<1>2. \/ at = "project" /\ at' = "project" /\ todo' = <<>>
      \/ at = "project" /\ at' = "done"
      \/ at = "start" /\ at' = "failed"
  BY DEF EntriesFull, Finish, Reject
<1>3. Input' /\ (Rejected' = Rejected)
  BY <1>1, InputStays, RejectedStays DEF HistoryInv
<1>4. Listed' /\ Merging'
  BY <1>1, <1>2, <1>3 DEF HistoryInv, Listed, Merging, Distinct
<1>5. at' \in {"project", "done"} => Honest'
  <2>1. Recorded' = Recorded
    BY <1>1 DEF Recorded
  <2>2. at' \in {"project", "done"} => Honest
    BY <1>2 DEF HistoryInv, Projecting
  <2>3. Honest => \A x, y \in entries' : x.timer = y.timer /\ x.at = y.at => x = y
    BY <1>1 DEF Honest
  <2> QED BY <1>1, <2>1, <2>2, <2>3, HonestStays
<1>6. Distinct(<<>>) /\ DOMAIN <<>> = {}
  BY DEF Distinct
<1>7. at' = "project" => Distinct(todo') /\ DOMAIN todo' = {}
  BY <1>2, <1>6
<1>8. \A x \in entries' : x.source \in {"recorded", "projected"}
  BY <1>1 DEF HistoryInv, Projecting
<1>9. Projecting'
  BY <1>5, <1>7, <1>8 DEF Projecting, Distinct
<1> QED BY <1>3, <1>4, <1>9 DEF HistoryInv

\* Whoever writes a row leaves its id.
LEMMA RowKeepsId ==
    ASSUME NEW row, "id" \in DOMAIN row, NEW rule, NEW last, NEW now
    PROVE  LET new == ComputeNextFire(row, rule, last, now) IN "id" \in DOMAIN new /\ new.id = row.id
<1> DEFINE since == IF last = None THEN now ELSE last
           next == NextFire(rule, since)
<1>1. ComputeNextFire(row, rule, last, now) =
          [row EXCEPT !.rule = [rule EXCEPT !.skips = next.skips], !.next = next.fire, !.last = last, !.revision = @ + 1,
                      !.asked = rule, !.since = since]
  BY DEF ComputeNextFire
<1> HIDE DEF since, next
<1> QED BY <1>1

\* The first timer is written.
LEMMA FirstIsWritten ==
    ASSUME Listed, tasks # <<>>, NEW row, "id" \in DOMAIN row, row.id = tasks[1].id,
           tasks' = [tasks EXCEPT ![1] = row]
    PROVE  /\ Distinct(tasks') /\ tasks' # <<>> /\ \A i \in DOMAIN tasks' : "id" \in DOMAIN tasks'[i]
           /\ Unborn(tasks) => Unborn(tasks')
<1>1. PICK S : tasks \in Seq(S)
  BY DEF Listed, Distinct
<1>2. 1 \in DOMAIN tasks /\ DOMAIN tasks' = DOMAIN tasks
  BY <1>1
<1>3. tasks' \in Seq(S \cup {row})
  <2>1. tasks \in Seq(S \cup {row})
    BY <1>1
  <2> QED BY <1>2, <2>1
<1>4. \A i \in DOMAIN tasks : tasks'[i].id = tasks[i].id /\ "id" \in DOMAIN tasks'[i]
  BY <1>2 DEF Listed
<1>5. tasks' # <<>>
  BY <1>2
<1> QED BY <1>2, <1>3, <1>4, <1>5 DEF Listed, Distinct, Unborn

LEMMA EditsAround ==
    ASSUME HistoryInv, at = "edit", at' \in {"edit", "start"}, Listed',
           UNCHANGED <<input, unread, buckets, byRun, bySec, entries, todo>>
    PROVE  HistoryInv'
<1>1. Input'
  BY InputStays DEF HistoryInv
<1>2. Merging' /\ Projecting'
  BY DEF HistoryInv, Merging, Projecting
<1> QED BY <1>1, <1>2 DEF HistoryInv

LEMMA EditKeeps ==
    ASSUME HistoryInv, OpenEditor \/ SaveEdit \/ RefuseEdit \/ SlotModify \/ AddTimer \/ RefuseRequest \/ FireMeanwhile
    PROVE  HistoryInv'
<1>1. at = "edit" /\ at' \in {"edit", "start"} /\ UNCHANGED <<input, unread, buckets, byRun, bySec, entries, todo>>
  BY DEF OpenEditor, SaveEdit, RefuseEdit, SlotModify, AddTimer, RefuseRequest, FireMeanwhile, EditDone
<1>2. Listed /\ tasks # <<>> /\ Unborn(tasks)
  BY <1>1 DEF HistoryInv, Listed
<1>3. PICK S : tasks \in Seq(S)
  BY <1>2 DEF Listed, Distinct
<1>4. 1 \in DOMAIN tasks /\ "id" \in DOMAIN tasks[1]
  BY <1>2, <1>3 DEF Listed
<1>5. CASE OpenEditor \/ RefuseEdit \/ RefuseRequest
  <2>1. tasks' = tasks
    BY <1>5 DEF OpenEditor, RefuseEdit, RefuseRequest
  <2>2. Listed'
    BY <1>2, <2>1 DEF Listed, Distinct, Unborn
  <2> QED BY <1>1, <2>2, EditsAround
<1>6. CASE SaveEdit \/ SlotModify \/ FireMeanwhile
  <2>1. \E row : "id" \in DOMAIN row /\ row.id = tasks[1].id /\ tasks' = [tasks EXCEPT ![1] = row]
    <3>1. CASE SaveEdit
      <4>1. PICK row : row = UpdateRule(tasks[1], Submitted(editor), request.now)
        OBVIOUS
      <4>2. "id" \in DOMAIN row /\ row.id = tasks[1].id
        BY <1>4, <4>1, RowKeepsId DEF UpdateRule
      <4>3. tasks' = [tasks EXCEPT ![1] = row]
        BY <3>1, <4>1 DEF SaveEdit
      <4> QED BY <4>2, <4>3
    <3>2. CASE SlotModify
      <4>1. PICK row : row = UpdateRule(tasks[1], Submitted(tasks[1]), request.now)
        OBVIOUS
      <4>2. "id" \in DOMAIN row /\ row.id = tasks[1].id
        BY <1>4, <4>1, RowKeepsId DEF UpdateRule
      <4>3. tasks' = [tasks EXCEPT ![1] = row]
        BY <3>2, <4>1 DEF SlotModify
      <4> QED BY <4>2, <4>3
    <3>3. CASE FireMeanwhile
      <4>1. PICK row : row = MarkFired(tasks[1], request.now)
        OBVIOUS
      <4>2. "id" \in DOMAIN row /\ row.id = tasks[1].id
        BY <1>4, <4>1, RowKeepsId DEF MarkFired
      <4>3. tasks' = [tasks EXCEPT ![1] = row]
        BY <3>3, <4>1 DEF FireMeanwhile
      <4> QED BY <4>2, <4>3
    <3> QED BY <1>6, <3>1, <3>2, <3>3
  <2>2. /\ Distinct(tasks') /\ tasks' # <<>> /\ \A i \in DOMAIN tasks' : "id" \in DOMAIN tasks'[i]
        /\ Unborn(tasks')
    BY <1>2, <2>1, FirstIsWritten
  <2>3. Listed'
    BY <2>2 DEF Listed, Distinct, Unborn
  <2> QED BY <1>1, <2>3, EditsAround
<1>7. CASE AddTimer
  <2>1. PICK row : row = [tasks[1] EXCEPT !.id = "new", !.rule = Submitted(NoTimer), !.revision = 0]
    OBVIOUS
  <2>2. PICK new : new = CreateTimer(row, request.now)
    OBVIOUS
  <2>3. tasks' = Append(tasks, new) /\ at' = "start"
    BY <1>7, <2>1, <2>2 DEF AddTimer, EditDone
  <2>4. "id" \in DOMAIN row /\ row.id = "new"
    BY <1>4, <2>1
  <2>5. "id" \in DOMAIN new /\ new.id = "new"
    BY <2>2, <2>4, RowKeepsId DEF CreateTimer
  <2>6. PICK n : n = Len(tasks)
    OBVIOUS
  <2>7. /\ tasks' \in Seq(S \cup {new}) /\ DOMAIN tasks = 1..n /\ n \in Nat /\ DOMAIN tasks' = 1 .. n + 1
        /\ tasks'[n + 1] = new /\ \A i \in 1..n : tasks'[i] = tasks[i]
    <3>1. tasks \in Seq(S \cup {new})
      BY <1>3
    <3> QED BY <2>3, <2>6, <3>1
  <2>8. \A i \in 1 .. n + 1 : (i \in 1..n /\ tasks'[i] = tasks[i] /\ tasks[i].id # "new")
                              \/ (i = n + 1 /\ tasks'[i].id = "new")
    BY <1>2, <2>5, <2>7 DEF Unborn
  <2>9. \A i, j \in 1 .. n + 1 : tasks'[i].id = tasks'[j].id => i = j
    <3>1. \A i, j \in 1..n : tasks[i].id = tasks[j].id => i = j
      BY <1>2, <2>7 DEF Listed, Distinct
    <3> QED BY <2>8, <3>1
  <2>10. \A i \in 1 .. n + 1 : "id" \in DOMAIN tasks'[i]
    BY <1>2, <2>5, <2>7, <2>8 DEF Listed
  <2>11. Listed'
    BY <2>3, <2>7, <2>9, <2>10 DEF Listed, Distinct
  <2> QED BY <1>1, <2>11, EditsAround
<1> QED BY <1>5, <1>6, <1>7

LEMMA HistoryInit ==
    ASSUME OwnIds, CalendarInit, DatesInOrder
    PROVE  HistoryInv
<1>1. /\ input.history \subseteq History /\ input.ledger \subseteq Ledger
      /\ input.tasks \in TaskLists \cup EditCases.tasks
      /\ input.edit # NoEdit => input.tasks \in EditCases.tasks
  BY DEF CalendarInit
<1>2. at \in {"edit", "start"} /\ (at = "edit" => edit # NoEdit)
  BY DEF CalendarInit
<1>3. PICK list : list = input.tasks
  OBVIOUS
<1>4. Distinct(list) /\ (at = "edit" => Unborn(list) /\ list # <<>>)
  BY <1>1, <1>2, <1>3 DEF OwnIds, edit
<1>5. tasks = [i \in DOMAIN list |-> Row(list[i])]
  BY <1>3 DEF CalendarInit
<1>6. \A t : "id" \in DOMAIN Row(t) /\ Row(t).id = t.id
  <2> TAKE t
  <2>1. PICK row : row = [id |-> t.id, rule |-> t.rule, enabled |-> t.enabled, past |-> t.past, next |-> None,
                          last |-> None, revision |-> 0, asked |-> t.rule, since |-> None]
    OBVIOUS
  <2>2. Row(t) = ComputeNextFire(row, row.rule, None, Born)
    BY <2>1 DEF Row, CreateTimer
  <2>3. "id" \in DOMAIN row /\ row.id = t.id
    BY <2>1
  <2> QED BY <2>2, <2>3, RowKeepsId
<1>7. \E S : tasks \in Seq(S)
  <2>1. PICK S : list \in Seq(S)
    BY <1>4 DEF Distinct
  <2>2. PICK n : n = Len(list)
    OBVIOUS
  <2>3. n \in Nat /\ DOMAIN list = 1..n
    BY <2>1, <2>2
  <2> DEFINE T == {Row(list[i]) : i \in 1..n}
  <2>4. tasks \in [1..n -> T]
    BY <1>5, <2>3
  <2> HIDE DEF T
  <2>5. tasks \in Seq(T)
    BY <2>3, <2>4
  <2> QED BY <2>5
<1>8. /\ DOMAIN tasks = DOMAIN list
      /\ \A i \in DOMAIN tasks : tasks[i].id = list[i].id /\ "id" \in DOMAIN tasks[i]
  BY <1>5, <1>6
<1>9. Distinct(tasks)
  BY <1>4, <1>7, <1>8 DEF Distinct
<1>10. at = "edit" => Unborn(tasks) /\ tasks # <<>>
  <2>1. list # <<>> => tasks # <<>>
    <3>1. PICK S : list \in Seq(S)
      BY <1>4 DEF Distinct
    <3>2. list # <<>> => 1 \in DOMAIN list
      BY <3>1
    <3> QED BY <1>8, <3>2
  <2> QED BY <1>4, <1>8, <2>1 DEF Unborn
<1>11. Listed
  BY <1>8, <1>9, <1>10 DEF Listed
<1>12. Input
  BY <1>1 DEF Input, CalendarInit
<1>13. Merging /\ Projecting
  BY <1>2 DEF Merging, Projecting, CalendarInit
<1> QED BY <1>11, <1>12, <1>13 DEF HistoryInv

LEMMA HistoryNext ==
    ASSUME Identified, HistoryInv, [CalendarNext]_calendarVars
    PROVE  HistoryInv'
<1>1. CASE UNCHANGED calendarVars
  <2>1. UNCHANGED <<input, tasks, unread, buckets, byRun, bySec, entries, todo, at>>
    BY <1>1 DEF calendarVars
  <2>2. Input' /\ Rejected' = Rejected
    BY <2>1, InputStays, RejectedStays DEF HistoryInv
  <2>3. TakenEvents' = TakenEvents /\ AllEvents' = AllEvents /\ TakenClaims' = TakenClaims
    BY <2>1, RelevantStays DEF TakenEvents, AllEvents, TakenClaims
  <2>4. PICK E : E = TakenEvents
    OBVIOUS
  <2>5. PICK F : F = AllEvents
    OBVIOUS
  <2>6. PICK C : C = TakenClaims
    OBVIOUS
  <2>7. (Sorted(E, {}) => Sorted(E, {})') /\ (Sorted(F, C) => Sorted(F, C)')
    BY <2>1 DEF Sorted, Slot
  <2>8. Sorted(TakenEvents, {}) => Sorted(TakenEvents, {})'
    BY <2>3, <2>4, <2>7 DEF Sorted
  <2>9. Sorted(AllEvents, TakenClaims) => Sorted(AllEvents, TakenClaims)'
    BY <2>3, <2>5, <2>6, <2>7 DEF Sorted
  <2>10. Merging'
    BY <2>1, <2>2, <2>8, <2>9 DEF HistoryInv, Merging
  <2>11. Honest => Honest'
    <3>1. Recorded' = Recorded
      BY <2>1 DEF Recorded
    <3>2. Honest => \A x, y \in entries' : x.timer = y.timer /\ x.at = y.at => x = y
      BY <2>1 DEF Honest
    <3> QED BY <2>1, <3>1, <3>2, HonestStays
  <2>12. Projecting' /\ Listed'
    BY <2>1, <2>11 DEF HistoryInv, Projecting, Listed, Distinct, Unborn
  <2> QED BY <2>2, <2>10, <2>12 DEF HistoryInv
<1>2. CASE CalendarNext
  BY <1>2, EditKeeps, StartKeeps, EndKeeps, TakeEventKeeps, EventsReadKeeps, TakeClaimKeeps, RecordKeeps,
     ProjectTaskKeeps DEF CalendarNext
<1> QED BY <1>1, <1>2

\* A fire is one entry of the calendar, and a true one: whatever order its events and its claim come
\* in, and whichever of them are still there, it is neither shown twice nor shown recorded and
\* projected, failed exactly when an event says so, unknown when only the ledger knows it, and never
\* left out (resolve_or_create_bucket, the claim merge, recorded_keys).  Events carry the slot of their
\* claim (Identified), timers have ids of their own (OwnIds), and clocks are not put back over a
\* midnight of the range.
THEOREM HistoryIsToldOnce ==
    ASSUME Identified, OwnIds
    PROVE  CalendarSpec /\ DatesInOrder => []HistoryIsHonest
<1>1. CalendarInit /\ DatesInOrder => HistoryInv
  BY HistoryInit
<1>2. HistoryInv /\ [CalendarNext]_calendarVars => HistoryInv'
  BY HistoryNext
<1>3. HistoryInv => HistoryIsHonest
  BY DEF HistoryInv, Projecting, Honest, HistoryIsHonest
<1> QED BY <1>1, <1>2, <1>3, PTL DEF CalendarSpec

(* ---- edits ---- *)

\* A rule with all its fields; those its kind does not have are at their defaults.
Plain(rule) ==
    /\ rule.kind \in Kinds /\ DOMAIN rule = RuleFields
    /\ \A f \in DOMAIN Unread \ (Needs[rule.kind] \cup {"anchor"}) : rule[f] = Unread[f]

\* The names of the fields, and which of them a kind needs.
LEMMA Fields ==
    /\ DOMAIN Unread = {"at", "once", "every", "anchor", "days", "day", "month"}
    /\ DOMAIN NoLimits = {"from", "until", "maxRuns", "runs", "excluded", "skips"}
    /\ RuleFields = {"kind", "tz", "at", "once", "every", "anchor", "days", "day", "month",
                     "from", "until", "maxRuns", "runs", "excluded", "skips"}
    /\ \A kind \in Kinds : /\ Needs[kind] \subseteq DOMAIN Unread \ {"anchor"}
                           /\ "kind" \notin Needs[kind] /\ "tz" \notin Needs[kind]
<1>1. DOMAIN Unread = {"at", "once", "every", "anchor", "days", "day", "month"}
  BY DEF Unread
<1>2. DOMAIN NoLimits = {"from", "until", "maxRuns", "runs", "excluded", "skips"}
  BY DEF NoLimits
<1>3. RuleFields = {"kind", "tz", "at", "once", "every", "anchor", "days", "day", "month",
                    "from", "until", "maxRuns", "runs", "excluded", "skips"}
  BY <1>1, <1>2 DEF RuleFields
<1>4. \A kind \in Kinds :
          Needs[kind] \in {{"once"}, {"every"}, {"at"}, {"at", "days"}, {"at", "day"},
                           {"at", "day", "month"}}
  BY DEF Kinds, Needs
<1> QED BY <1>1, <1>2, <1>3, <1>4

\* A new rule has the fields it was given and defaults for the others.
LEMMA NewRuleHas ==
    ASSUME NEW kind, NEW tz, NEW fields, DOMAIN fields \subseteq DOMAIN Unread,
           NEW new, new = NewRule(kind, tz, fields)
    PROVE  /\ DOMAIN new = RuleFields /\ new.kind = kind /\ new.tz = tz
           /\ \A f \in DOMAIN fields : new[f] = fields[f]
           /\ \A f \in DOMAIN Unread \ DOMAIN fields : new[f] = Unread[f]
<1>1. DOMAIN new = RuleFields
  BY DEF NewRule
<1>2. \A f \in RuleFields :
          new[f] = CASE f = "kind" -> kind [] f = "tz" -> tz [] f \in DOMAIN NoLimits -> NoLimits[f]
                     [] f \in DOMAIN Unread -> Given(fields, f, Unread[f])
  BY DEF NewRule
<1>3. "kind" \in RuleFields /\ "tz" \in RuleFields
  BY Fields
<1>4. new["kind"] = kind /\ new["tz"] = tz
  <2>1. \A f \in RuleFields : f = "kind" => new[f] = kind
    BY <1>2, Fields
  <2>2. \A f \in RuleFields : f = "tz" => new[f] = tz
    BY <1>2, Fields
  <2> QED BY <1>3, <2>1, <2>2
<1>5. \A f \in DOMAIN Unread : f \in RuleFields /\ f \notin DOMAIN NoLimits \cup {"kind", "tz"}
  BY Fields
<1>6. \A f \in DOMAIN Unread : new[f] = Given(fields, f, Unread[f])
  BY <1>2, <1>5
<1> QED BY <1>1, <1>4, <1>6 DEF Given

\* bellman edit changes the fields that its flags and the kind share.
LEMMA PatchKeepsTheRest ==
    ASSUME NEW rule, Plain(rule), NEW flags, NEW new, new = PatchOccurrence(rule, flags)
    PROVE  /\ Plain(new) /\ new.kind = rule.kind
           /\ \A f \in RuleFields \ DOMAIN flags : new[f] = rule[f]
           /\ \A f \in DOMAIN flags \cap Needs[rule.kind] : new[f] = flags[f]
<1>1. PICK fields : fields = Patched(rule, flags)
  OBVIOUS
<1>2. PICK made : made = NewRule(rule.kind, rule.tz, fields)
  OBVIOUS
<1>3. /\ DOMAIN fields = Needs[rule.kind] \cup {"anchor"}
      /\ \A f \in DOMAIN flags \cap Needs[rule.kind] : fields[f] = flags[f]
      /\ \A f \in DOMAIN fields \ (DOMAIN flags \cap Needs[rule.kind]) : fields[f] = rule[f]
  BY <1>1 DEF Patched, Given
<1>4. rule.kind \in Kinds /\ DOMAIN fields \subseteq DOMAIN Unread
  BY <1>3, Fields DEF Plain
<1>5. /\ DOMAIN made = RuleFields /\ made.kind = rule.kind /\ made.tz = rule.tz
      /\ \A f \in DOMAIN fields : made[f] = fields[f]
      /\ \A f \in DOMAIN Unread \ DOMAIN fields : made[f] = Unread[f]
  BY <1>2, <1>4, NewRuleHas
<1>6. /\ DOMAIN new = RuleFields /\ \A f \in DOMAIN NoLimits : new[f] = rule[f]
      /\ \A f \in RuleFields \ DOMAIN NoLimits : new[f] = made[f]
  BY <1>1, <1>2 DEF PatchOccurrence, RuleFields
<1>7. new.kind = rule.kind /\ new.tz = rule.tz
  BY <1>5, <1>6, Fields
<1>8. \A f \in DOMAIN Unread : f \in RuleFields \ DOMAIN NoLimits /\ new[f] = made[f]
  BY <1>6, Fields
<1>9. \A f \in DOMAIN Unread \ (Needs[rule.kind] \cup {"anchor"}) :
          new[f] = Unread[f] /\ rule[f] = Unread[f]
  BY <1>3, <1>5, <1>8 DEF Plain
<1>10. Plain(new)
  BY <1>4, <1>6, <1>7, <1>9 DEF Plain
<1>11. \A f \in Needs[rule.kind] \cup {"anchor"} : new[f] = fields[f]
  BY <1>3, <1>4, <1>5, <1>8
<1>12. \A f \in DOMAIN flags \cap Needs[rule.kind] : new[f] = flags[f]
  BY <1>3, <1>11
<1>13. ASSUME NEW f \in RuleFields \ DOMAIN flags PROVE new[f] = rule[f]
  <2>1. CASE f \in Needs[rule.kind] \cup {"anchor"}
    BY <1>3, <1>11, <1>13, <2>1
  <2>2. CASE f \in DOMAIN Unread \ (Needs[rule.kind] \cup {"anchor"})
    BY <1>9, <2>2
  <2>3. CASE f \in DOMAIN NoLimits
    BY <1>6, <2>3
  <2>4. CASE f \in {"kind", "tz"}
    BY <1>7, <2>4
  <2> QED BY <2>1, <2>2, <2>3, <2>4 DEF RuleFields
<1> QED BY <1>7, <1>10, <1>12, <1>13

\* The dialog sends back what it showed, with what was changed.
LEMMA DialogKeepsTheRest ==
    ASSUME NEW rule, Plain(rule), NEW changes, NEW dto, dto = Dialog(rule, changes), dto.kind \in Kinds,
           NEW now, NEW new, new = IntoCoreOccurrence(dto, now)
    PROVE  /\ DOMAIN new = RuleFields /\ new.kind = dto.kind
           /\ "kind" \notin DOMAIN changes =>
                  \A f \in DOMAIN WebTimer(rule) \ DOMAIN changes :
                      f \in RuleFields \ {"skips"} /\ new[f] = rule[f]
           /\ \A f \in DOMAIN changes \cap Needs[dto.kind] : new[f] = changes[f]
<1>1. PICK prefill : prefill = WebTimer(rule)
  OBVIOUS
<1>2. DOMAIN prefill = {"kind", "tz"} \cup Own(rule.kind)
  BY <1>1 DEF WebTimer, Restrict
<1>3. /\ DOMAIN dto = DOMAIN changes \cup DOMAIN prefill
      /\ \A f \in DOMAIN changes : dto[f] = changes[f]
      /\ \A f \in DOMAIN prefill \ DOMAIN changes : dto[f] = rule[f]
  BY <1>1 DEF Dialog, Given
<1>4. PICK anchor : anchor = Given(dto, "anchor", now)
  OBVIOUS
<1>5. PICK fields : fields = KindOf(dto, dto.kind, anchor)
  OBVIOUS
<1>6. /\ DOMAIN fields = Own(dto.kind)
      /\ \A f \in Needs[dto.kind] : fields[f] = dto[f]
      /\ dto.kind = "interval" => fields["anchor"] = anchor
  <2>1. "anchor" \notin Needs[dto.kind]
    BY Fields
  <2>2. dto.kind = "interval" => "anchor" \in Own(dto.kind)
    BY DEF Own
  <2>3. Needs[dto.kind] \subseteq Own(dto.kind)
    BY DEF Own
  <2> QED BY <1>5, <2>1, <2>2, <2>3 DEF KindOf
<1>7. new = NewRule(dto.kind, Given(dto, "tz", UtcZone), fields)
  BY <1>4, <1>5 DEF IntoCoreOccurrence
<1>8. DOMAIN fields \subseteq DOMAIN Unread
  BY <1>6, Fields DEF Own
<1>9. /\ DOMAIN new = RuleFields /\ new.kind = dto.kind /\ new.tz = Given(dto, "tz", UtcZone)
      /\ \A f \in DOMAIN fields : new[f] = fields[f]
  BY <1>7, <1>8, NewRuleHas
<1>10. \A f \in DOMAIN changes \cap Needs[dto.kind] : new[f] = changes[f]
  BY <1>3, <1>6, <1>9 DEF Own
<1>11. ASSUME "kind" \notin DOMAIN changes, NEW f \in DOMAIN prefill \ DOMAIN changes
       PROVE  f \in RuleFields \ {"skips"} /\ new[f] = rule[f]
  <2>1. dto.kind = rule.kind
    BY <1>2, <1>3, <1>11
  <2>2. f \in RuleFields \ {"skips"}
    <3>1. Own(rule.kind) \subseteq DOMAIN Unread
      BY <2>1, Fields DEF Own
    <3> QED BY <1>2, <3>1, Fields
  <2>3. CASE f = "kind"
    BY <1>9, <2>1, <2>2, <2>3
  <2>4. CASE f = "tz"
    <3>1. "tz" \in DOMAIN dto /\ dto["tz"] = rule["tz"]
      BY <1>3, <1>11, <2>4
    <3> QED BY <1>9, <2>2, <2>4, <3>1 DEF Given
  <2>5. CASE f \in Needs[rule.kind]
    BY <1>3, <1>6, <1>9, <1>11, <2>1, <2>2, <2>5 DEF Own
  <2>6. CASE f = "anchor" /\ rule.kind = "interval"
    <3>1. "anchor" \in DOMAIN dto /\ dto["anchor"] = rule["anchor"]
      BY <1>3, <1>11, <2>6
    <3>2. anchor = rule["anchor"]
      BY <1>4, <3>1 DEF Given
    <3>3. "anchor" \in DOMAIN fields
      BY <1>6, <2>1, <2>6 DEF Own
    <3> QED BY <1>6, <1>9, <2>1, <2>2, <2>6, <3>2, <3>3
  <2> QED BY <1>2, <2>2, <2>3, <2>4, <2>5, <2>6 DEF Own
<1> QED BY <1>1, <1>9, <1>10, <1>11

\* Every write finds the next fire anew and raises the revision.
LEMMA WriteLeaves ==
    ASSUME NEW row, {"rule", "revision"} \subseteq DOMAIN row, NEW rule, NEW last, NEW now,
           NEW written, written = ComputeNextFire(row, rule, last, now)
    PROVE  /\ DOMAIN written = DOMAIN row /\ written.revision = row.revision + 1
           /\ DOMAIN written.rule = DOMAIN rule
           /\ \A f \in DOMAIN rule \ {"skips"} : written.rule[f] = rule[f]
<1>1. PICK since : since = IF last = None THEN now ELSE last
  OBVIOUS
<1>2. PICK next : next = NextFire(rule, since)
  OBVIOUS
<1>3. written = [row EXCEPT !.rule = [rule EXCEPT !.skips = next.skips], !.next = next.fire, !.last = last, !.revision = @ + 1,
                            !.asked = rule, !.since = since]
  BY <1>1, <1>2 DEF ComputeNextFire
<1>4. DOMAIN written = DOMAIN row /\ written.revision = row.revision + 1 /\ written.rule = [rule EXCEPT !.skips = next.skips]
  BY <1>3
<1> QED BY <1>4

\* Fires counted and skips spent do not touch the fields that make a rule plain.
LEMMA PlainStays ==
    ASSUME NEW rule, Plain(rule), NEW left, DOMAIN left = DOMAIN rule,
           \A f \in DOMAIN rule \ DOMAIN NoLimits : left[f] = rule[f]
    PROVE  Plain(left)
<1>1. "kind" \in DOMAIN rule \ DOMAIN NoLimits /\ DOMAIN Unread \subseteq DOMAIN rule \ DOMAIN NoLimits
  BY Fields DEF Plain
<1>2. left["kind"] = rule["kind"]
  BY <1>1
<1> QED BY <1>1, <1>2 DEF Plain

\* A timer that is edited is there, and has the rule of one kind: what OccurrenceKind,
\* an enum, cannot but give.
EditableLists == \A list \in EditCases.tasks : 1 \in DOMAIN list /\ Plain(list[1].rule)

\* While a timer is edited, its rule is one a front end could have made; what the
\* editor holds is the row as it is, or one with an earlier revision.
RowOK(row) == {"rule", "revision"} \subseteq DOMAIN row /\ row.revision \in Nat /\ Plain(row.rule)
EditInv ==
    at = "edit" =>
        /\ 1 \in DOMAIN tasks /\ RowOK(tasks[1])
        /\ editor # NoTimer =>
            /\ edit.by \in {"cli edit", "window"}
            /\ editor.revision \in Nat /\ editor.revision <= tasks[1].revision
            /\ editor.revision = tasks[1].revision => editor.rule = tasks[1].rule

\* A timer as it was registered is one an editor can open.
LEMMA EditInvInit == ASSUME EditableLists, CalendarInit PROVE EditInv
<1> SUFFICES ASSUME at = "edit" PROVE EditInv
  BY DEF EditInv
<1>1. input \in [request : EditCases.requests, edit : EditCases.edits, tasks : EditCases.tasks, history : {{}}, ledger : {{}}]
  <2>1. edit # NoEdit
    BY DEF CalendarInit
  <2> QED BY <2>1 DEF CalendarInit, edit
<1>2. 1 \in DOMAIN input.tasks /\ Plain(input.tasks[1].rule)
  BY <1>1 DEF EditableLists
<1>3. 1 \in DOMAIN tasks /\ tasks[1] = Row(input.tasks[1]) /\ editor = NoTimer
  BY <1>2 DEF CalendarInit
<1>4. ASSUME NEW t, Plain(t.rule) PROVE RowOK(Row(t))
  <2>1. PICK row : row = [id |-> t.id, rule |-> t.rule, enabled |-> t.enabled, past |-> t.past, next |-> None,
                          last |-> None, revision |-> 0, asked |-> t.rule, since |-> None]
    OBVIOUS
  <2>2. Row(t) = ComputeNextFire(row, t.rule, None, Born)
    BY <2>1 DEF Row, CreateTimer
  <2>3. {"rule", "revision"} \subseteq DOMAIN row /\ row.revision = 0
    BY <2>1
  <2>4. PICK written : written = Row(t)
    OBVIOUS
  <2>5. /\ DOMAIN written = DOMAIN row /\ written.revision = 1
        /\ DOMAIN written.rule = DOMAIN t.rule /\ \A f \in DOMAIN t.rule \ {"skips"} : written.rule[f] = t.rule[f]
    BY <2>2, <2>3, <2>4, WriteLeaves
  <2>6. Plain(written.rule)
    BY <1>4, <2>5, PlainStays, Fields
  <2> QED BY <2>3, <2>4, <2>5, <2>6 DEF RowOK
<1>5. RowOK(tasks[1])
  BY <1>2, <1>3, <1>4
<1> QED BY <1>3, <1>5 DEF EditInv

\* A fire while the editor is open leaves the editor's revision behind.
LEMMA FireLeavesEditorBehind == ASSUME EditInv, FireMeanwhile PROVE EditInv'
<1>1. at = "edit" /\ 1 \in DOMAIN tasks /\ RowOK(tasks[1])
  BY DEF EditInv, FireMeanwhile
<1>2. PICK row : row = tasks[1]
  OBVIOUS
<1>3. PICK counted : counted = [row.rule EXCEPT !.runs = @ + 1]
  OBVIOUS
<1>4. tasks' = [tasks EXCEPT ![1] = ComputeNextFire(row, counted, row.next, request.now)]
  BY <1>2, <1>3 DEF FireMeanwhile, MarkFired
<1>5. 1 \in DOMAIN tasks' /\ tasks'[1] = ComputeNextFire(row, counted, row.next, request.now)
  BY <1>1, <1>4
<1>6. DOMAIN counted = DOMAIN row.rule /\ \A f \in DOMAIN row.rule \ DOMAIN NoLimits : counted[f] = row.rule[f]
  BY <1>3, Fields
<1>7. Plain(counted)
  BY <1>1, <1>2, <1>6, PlainStays DEF RowOK
<1>8. PICK written : written = tasks'[1]
  OBVIOUS
<1>9. /\ DOMAIN written = DOMAIN row /\ written.revision = row.revision + 1
      /\ DOMAIN written.rule = DOMAIN counted /\ \A f \in DOMAIN counted \ {"skips"} : written.rule[f] = counted[f]
  BY <1>1, <1>2, <1>5, <1>8, WriteLeaves DEF RowOK
<1>10. Plain(written.rule)
  BY <1>7, <1>9, PlainStays, Fields
<1>11. RowOK(tasks[1])'
  BY <1>1, <1>2, <1>8, <1>9, <1>10 DEF RowOK
<1>12. editor' = editor /\ input' = input
  BY DEF FireMeanwhile
<1>13. ASSUME editor # NoTimer
       PROVE  edit.by \in {"cli edit", "window"} /\ editor.revision \in Nat /\ editor.revision < written.revision
  <2>1. /\ edit.by \in {"cli edit", "window"} /\ editor.revision \in Nat
        /\ editor.revision <= tasks[1].revision
    BY <1>1, <1>13 DEF EditInv
  <2>2. row.revision \in Nat
    BY <1>1, <1>2 DEF RowOK
  <2>3. written.revision = row.revision + 1
    BY <1>9
  <2>4. editor.revision <= row.revision
    BY <1>2, <2>1
  <2>5. ASSUME NEW a \in Nat, NEW b \in Nat, a <= b PROVE a < b + 1
    BY <2>5
  <2>6. editor.revision < row.revision + 1
    BY <2>1, <2>2, <2>4, <2>5
  <2> QED BY <2>1, <2>3, <2>6
<1>14. ASSUME editor' # NoTimer
       PROVE  /\ edit'.by \in {"cli edit", "window"}
              /\ editor'.revision \in Nat /\ editor'.revision < tasks'[1].revision
  <2>1. edit' = edit /\ editor # NoTimer
    BY <1>12, <1>14 DEF edit, NoTimer
  <2> QED BY <1>8, <1>12, <1>13, <2>1
<1>15. tasks'[1].revision \in Nat
  BY <1>11 DEF RowOK
<1>16. editor' # NoTimer =>
           /\ edit'.by \in {"cli edit", "window"}
           /\ editor'.revision \in Nat /\ editor'.revision <= tasks'[1].revision
           /\ editor'.revision = tasks'[1].revision => editor'.rule = tasks'[1].rule
  <2>1. ASSUME NEW a \in Nat, NEW b \in Nat, a < b PROVE a <= b /\ a # b
    BY <2>1
  <2> QED BY <1>14, <1>15, <2>1
<1> QED BY <1>5, <1>11, <1>16 DEF EditInv, NoTimer

\* Only an editor that opens and a fire leave the store before the view; every other
\* step ends the edit.
LEMMA EditInvStep == ASSUME EditInv, [CalendarNext]_calendarVars PROVE EditInv'
<1>1. CASE OpenEditor
  <2>1. /\ at = "edit" /\ edit.by \in {"cli edit", "window"}
        /\ editor' = tasks[1] /\ tasks' = tasks /\ edit' = edit
    BY <1>1 DEF OpenEditor, edit
  <2>2. 1 \in DOMAIN tasks /\ RowOK(tasks[1])
    BY <2>1 DEF EditInv
  <2>3. editor'.revision \in Nat /\ editor'.revision = tasks'[1].revision /\ editor'.rule = tasks'[1].rule
    BY <2>1, <2>2 DEF RowOK
  <2>4. 1 \in DOMAIN tasks' /\ RowOK(tasks'[1])
    BY <2>1, <2>2
  <2>5. RowOK(tasks[1])'
    BY <2>4 DEF RowOK
  <2>6. edit'.by \in {"cli edit", "window"}
    BY <2>1
  <2>7. editor'.revision <= tasks'[1].revision
    BY <2>3
  <2> QED BY <2>3, <2>4, <2>5, <2>6, <2>7 DEF EditInv, NoTimer
<1>2. CASE FireMeanwhile
  BY <1>2, FireLeavesEditorBehind
<1>3. CASE UNCHANGED calendarVars
  BY <1>3 DEF calendarVars, EditInv, RowOK, edit
<1>4. CASE CalendarNext /\ ~OpenEditor /\ ~FireMeanwhile
  <2>1. at' # "edit"
    BY <1>4 DEF CalendarNext, SaveEdit, RefuseEdit, SlotModify, AddTimer, RefuseRequest, EditDone, Reject, StartTruth,
       StartSnapshot, TakeEvent, EventsRead, TakeClaim, Record, ProjectTask, EntriesFull, Finish
  <2> QED BY <2>1 DEF EditInv
<1> QED BY <1>1, <1>2, <1>3, <1>4

\* What the two editors send, for the row as it stands when it is saved.
LEMMA SavedIsMeant ==
    ASSUME EditInv, SaveEdit,
           NEW rule, rule = tasks[1].rule, NEW saved, saved = tasks'[1].rule
    PROVE  /\ "kind" \notin DOMAIN form =>
                  \A f \in (IF edit.by = "window" THEN DOMAIN WebTimer(rule) ELSE DOMAIN rule \ {"skips"}) \ DOMAIN form :
                      saved[f] = rule[f]
           /\ \A f \in DOMAIN form \cap Needs[saved.kind] : saved[f] = form[f]
<1>1. at = "edit" /\ editor # NoTimer /\ Accepted(editor) /\ editor.revision = tasks[1].revision
  BY DEF SaveEdit, IsCurrent
<1>2. /\ 1 \in DOMAIN tasks /\ RowOK(tasks[1]) /\ edit.by \in {"cli edit", "window"}
      /\ editor.rule = rule
  BY <1>1 DEF EditInv
<1>3. PICK row : row = tasks[1]
  OBVIOUS
<1>4. PICK new : new = Submitted(editor)
  OBVIOUS
<1>5. PICK written : written = tasks'[1]
  OBVIOUS
<1>6. tasks' = [tasks EXCEPT ![1] = ComputeNextFire(row, new, row.last, request.now)]
  BY <1>3, <1>4 DEF SaveEdit, UpdateRule
<1>7. written = ComputeNextFire(row, new, row.last, request.now)
  BY <1>2, <1>5, <1>6
<1>8. DOMAIN saved = DOMAIN new /\ \A f \in DOMAIN new \ {"skips"} : saved[f] = new[f]
  <2>1. /\ DOMAIN written.rule = DOMAIN new
        /\ \A f \in DOMAIN new \ {"skips"} : written.rule[f] = new[f]
    <3>1. {"rule", "revision"} \subseteq DOMAIN row
      BY <1>2, <1>3 DEF RowOK
    <3>2. PICK last, now : last = row.last /\ now = request.now
      OBVIOUS
    <3>3. written = ComputeNextFire(row, new, last, now)
      BY <1>7, <3>2
    <3> QED BY <3>1, <3>3, WriteLeaves
  <2> QED BY <1>5, <2>1
<1>9. Plain(rule)
  BY <1>2 DEF RowOK
<1>10. "kind" \in RuleFields /\ \A kind \in Kinds : Needs[kind] \subseteq RuleFields \ {"skips"}
  BY Fields
<1>11. CASE edit.by = "cli edit"
  <2>1. new = PatchOccurrence(rule, form)
    BY <1>2, <1>4, <1>11 DEF Submitted
  <2>2. /\ Plain(new) /\ new.kind = rule.kind
        /\ \A f \in RuleFields \ DOMAIN form : new[f] = rule[f]
        /\ \A f \in DOMAIN form \cap Needs[rule.kind] : new[f] = form[f]
    BY <1>9, <2>1, PatchKeepsTheRest
  <2>3. DOMAIN new = RuleFields /\ DOMAIN rule = RuleFields /\ rule.kind \in Kinds
    BY <1>9, <2>2 DEF Plain
  <2>4. saved["kind"] = new["kind"]
    BY <1>8, <1>10, <2>3
  <2>5. \A f \in DOMAIN form \cap Needs[saved.kind] : saved[f] = form[f]
    BY <1>8, <1>10, <2>2, <2>3, <2>4
  <2>6. \A f \in (DOMAIN rule \ {"skips"}) \ DOMAIN form : saved[f] = rule[f]
    BY <1>8, <2>2, <2>3
  <2> QED BY <1>11, <2>5, <2>6
<1>12. CASE edit.by = "window"
  <2>1. PICK dto : dto = Dialog(rule, form)
    OBVIOUS
  <2>2. new = IntoCoreOccurrence(dto, request.now)
    BY <1>2, <1>4, <1>12, <2>1 DEF Submitted
  <2>3. dto.kind \in Kinds
    BY <1>1, <1>2, <1>12, <2>1 DEF Accepted, IsSubmitted, IsFilled
  <2>4. /\ DOMAIN new = RuleFields /\ new.kind = dto.kind
        /\ "kind" \notin DOMAIN form =>
               \A f \in DOMAIN WebTimer(rule) \ DOMAIN form : f \in RuleFields \ {"skips"} /\ new[f] = rule[f]
        /\ \A f \in DOMAIN form \cap Needs[dto.kind] : new[f] = form[f]
    BY <1>9, <2>1, <2>2, <2>3, DialogKeepsTheRest
  <2>5. saved["kind"] = new["kind"]
    BY <1>8, <1>10, <2>4
  <2>6. \A f \in DOMAIN form \cap Needs[saved.kind] : saved[f] = form[f]
    BY <1>8, <1>10, <2>3, <2>4, <2>5
  <2>7. "kind" \notin DOMAIN form => \A f \in DOMAIN WebTimer(rule) \ DOMAIN form : saved[f] = rule[f]
    BY <1>8, <2>4
  <2> QED BY <1>12, <2>6, <2>7
<1> QED BY <1>2, <1>11, <1>12

\* bellman edit and the dialog of the window change what they were given, and
\* nothing else of the rule as it stands when the edit is saved.
THEOREM EditsAreFaithful == ASSUME EditableLists PROVE CalendarSpec => EditsKeepTheRest
<1>1. CalendarInit => EditInv
  BY EditInvInit
<1>2. EditInv /\ [CalendarNext]_calendarVars => EditInv'
  BY EditInvStep
<1>3. ASSUME EditInv, [CalendarNext]_calendarVars, at = "edit", at' = "start", editor # NoTimer, tasks' # tasks
      PROVE  LET rule == tasks[1].rule
                 kept == IF edit.by = "window" THEN DOMAIN WebTimer(rule) ELSE DOMAIN rule \ {"skips"}
             IN  /\ "kind" \in DOMAIN form \/ \A f \in kept \ DOMAIN form : tasks'[1].rule[f] = rule[f]
                 /\ \A f \in DOMAIN form \cap Needs[tasks'[1].rule.kind] : tasks'[1].rule[f] = form[f]
  <2>1. edit.by \in {"cli edit", "window"}
    BY <1>3 DEF EditInv
  <2>2. SaveEdit
    BY <1>3, <2>1 DEF CalendarNext, calendarVars, OpenEditor, RefuseEdit, SlotModify, AddTimer, RefuseRequest, FireMeanwhile, Reject,
       StartTruth, StartSnapshot, TakeEvent, EventsRead, TakeClaim, Record, ProjectTask, EntriesFull, Finish
  <2>3. PICK rule : rule = tasks[1].rule
    OBVIOUS
  <2>4. PICK saved : saved = tasks'[1].rule
    OBVIOUS
  <2>5. /\ "kind" \notin DOMAIN form =>
               \A f \in (IF edit.by = "window" THEN DOMAIN WebTimer(rule) ELSE DOMAIN rule \ {"skips"}) \ DOMAIN form :
                   saved[f] = rule[f]
        /\ \A f \in DOMAIN form \cap Needs[saved.kind] : saved[f] = form[f]
    BY <1>3, <2>2, <2>3, <2>4, SavedIsMeant
  <2> QED BY <2>3, <2>4, <2>5
<1> QED BY <1>1, <1>2, <1>3, PTL DEF CalendarSpec, EditsKeepTheRest
=============================================================================
