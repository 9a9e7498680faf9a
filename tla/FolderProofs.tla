---------------------------- MODULE FolderProofs ----------------------------
(***************************************************************************)
(* Properties of the timer folders for any timers, names, editors, crashes *)
(* and bounds: what a reconciliation that nobody disturbed leaves behind,   *)
(* and what the prune never takes.                                          *)
(***************************************************************************)
EXTENDS TimerFolders, TLAPS

Rows == [rev : Nat, at : Nat, until : Nat, on : BOOLEAN, fired : Nat, next : Nat]
Places == {"idle", "boot", "year", "view", "bootview"}
Thens == {"idle", "claim", "view", "bootview"}

Deletes == [step : {"delete", "remove"}, id : Ids]
Looks == [step : {"find", "allocate"}, id : Ids, row : Rows, at : Nat, then : Thens]
Writes == [step : {"write"}, id : Ids, row : Rows, at : Nat, then : Thens, path : Paths]
Firings == [step : {"fire", "claim", "mark"}, id : Ids, row : Rows, at : Nat]
Prunes == [step : {"prune"}, boot : BOOLEAN, since : Nat]
Dooms == [step : {"doomed", "unfold"}, id : Ids, boot : BOOLEAN, since : Nat]
Sweeps == [step : {"list", "sweep"}, boot : BOOLEAN]
Jobs == [step : Places] \cup Deletes \cup Looks \cup Writes \cup Firings \cup Prunes \cup Dooms \cup Sweeps

\* What a thread does is told by its step.
LEMMA JobShape ==
    ASSUME NEW j \in Jobs
    PROVE  /\ j.step \in Places => j \in [step : Places]
           /\ j.step \in {"delete", "remove"} => j \in Deletes
           /\ j.step \in {"find", "allocate"} => j \in Looks
           /\ j.step = "write" => j \in Writes
           /\ j.step \in {"fire", "claim", "mark"} => j \in Firings
           /\ j.step = "prune" => j \in Prunes
           /\ j.step \in {"doomed", "unfold"} => j \in Dooms
           /\ j.step \in {"list", "sweep"} => j \in Sweeps
BY DEF Jobs, Places, Deletes, Looks, Writes, Firings, Prunes, Dooms, Sweeps

\* A folder bears the short form of a timer's id or the whole of it.
Bears(path, t) == path[2] \in {t, Prefix[t]}

RowsTyped ==
    /\ now \in Nat
    /\ rows \in [Ids -> {Absent} \cup Rows]
    /\ runs \in [Ids -> Nat]
JobsTyped ==
    /\ job \in [Threads -> Jobs]
    /\ \A p \in Threads : job[p].step = "write" => Bears(job[p].path, job[p].id)
FoldersTyped ==
    /\ DOMAIN folders \subseteq Paths
    /\ \A path \in DOMAIN folders :
          folders[path] # Bare => folders[path].id \in Ids /\ Bears(path, folders[path].id)
Syncing(p) == job[p].step \in {"find", "allocate", "write"}
Reconciling == Syncing(Engine) /\ job[Engine].then \in {"view", "bootview"}
ListTyped ==
    /\ DOMAIN list \subseteq Ids /\ \A t \in DOMAIN list : list[t] \in Rows
    /\ job[Engine].step \in {"prune", "doomed", "unfold", "view", "bootview"} \/ Reconciling => todo \subseteq DOMAIN list
Typed == RowsTyped /\ JobsTyped /\ FoldersTyped /\ ListTyped

-----------------------------------------------------------------------------
(* What every step leaves well formed.                                     *)

LEMMA EngineIsThread == Engine \in Threads /\ Editors \subseteq Threads
BY DEF Threads

\* The next fire is written into a row that is typed without it, and nothing else of it changes.
LEMMA NextIsNat ==
    ASSUME NEW t \in Ids, NEW r \in Rows, NEW clock \in Nat
    PROVE  NextFire(t, r, clock) \in Nat
BY DEF NextFire, Rows, None

LEMMA RowIsRow ==
    ASSUME NEW t \in Ids, NEW at \in Nat, NEW until \in Nat, NEW fired \in Nat, NEW clock \in Nat
    PROVE  Row(t, at, until, fired, clock) \in Rows
<1> DEFINE r == [rev |-> 1, at |-> at, until |-> until, on |-> TRUE, fired |-> fired, next |-> None]
<1>1. r \in Rows
  BY DEF Rows, None
<1>2. NextFire(t, r, clock) \in Nat
  BY <1>1, NextIsNat
<1>3. Row(t, at, until, fired, clock) = [r EXCEPT !.next = NextFire(t, r, clock)]
  BY DEF Row
<1> HIDE DEF r
<1> QED BY <1>1, <1>2, <1>3 DEF Rows

LEMMA UpdatedIsRow ==
    ASSUME RowsTyped, NEW t \in Ids, NEW r \in Rows
    PROVE  /\ Updated(t, r) \in Rows
           /\ Updated(t, r).rev = r.rev + 1 /\ Updated(t, r).at = r.at /\ Updated(t, r).until = r.until
           /\ Updated(t, r).fired = r.fired /\ Updated(t, r).next = NextFire(t, r, now)
<1>1. NextFire(t, r, now) \in Nat
  BY NextIsNat DEF RowsTyped
<1>2. PICK n \in Nat : n = NextFire(t, r, now)
  BY <1>1
<1>3. Updated(t, r) = [r EXCEPT !.rev = r.rev + 1, !.next = n]
  BY <1>2 DEF Updated
<1>4. r.rev + 1 \in Nat
  BY DEF Rows
<1> QED BY <1>2, <1>3, <1>4 DEF Rows

LEMMA PastAreNats ==
    ASSUME NEW past \in [Ids -> Past], NEW t \in Ids
    PROVE  past[t].at \in Nat /\ past[t].until \in Nat /\ past[t].fired \in {0, 1}
BY PastAssumption, BoundsAssumption

LEMMA InitTyped == Init => Typed
<1> SUFFICES ASSUME Init PROVE Typed
  OBVIOUS
<1>1. RowsTyped
  <2>1. PICK old \in SUBSET Ids, past \in [Ids -> Past] :
          rows = [t \in Ids |-> IF t \in old THEN Row(t, past[t].at, past[t].until, past[t].fired, 0) ELSE Absent]
    BY DEF Init
  <2>2. ASSUME NEW t \in Ids PROVE Row(t, past[t].at, past[t].until, past[t].fired, 0) \in Rows
    <3>1. past[t].at \in Nat /\ past[t].until \in Nat /\ past[t].fired \in Nat
      BY PastAreNats
    <3> QED BY <3>1, RowIsRow
  <2>3. now = 1 /\ runs = [t \in Ids |-> 0]
    BY DEF Init
  <2> QED BY <2>1, <2>2, <2>3 DEF RowsTyped
<1>2. JobsTyped
  <2>1. [step |-> "boot"] \in Jobs /\ Idle \in Jobs
    BY DEF Jobs, Places, Idle
  <2>2. job = [p \in Threads |-> IF p = Engine THEN [step |-> "boot"] ELSE Idle]
    BY DEF Init
  <2>3. Idle.step # "write" /\ [step |-> "boot"].step # "write"
    BY DEF Idle
  <2> QED BY <2>1, <2>2, <2>3 DEF JobsTyped
<1>3. FoldersTyped /\ ListTyped
  BY EngineIsThread DEF Init, FoldersTyped, ListTyped, NoList, Reconciling, Syncing
<1> QED BY <1>1, <1>2, <1>3 DEF Typed

LEMMA LiveRows ==
    ASSUME RowsTyped, NEW t \in Ids, Present(t)
    PROVE  rows[t] \in Rows
BY DEF RowsTyped, Present

\* What a thread goes on with.
LEMMA JobMoves ==
    ASSUME JobsTyped, NEW p \in Threads, NEW j \in Jobs, job' = [job EXCEPT ![p] = j],
           j.step = "write" => Bears(j.path, j.id)
    PROVE  /\ JobsTyped' /\ job'[p] = j
           /\ \A q \in Threads \ {p} : job'[q] = job[q]
BY DEF JobsTyped, Bears

\* A row that is created, edited or marked is a row again.
LEMMA CreatedRow ==
    ASSUME Typed, NEW p \in Editors, NEW t \in Ids, CreateTimer(p, t)
    PROVE  \E at \in Nat, until \in Nat :
             /\ t \in Repeating \/ at > now
             /\ rows' = [rows EXCEPT ![t] = Row(t, at, until, None, now)]
             /\ Row(t, at, until, None, now) \in Rows
<1>1. PICK at \in Times, until \in {None} \cup Ends :
         /\ t \in Repeating \/ at > now
         /\ rows' = [rows EXCEPT ![t] = Row(t, at, until, None, now)]
  BY DEF CreateTimer
<1>2. at \in Nat /\ until \in Nat /\ None \in Nat /\ now \in Nat
  BY BoundsAssumption DEF Times, None, Typed, RowsTyped
<1> QED BY <1>1, <1>2, RowIsRow

\* An edit patches the switch, or the instant and perhaps the end of the validity.
LEMMA EditedRow ==
    ASSUME Typed, NEW p \in Editors, NEW t \in Ids, EditTimer(p, t)
    PROVE  \E r \in Rows :
             /\ rows' = [rows EXCEPT ![t] = Updated(t, r)] /\ Updated(t, r) \in Rows
             /\ r.rev = rows[t].rev /\ r.fired = rows[t].fired
             /\ \/ r.at = rows[t].at /\ r.until = rows[t].until
                \/ unseen' = unseen \cup {t}
<1>1. rows[t] \in Rows /\ RowsTyped
  BY LiveRows DEF EditTimer, Typed
<1>2. ASSUME NEW on \in BOOLEAN, rows' = [rows EXCEPT ![t] = Updated(t, [@ EXCEPT !.on = on])]
      PROVE  \E r \in Rows :
               /\ rows' = [rows EXCEPT ![t] = Updated(t, r)] /\ Updated(t, r) \in Rows
               /\ r.rev = rows[t].rev /\ r.fired = rows[t].fired
               /\ r.at = rows[t].at /\ r.until = rows[t].until
  <2>1. PICK r : r = [rows[t] EXCEPT !.on = on]
    OBVIOUS
  <2>2. r \in Rows /\ r.rev = rows[t].rev /\ r.fired = rows[t].fired /\ r.at = rows[t].at /\ r.until = rows[t].until
    BY <1>1, <2>1 DEF Rows
  <2>3. rows' = [rows EXCEPT ![t] = Updated(t, r)]
    BY <1>2, <2>1
  <2> QED BY <1>1, <2>2, <2>3, UpdatedIsRow
<1>3. ASSUME NEW at \in now + 1 .. MaxTime, NEW until \in {rows[t].until, None}, unseen' = unseen \cup {t},
             rows' = [rows EXCEPT ![t] = Updated(t, [@ EXCEPT !.at = at, !.until = until])]
      PROVE  \E r \in Rows :
               /\ rows' = [rows EXCEPT ![t] = Updated(t, r)] /\ Updated(t, r) \in Rows
               /\ r.rev = rows[t].rev /\ r.fired = rows[t].fired
               /\ unseen' = unseen \cup {t}
  <2>1. PICK r : r = [rows[t] EXCEPT !.at = at, !.until = until]
    OBVIOUS
  <2>2. at \in Nat /\ until \in Nat
    BY <1>1, BoundsAssumption DEF Rows, RowsTyped, None
  <2>3. r \in Rows /\ r.rev = rows[t].rev /\ r.fired = rows[t].fired
    BY <1>1, <2>1, <2>2 DEF Rows
  <2>4. rows' = [rows EXCEPT ![t] = Updated(t, r)]
    BY <1>3, <2>1
  <2> QED BY <1>1, <1>3, <2>3, <2>4, UpdatedIsRow
<1> QED BY <1>2, <1>3 DEF EditTimer

LEMMA RecalibratedRow ==
    ASSUME Typed, NEW t \in Ids, Recalibrate(t), Present(t) /\ rows[t].rev = list[t].rev
    PROVE  /\ rows[t] \in Rows /\ Updated(t, rows[t]) \in Rows
           /\ rows' = [rows EXCEPT ![t] = Updated(t, rows[t])]
<1>1. rows[t] \in Rows
  BY LiveRows DEF Typed
<1>2. rows' = [rows EXCEPT ![t] = Updated(t, rows[t])]
  BY DEF Recalibrate
<1> QED BY <1>1, <1>2, UpdatedIsRow DEF Typed

\* The row a thread may mark as fired.
Marks(p) == Present(job[p].id) /\ (p = Engine \/ rows[job[p].id].rev = job[p].row.rev)

LEMMA MarkedRow ==
    ASSUME Typed, NEW p \in Threads, MarkFired(p), Marks(p)
    PROVE  LET t == job[p].id
           IN  /\ t \in Ids /\ job[p].at \in Nat
               /\ \E r \in Rows :
                     /\ rows' = [rows EXCEPT ![t] = Updated(t, r)] /\ Updated(t, r) \in Rows
                     /\ r.rev = rows[t].rev /\ r.fired = job[p].at
                     /\ r.at = rows[t].at /\ r.until = rows[t].until
<1> DEFINE t == job[p].id
<1>1. job[p] \in Firings
  BY JobShape DEF MarkFired, Doing, Typed, JobsTyped
<1>2. t \in Ids /\ job[p].at \in Nat
  BY <1>1 DEF Firings
<1>3. rows[t] \in Rows
  BY <1>2, LiveRows DEF Typed, Marks
<1>4. PICK r : r = [rows[t] EXCEPT !.fired = job[p].at]
  OBVIOUS
<1>5. r \in Rows /\ r.rev = rows[t].rev /\ r.fired = job[p].at /\ r.at = rows[t].at /\ r.until = rows[t].until
  BY <1>2, <1>3, <1>4 DEF Rows
<1>6. rows' = [rows EXCEPT ![t] = Updated(t, r)]
  BY <1>4 DEF MarkFired, Marks
<1>7. Updated(t, r) \in Rows
  BY <1>2, <1>5, UpdatedIsRow DEF Typed
<1> HIDE DEF t
<1> QED BY <1>2, <1>5, <1>6, <1>7 DEF t

LEMMA RowsStep ==
    ASSUME Typed, [Next]_vars
    PROVE  RowsTyped'
<1> USE EngineIsThread DEF Typed
<1>1. ASSUME NEW t \in Ids, NEW r \in {Absent} \cup Rows, rows' = [rows EXCEPT ![t] = r],
             UNCHANGED <<now, runs>>
      PROVE  RowsTyped'
  BY <1>1 DEF RowsTyped
<1>2. ASSUME UNCHANGED <<now, rows, runs>> PROVE RowsTyped'
  BY <1>2 DEF RowsTyped
<1>3. ASSUME NEW p \in Editors, NEW t \in Ids, CreateTimer(p, t) PROVE RowsTyped'
  BY <1>1, <1>3, CreatedRow DEF CreateTimer
<1>4. ASSUME NEW p \in Editors, NEW t \in Ids, EditTimer(p, t) PROVE RowsTyped'
  BY <1>1, <1>4, EditedRow DEF EditTimer
<1>5. ASSUME NEW p \in Editors, DeleteTimerLifecycle(p) PROVE RowsTyped'
  BY <1>5 DEF DeleteTimerLifecycle, RowsTyped
<1>6. ASSUME NEW p \in Threads, ClaimRun(p) PROVE RowsTyped'
  BY <1>6 DEF ClaimRun, RowsTyped
<1>7. ASSUME NEW p \in Threads, MarkFired(p) PROVE RowsTyped'
  <2>1. CASE Marks(p)
    BY <1>1, <1>7, <2>1, MarkedRow DEF MarkFired
  <2>2. CASE ~Marks(p)
    BY <1>2, <1>7, <2>2 DEF MarkFired, Marks
  <2> QED BY <2>1, <2>2
<1>8. CASE DeletePruned
  BY <1>8 DEF DeletePruned, RowsTyped
<1>9. ASSUME NEW t \in Ids, Recalibrate(t) PROVE RowsTyped'
  <2>1. CASE Present(t) /\ rows[t].rev = list[t].rev
    BY <1>1, <1>9, <2>1, RecalibratedRow DEF Recalibrate
  <2>2. CASE ~(Present(t) /\ rows[t].rev = list[t].rev)
    BY <1>2, <1>9, <2>2 DEF Recalibrate
  <2> QED BY <2>1, <2>2
<1>10. ASSUME NEW t \in Ids, FinishRun(t) PROVE RowsTyped'
  BY <1>10 DEF FinishRun, RowsTyped
<1>11. CASE Tick
  BY <1>11 DEF Tick, dbVars, RowsTyped
<1>12. ASSUME NEW p \in Threads,
              FindFolder(p) \/ AllocateFolder(p) \/ WriteTimerJson(p) \/ ProjectFire(p) \/ Crash(p)
       PROVE  RowsTyped'
  BY <1>2, <1>12 DEF FindFolder, AllocateFolder, WriteTimerJson, ProjectFire, Crash, dbVars
<1>13. ASSUME NEW p \in Editors, RemoveFolder(p) \/ \E t \in Ids : ResolveDelete(p, t) \/ RunNow(p, t)
       PROVE  RowsTyped'
  BY <1>2, <1>13 DEF RemoveFolder, ResolveDelete, RunNow, dbVars
<1>14. ASSUME NEW t \in Ids, TickTimer(t) \/ PruneTimer(t) \/ ReconcileFolder(t) PROVE RowsTyped'
  BY <1>2, <1>14 DEF TickTimer, PruneTimer, ReconcileFolder, dbVars
<1>15. CASE StartPrune \/ UnfoldPruned \/ ListLive \/ StartSweep \/ StartReconcile
            \/ SetLastPrune \/ StartYear \/ SetLastRecalibration \/ Booted
  BY <1>2, <1>15 DEF StartPrune, UnfoldPruned, ListLive, StartSweep, StartReconcile,
                     SetLastPrune, StartYear, SetLastRecalibration, Booted, dbVars
<1>16. ASSUME NEW path \in Paths, SweepFolder(path) PROVE RowsTyped'
  BY <1>2, <1>16 DEF SweepFolder, dbVars
<1>17. CASE UNCHANGED vars
  BY <1>2, <1>17 DEF vars, dbVars
<1> QED BY <1>3, <1>4, <1>5, <1>6, <1>7, <1>8, <1>9, <1>10, <1>11, <1>12, <1>13, <1>14, <1>15, <1>16, <1>17
        DEF Next

\* The record a thread syncs a folder for.
LEMMA SyncIsLook ==
    ASSUME NEW t \in Ids, NEW row \in Rows, NEW at \in Nat, NEW then \in Thens
    PROVE  /\ Sync(t, row, at, then) \in Jobs /\ Sync(t, row, at, then).step = "find"
           /\ [Sync(t, row, at, then) EXCEPT !.step = "allocate"] \in Jobs
           /\ [Sync(t, row, at, then) EXCEPT !.step = "allocate"].step = "allocate"
BY DEF Sync, Jobs, Looks

LEMMA PlacesAreJobs == \A s \in Places : [step |-> s] \in Jobs /\ [step |-> s].step # "write"
BY DEF Jobs, Places

LEMMA AllocatableIsOwn ==
    ASSUME NEW t \in Ids
    PROVE  Allocatable(t) \in Paths /\ Bears(Allocatable(t), t)
BY DEF Allocatable, Paths, Bears

LEMMA OursBear ==
    ASSUME FoldersTyped, NEW t \in Ids, NEW path \in Ours(t)
    PROVE  path \in Paths /\ path \in DOMAIN folders /\ Bears(path, t)
BY DEF Ours, Candidates, Bears, FoldersTyped

LEMMA SyncSteps ==
    ASSUME Typed, NEW p \in Threads, FindFolder(p) \/ AllocateFolder(p) \/ WriteTimerJson(p)
    PROVE  JobsTyped'
<1> DEFINE j == job[p]
<1> USE DEF Typed
<1>1. CASE FindFolder(p)
  <2>1. j \in Looks
    BY <1>1, JobShape DEF FindFolder, Doing, JobsTyped
  <2>2. CASE Become(p, [j EXCEPT !.step = "allocate"])
    <3>1. [j EXCEPT !.step = "allocate"] \in Jobs /\ [j EXCEPT !.step = "allocate"].step # "write"
      BY <2>1 DEF Jobs, Looks
    <3> QED BY <2>2, <3>1, JobMoves DEF Become
  <2>3. ASSUME NEW path \in Ours(j.id),
               Become(p, ToWrite(p, path))
        PROVE  JobsTyped'
    <3>1. j.id \in Ids /\ j.row \in Rows /\ j.at \in Nat /\ j.then \in Thens
      BY <2>1 DEF Looks
    <3>2. path \in Paths /\ Bears(path, j.id)
      BY <2>3, <3>1, OursBear
    <3>3. [step |-> "write", id |-> j.id, row |-> j.row, at |-> j.at, then |-> j.then, path |-> path] \in Jobs
      BY <3>1, <3>2 DEF Jobs, Writes
    <3> QED BY <2>3, <3>2, <3>3, JobMoves DEF Become, ToWrite
  <2> QED BY <1>1, <2>2, <2>3 DEF FindFolder
<1>2. CASE AllocateFolder(p)
  <2> DEFINE path == Allocatable(j.id)
  <2>1. j \in Looks
    BY <1>2, JobShape DEF AllocateFolder, Doing, JobsTyped
  <2>2. j.id \in Ids /\ j.row \in Rows /\ j.at \in Nat /\ j.then \in Thens
    BY <2>1 DEF Looks
  <2>3. path \in Paths /\ Bears(path, j.id)
    BY <2>2, AllocatableIsOwn
  <2>4. job' = [job EXCEPT ![p] = [step |-> "write", id |-> j.id, row |-> j.row, at |-> j.at, then |-> j.then, path |-> path]]
    BY <1>2 DEF AllocateFolder, Become, ToWrite
  <2> HIDE DEF path
  <2>5. [step |-> "write", id |-> j.id, row |-> j.row, at |-> j.at, then |-> j.then, path |-> path] \in Jobs
    BY <2>2, <2>3 DEF Jobs, Writes
  <2> QED BY <2>3, <2>4, <2>5, JobMoves
<1>3. CASE WriteTimerJson(p)
  <2>1. j \in Writes
    BY <1>3, JobShape DEF WriteTimerJson, Doing, JobsTyped
  <2>2. j.id \in Ids /\ j.row \in Rows /\ j.at \in Nat /\ j.then \in Thens
    BY <2>1 DEF Writes
  <2>3. CASE j.then = "claim"
    <3>1. [step |-> "claim", id |-> j.id, row |-> j.row, at |-> j.at] \in Jobs
      BY <2>2 DEF Jobs, Firings
    <3> QED BY <1>3, <2>3, <3>1, JobMoves DEF WriteTimerJson, Become
  <2>4. CASE j.then # "claim"
    <3>1. j.then \in Places
      BY <2>2, <2>4 DEF Thens, Places
    <3> QED BY <1>3, <2>4, <3>1, PlacesAreJobs, JobMoves DEF WriteTimerJson, Become
  <2> QED BY <2>3, <2>4
<1> QED BY <1>1, <1>2, <1>3

LEMMA JobsStep ==
    ASSUME Typed, [Next]_vars
    PROVE  JobsTyped'
<1> USE EngineIsThread
<1>0. JobsTyped
  BY DEF Typed
<1>1. ASSUME NEW p \in Threads, NEW j \in Jobs, Become(p, j), j.step # "write" PROVE JobsTyped'
  BY <1>0, <1>1, JobMoves DEF Become
<1>2. ASSUME UNCHANGED job PROVE JobsTyped'
  BY <1>0, <1>2 DEF JobsTyped, Bears
<1>3. ASSUME NEW p \in Threads, NEW s \in Places, Become(p, [step |-> s]) PROVE JobsTyped'
  BY <1>1, <1>3, PlacesAreJobs
<1>4. ASSUME NEW t \in Ids, NEW r \in Rows, rows' = [rows EXCEPT ![t] = r] PROVE rows'[t] \in Rows
  BY <1>4 DEF Typed, RowsTyped
<1>5. ASSUME NEW p \in Threads, FindFolder(p) \/ AllocateFolder(p) \/ WriteTimerJson(p) PROVE JobsTyped'
  BY <1>5, SyncSteps
<1>6. ASSUME NEW p \in Threads, Crash(p) PROVE JobsTyped'
  <2>1. "boot" \in Places /\ "idle" \in Places
    BY DEF Places
  <2> QED BY <1>3, <1>6, <2>1 DEF Crash, Idle
<1>7. ASSUME NEW p \in Editors, NEW t \in Ids, CreateTimer(p, t) PROVE JobsTyped'
  <2>1. rows'[t] \in Rows /\ "idle" \in Thens /\ None \in Nat
    BY <1>4, <1>7, CreatedRow DEF Thens, None
  <2> QED BY <1>1, <1>7, <2>1, SyncIsLook DEF CreateTimer
<1>8. ASSUME NEW p \in Editors, NEW t \in Ids, EditTimer(p, t) PROVE JobsTyped'
  <2>1. rows'[t] \in Rows /\ "idle" \in Thens /\ None \in Nat
    BY <1>4, <1>8, EditedRow DEF Thens, None
  <2> QED BY <1>1, <1>8, <2>1, SyncIsLook DEF EditTimer
<1>9. ASSUME NEW p \in Editors, NEW t \in Ids, ResolveDelete(p, t) PROVE JobsTyped'
  <2>1. [step |-> "delete", id |-> t] \in Jobs
    BY DEF Jobs, Deletes
  <2> QED BY <1>1, <1>9, <2>1 DEF ResolveDelete
<1>10. ASSUME NEW p \in Editors, DeleteTimerLifecycle(p) \/ RemoveFolder(p) PROVE JobsTyped'
  <2>1. "idle" \in Places
    BY DEF Places
  <2>2. CASE DeleteTimerLifecycle(p) /\ Become(p, [job[p] EXCEPT !.step = "remove"])
    <3>1. job[p] \in Deletes
      BY <1>0, <2>2, JobShape DEF DeleteTimerLifecycle, Doing, JobsTyped
    <3>2. [job[p] EXCEPT !.step = "remove"] \in Jobs /\ [job[p] EXCEPT !.step = "remove"].step # "write"
      BY <3>1 DEF Jobs, Deletes
    <3> QED BY <1>1, <2>2, <3>2
  <2>3. CASE Become(p, Idle)
    BY <1>3, <2>1, <2>3 DEF Idle
  <2> QED BY <1>10, <2>2, <2>3 DEF DeleteTimerLifecycle, RemoveFolder
<1>11. ASSUME NEW t \in Ids, NEW p \in Threads, TickTimer(t) \/ RunNow(p, t) PROVE JobsTyped'
  <2>1. rows[t] \in Rows /\ rows[t].next \in Nat /\ now \in Nat
    BY <1>11, LiveRows DEF TickTimer, Due, RunNow, Typed, Rows, RowsTyped
  <2>2. \A at \in Nat : [step |-> "fire", id |-> t, row |-> rows[t], at |-> at] \in Jobs
    BY <2>1 DEF Jobs, Firings
  <2> QED BY <1>1, <1>11, <2>1, <2>2 DEF TickTimer, RunNow
<1>12. ASSUME NEW p \in Threads, ProjectFire(p) PROVE JobsTyped'
  <2>1. job[p] \in Firings
    BY <1>0, <1>12, JobShape DEF ProjectFire, Doing, JobsTyped
  <2>2. job[p].id \in Ids /\ job[p].row \in Rows /\ job[p].at \in Nat /\ "claim" \in Thens
    BY <2>1 DEF Firings, Thens
  <2> QED BY <1>1, <1>12, <2>2, SyncIsLook DEF ProjectFire
<1>13. ASSUME NEW p \in Threads, ClaimRun(p) PROVE JobsTyped'
  <2>1. job[p] \in Firings
    BY <1>0, <1>13, JobShape DEF ClaimRun, Doing, JobsTyped
  <2>2. [job[p] EXCEPT !.step = "mark"] \in Jobs /\ [job[p] EXCEPT !.step = "mark"].step # "write"
    BY <2>1 DEF Jobs, Firings
  <2> QED BY <1>1, <1>13, <2>2 DEF ClaimRun
<1>14. ASSUME NEW p \in Threads, MarkFired(p) PROVE JobsTyped'
  <2>1. CASE Marks(p)
    <3>1. job[p].id \in Ids /\ rows'[job[p].id] \in Rows /\ "idle" \in Thens /\ None \in Nat
      BY <1>4, <1>14, <2>1, MarkedRow DEF Thens, None
    <3> QED BY <1>1, <1>14, <2>1, <3>1, SyncIsLook DEF MarkFired, Marks
  <2>2. CASE ~Marks(p)
    <3>1. "idle" \in Places
      BY DEF Places
    <3> QED BY <1>3, <1>14, <2>2, <3>1 DEF MarkFired, Marks, Idle
  <2> QED BY <2>1, <2>2
<1>15. CASE StartPrune
  <2>1. [step |-> "prune", boot |-> Doing(Engine, "boot"), since |-> now] \in Jobs
    BY DEF Jobs, Prunes, Doing, Typed, RowsTyped
  <2> QED BY <1>1, <1>15, <2>1 DEF StartPrune
<1>16. CASE UnfoldPruned \/ DeletePruned
  <2>1. job[Engine] \in Dooms
    BY <1>0, <1>16, JobShape DEF UnfoldPruned, DeletePruned, Doing, JobsTyped
  <2>2. Pass("prune") \in Jobs /\ Pass("prune").step # "write"
    BY <2>1 DEF Pass, Jobs, Prunes, Dooms
  <2>3. PassOn("unfold", job[Engine].id) \in Jobs /\ PassOn("unfold", job[Engine].id).step # "write"
    BY <2>1 DEF PassOn, Jobs, Dooms
  <2>4. CASE UnfoldPruned
    BY <1>1, <2>2, <2>4 DEF UnfoldPruned
  <2>5. CASE DeletePruned
    <3>1. Become(Engine, PassOn("unfold", job[Engine].id)) \/ Become(Engine, Pass("prune"))
      BY <2>5 DEF DeletePruned
    <3> QED BY <1>1, <2>2, <2>3, <3>1
  <2> QED BY <1>16, <2>4, <2>5
<1>17. ASSUME NEW t \in Ids, PruneTimer(t) PROVE JobsTyped'
  <2>1. job[Engine] \in Prunes
    BY <1>0, <1>17, JobShape DEF PruneTimer, Doing, JobsTyped
  <2>2. PassOn("doomed", t) \in Jobs /\ PassOn("doomed", t).step # "write"
    BY <2>1 DEF PassOn, Jobs, Prunes, Dooms
  <2>3. Become(Engine, PassOn("doomed", t)) \/ UNCHANGED job
    BY <1>17 DEF PruneTimer
  <2> QED BY <1>1, <1>2, <2>2, <2>3
<1>18. CASE ListLive \/ StartSweep
  <2>1. job[Engine].boot \in BOOLEAN
    BY <1>0, <1>18, JobShape DEF ListLive, StartSweep, Doing, JobsTyped, Prunes, Sweeps
  <2>2. CASE ListLive
    <3>1. [step |-> "list", boot |-> job[Engine].boot] \in Jobs
      BY <2>1 DEF Jobs, Sweeps
    <3> QED BY <1>1, <2>2, <3>1 DEF ListLive
  <2>3. CASE StartSweep
    <3>1. job[Engine] \in Sweeps
      BY <1>0, <2>3, JobShape DEF StartSweep, Doing, JobsTyped
    <3>2. [job[Engine] EXCEPT !.step = "sweep"] \in Jobs /\ [job[Engine] EXCEPT !.step = "sweep"].step # "write"
      BY <3>1 DEF Jobs, Sweeps
    <3> QED BY <1>1, <2>3, <3>2 DEF StartSweep
  <2> QED BY <1>18, <2>2, <2>3
<1>19. CASE StartReconcile
  <2>1. "view" \in Places /\ "bootview" \in Places
    BY DEF Places
  <2> QED BY <1>3, <1>19, <2>1 DEF StartReconcile
<1>20. ASSUME NEW t \in Ids, ReconcileFolder(t) PROVE JobsTyped'
  <2>1. job[Engine].step \in {"view", "bootview"} /\ job[Engine].step \in Thens
    BY <1>20 DEF ReconcileFolder, View, Doing, Thens
  <2>2. list[t] \in Rows /\ None \in Nat
    BY <1>20, <2>1 DEF ReconcileFolder, Typed, ListTyped, None
  <2> QED BY <1>1, <1>20, <2>1, <2>2, SyncIsLook DEF ReconcileFolder
<1>21. CASE SetLastPrune \/ SetLastRecalibration \/ Booted \/ StartYear
  <2>1. "boot" \in Places /\ "idle" \in Places /\ "year" \in Places
    BY DEF Places
  <2> QED BY <1>3, <1>21, <2>1 DEF SetLastPrune, SetLastRecalibration, Booted, StartYear, Idle
<1>22. ASSUME NEW t \in Ids, Recalibrate(t) PROVE JobsTyped'
  <2>1. "idle" \in Places
    BY DEF Places
  <2> QED BY <1>2, <1>3, <1>22, <2>1 DEF Recalibrate, Idle
<1>23. ASSUME NEW path \in Paths, SweepFolder(path) PROVE JobsTyped'
  BY <1>2, <1>23 DEF SweepFolder
<1>24. ASSUME NEW t \in Ids, FinishRun(t) PROVE JobsTyped'
  BY <1>2, <1>24 DEF FinishRun
<1>25. CASE Tick \/ UNCHANGED vars
  BY <1>2, <1>25 DEF Tick, vars
<1> QED BY <1>5, <1>6, <1>7, <1>8, <1>9, <1>10, <1>11, <1>12, <1>13, <1>14, <1>15, <1>16, <1>17, <1>18,
           <1>19, <1>20, <1>21, <1>22, <1>23, <1>24, <1>25
        DEF Next

LEMMA FoldersStep ==
    ASSUME Typed, [Next]_vars
    PROVE  FoldersTyped'
<1>0. FoldersTyped
  BY DEF Typed
<1>1. ASSUME UNCHANGED folders PROVE FoldersTyped'
  BY <1>0, <1>1 DEF FoldersTyped, Bears
<1>2. ASSUME NEW paths, folders' = Without(paths) PROVE FoldersTyped'
  BY <1>0, <1>2 DEF FoldersTyped, Bears, Without
<1>4. ASSUME NEW p \in Threads, AllocateFolder(p) PROVE FoldersTyped'
  <2> DEFINE path == Allocatable(job[p].id)
  <2>1. job[p] \in Looks
    BY <1>4, JobShape DEF AllocateFolder, Doing, Typed, JobsTyped
  <2>2. path \in Paths
    BY <2>1, AllocatableIsOwn DEF Looks
  <2>3. folders' = IF path \in DOMAIN folders THEN folders ELSE With(path, Bare)
    BY <1>4 DEF AllocateFolder
  <2> HIDE DEF path
  <2> QED BY <1>0, <2>2, <2>3 DEF FoldersTyped, Bears, With
<1>5. ASSUME NEW p \in Threads, WriteTimerJson(p) PROVE FoldersTyped'
  <2>1. job[p] \in Writes
    BY <1>5, JobShape DEF WriteTimerJson, Doing, Typed, JobsTyped
  <2>2. job[p].id \in Ids /\ job[p].path \in Paths /\ Bears(job[p].path, job[p].id)
    BY <1>5, <2>1 DEF Writes, WriteTimerJson, Doing, Typed, JobsTyped
  <2>3. folders' = With(job[p].path, [id |-> job[p].id, rev |-> job[p].row.rev])
    BY <1>5 DEF WriteTimerJson
  <2> QED BY <1>0, <2>2, <2>3 DEF FoldersTyped, Bears, With
<1>6. ASSUME NEW p \in Editors, RemoveFolder(p) PROVE FoldersTyped'
  BY <1>1, <1>2, <1>6 DEF RemoveFolder, Removed
<1>7. CASE UnfoldPruned
  BY <1>1, <1>2, <1>7 DEF UnfoldPruned, Removed
<1>8. ASSUME NEW path \in Paths, SweepFolder(path) PROVE FoldersTyped'
  BY <1>1, <1>2, <1>8 DEF SweepFolder
<1>9. ASSUME \/ UNCHANGED folders
             \/ \E p \in Threads : AllocateFolder(p) \/ WriteTimerJson(p)
             \/ \E p \in Editors : RemoveFolder(p)
             \/ UnfoldPruned
             \/ \E path \in Paths : SweepFolder(path)
      PROVE  FoldersTyped'
  BY <1>1, <1>4, <1>5, <1>6, <1>7, <1>8, <1>9
<1>10. ASSUME NEW p \in Threads, FindFolder(p) \/ Crash(p) PROVE UNCHANGED folders
  BY <1>10 DEF FindFolder, Crash
<1>11. ASSUME NEW p \in Editors, NEW t \in Ids,
              CreateTimer(p, t) \/ EditTimer(p, t) \/ RunNow(p, t) \/ ResolveDelete(p, t)
       PROVE  UNCHANGED folders
  BY <1>11 DEF CreateTimer, EditTimer, RunNow, ResolveDelete
<1>12. ASSUME NEW p \in Editors, DeleteTimerLifecycle(p) PROVE UNCHANGED folders
  BY <1>12 DEF DeleteTimerLifecycle
<1>13. ASSUME NEW t \in Ids, \/ TickTimer(t) \/ FinishRun(t) \/ PruneTimer(t) \/ ReconcileFolder(t)
                             \/ Recalibrate(t)
       PROVE  UNCHANGED folders
  BY <1>13 DEF TickTimer, FinishRun, PruneTimer, ReconcileFolder, Recalibrate
<1>14. ASSUME \/ StartPrune \/ DeletePruned \/ ListLive \/ StartSweep \/ StartReconcile
              \/ SetLastPrune \/ StartYear \/ SetLastRecalibration \/ Booted \/ Tick \/ UNCHANGED vars
       PROVE  UNCHANGED folders
  BY <1>14 DEF StartPrune, DeletePruned, ListLive, StartSweep, StartReconcile,
               SetLastPrune, StartYear, SetLastRecalibration, Booted, Tick, vars
<1>15. ASSUME NEW p \in Threads, ProjectFire(p) \/ ClaimRun(p) \/ MarkFired(p) PROVE UNCHANGED folders
  BY <1>15 DEF ProjectFire, ClaimRun, MarkFired
<1> QED BY <1>9, <1>10, <1>11, <1>12, <1>13, <1>14, <1>15 DEF Next

\* What an editor does.
EditorSteps(p) ==
    \/ FindFolder(p) \/ AllocateFolder(p) \/ WriteTimerJson(p) \/ Crash(p)
    \/ ProjectFire(p) \/ ClaimRun(p) \/ MarkFired(p)
    \/ DeleteTimerLifecycle(p) \/ RemoveFolder(p)
    \/ \E t \in Ids : CreateTimer(p, t) \/ EditTimer(p, t) \/ RunNow(p, t) \/ ResolveDelete(p, t)

\* It leaves the engine's job, its list and its way alone.
LEMMA OthersLeavePass ==
    ASSUME JobsTyped, NEW p \in Editors, EditorSteps(p)
    PROVE  UNCHANGED <<list, todo>> /\ job'[Engine] = job[Engine] /\ ((\E j : job' = [job EXCEPT ![p] = j]) \/ job' = job)
<1>1. p # Engine /\ Engine \in Threads
  BY ThreadsAssumption, EngineIsThread
<1>2. UNCHANGED <<list, todo>>
  BY <1>1 DEF EditorSteps, FindFolder, AllocateFolder, WriteTimerJson, Crash, ProjectFire, ClaimRun, MarkFired,
              DeleteTimerLifecycle, RemoveFolder, CreateTimer, EditTimer, RunNow, ResolveDelete, passVars
<1>3. (\E j : job' = [job EXCEPT ![p] = j]) \/ job' = job
  BY DEF EditorSteps, FindFolder, AllocateFolder, WriteTimerJson, Crash, ProjectFire, ClaimRun, MarkFired,
         DeleteTimerLifecycle, RemoveFolder, CreateTimer, EditTimer, RunNow, ResolveDelete, Become
<1> QED BY <1>1, <1>2, <1>3 DEF JobsTyped

\* A folder is looked for, made and written for one timer.
SameTables == UNCHANGED <<now, rows, unborn, runs, list, todo, unseen>>
LEMMA FindMoves ==
    ASSUME Typed, NEW p \in Threads, FindFolder(p)
    PROVE  /\ job[p] \in Looks /\ job[p].step = "find" /\ SameTables /\ UNCHANGED folders
           /\ job'[p].id = job[p].id /\ job'[p].row = job[p].row /\ job'[p].then = job[p].then
           /\ job'[p].at = job[p].at
           /\ job'[p].step = "allocate" \/ (job'[p].step = "write" /\ job'[p].path \in Ours(job[p].id))
           /\ \A q \in Threads \ {p} : job'[q] = job[q]
<1> DEFINE j == job[p]
<1>1. j \in Looks /\ j.step = "find"
  BY JobShape DEF FindFolder, Doing, Typed, JobsTyped
<1>2. SameTables /\ UNCHANGED folders
  BY DEF FindFolder, dbVars, passVars, SameTables
<1>3. ASSUME NEW k, Become(p, k) PROVE job'[p] = k
  BY <1>3 DEF Become, Typed, JobsTyped
<1>4. ASSUME Become(p, [j EXCEPT !.step = "allocate"])
      PROVE  /\ job'[p].id = j.id /\ job'[p].row = j.row /\ job'[p].then = j.then /\ job'[p].at = j.at
             /\ job'[p].step = "allocate"
  <2>1. PICK k : k = [j EXCEPT !.step = "allocate"]
    OBVIOUS
  <2>2. k.step = "allocate" /\ k.id = j.id /\ k.row = j.row /\ k.then = j.then /\ k.at = j.at
    BY <1>1, <2>1 DEF Looks
  <2>3. job'[p] = k
    BY <1>3, <1>4, <2>1
  <2> QED BY <2>2, <2>3
<1>5. ASSUME NEW path \in Ours(j.id), Become(p, ToWrite(p, path))
      PROVE  /\ job'[p].id = j.id /\ job'[p].row = j.row /\ job'[p].then = j.then /\ job'[p].at = j.at
             /\ job'[p].step = "write" /\ job'[p].path \in Ours(j.id)
  BY <1>3, <1>5 DEF ToWrite
<1>6. \A q \in Threads \ {p} : job'[q] = job[q]
  BY DEF FindFolder, Become, Typed, JobsTyped
<1> QED BY <1>1, <1>2, <1>4, <1>5, <1>6 DEF FindFolder

LEMMA AllocateMoves ==
    ASSUME Typed, NEW p \in Threads, AllocateFolder(p)
    PROVE  /\ job[p] \in Looks /\ job[p].step = "allocate" /\ SameTables
           /\ job'[p].id = job[p].id /\ job'[p].row = job[p].row /\ job'[p].then = job[p].then
           /\ job'[p].at = job[p].at
           /\ job'[p].step = "write" /\ job'[p].path = Allocatable(job[p].id)
           /\ folders' = IF Allocatable(job[p].id) \in DOMAIN folders THEN folders
                         ELSE With(Allocatable(job[p].id), Bare)
           /\ \A q \in Threads \ {p} : job'[q] = job[q]
<1> DEFINE j == job[p]
           path == Allocatable(j.id)
<1>1. j \in Looks /\ j.step = "allocate"
  BY JobShape DEF AllocateFolder, Doing, Typed, JobsTyped
<1>2. SameTables
  BY DEF AllocateFolder, dbVars, passVars, SameTables
<1>3. /\ job'[p] = [step |-> "write", id |-> j.id, row |-> j.row, at |-> j.at, then |-> j.then, path |-> path]
      /\ folders' = IF path \in DOMAIN folders THEN folders ELSE With(path, Bare)
      /\ \A q \in Threads \ {p} : job'[q] = job[q]
  BY DEF AllocateFolder, Become, ToWrite, Typed, JobsTyped
<1> HIDE DEF path
<1> QED BY <1>1, <1>2, <1>3 DEF path

LEMMA WriteMoves ==
    ASSUME Typed, NEW p \in Threads, WriteTimerJson(p)
    PROVE  /\ job[p].step = "write" /\ job[p].id \in Ids /\ job[p].row \in Rows /\ job[p].then \in Thens
           /\ job[p].path \in Paths /\ SameTables
           /\ folders' = With(job[p].path, [id |-> job[p].id, rev |-> job[p].row.rev])
           /\ \/ /\ job[p].then = "claim" /\ job'[p].step = "claim" /\ job'[p].at = job[p].at
                 /\ job'[p].id = job[p].id /\ job'[p].row = job[p].row
              \/ job[p].then # "claim" /\ job'[p].step = job[p].then
           /\ \A q \in Threads \ {p} : job'[q] = job[q]
<1>1. /\ job[p].step = "write" /\ job[p].id \in Ids /\ job[p].row \in Rows /\ job[p].then \in Thens
      /\ job[p].path \in Paths
  BY JobShape DEF WriteTimerJson, Doing, Typed, JobsTyped, Writes
<1>2. SameTables
  BY DEF WriteTimerJson, dbVars, passVars, SameTables
<1>3. folders' = With(job[p].path, [id |-> job[p].id, rev |-> job[p].row.rev])
  BY DEF WriteTimerJson
<1>4. job'[p] = IF job[p].then = "claim"
                THEN [step |-> "claim", id |-> job[p].id, row |-> job[p].row, at |-> job[p].at]
                ELSE [step |-> job[p].then]
  BY DEF WriteTimerJson, Become, Typed, JobsTyped
<1>5. \A q \in Threads \ {p} : job'[q] = job[q]
  BY DEF WriteTimerJson, Become, Typed, JobsTyped
<1> QED BY <1>1, <1>2, <1>3, <1>4, <1>5

LEMMA ListStep ==
    ASSUME Typed, [Next]_vars
    PROVE  ListTyped'
<1> DEFINE Walks(j) == \/ j.step \in {"prune", "doomed", "unfold", "view", "bootview"}
                       \/ j.step \in {"find", "allocate", "write"} /\ j.then \in {"view", "bootview"}
<1>0. ListTyped /\ Engine \in Threads /\ (Walks(job[Engine]) => todo \subseteq DOMAIN list)
  BY EngineIsThread DEF Typed, ListTyped, Reconciling, Syncing
<1>1. ASSUME UNCHANGED list, todo' \subseteq todo, Walks(job'[Engine]) => Walks(job[Engine])
      PROVE  ListTyped'
  BY <1>0, <1>1 DEF ListTyped, Reconciling, Syncing
<1>2. ASSUME list' = [t \in Live |-> rows[t]], todo' \subseteq Live \/ ~Walks(job'[Engine]) PROVE ListTyped'
  <2>1. \A t \in Live : rows[t] \in Rows
    BY LiveRows DEF Live, Typed
  <2> QED BY <1>2, <2>1 DEF ListTyped, Reconciling, Syncing, Live
<1>3. ASSUME list' = NoList, todo' = {} \/ ~Walks(job'[Engine]) PROVE ListTyped'
  BY <1>3 DEF ListTyped, Reconciling, Syncing, NoList
<1>4. ASSUME NEW j, Become(Engine, j) PROVE job'[Engine] = j
  BY <1>0, <1>4 DEF Become, Typed, JobsTyped
<1>5. ASSUME UNCHANGED <<list, todo>>, job'[Engine] = job[Engine] PROVE ListTyped'
  BY <1>1, <1>5
<1>6. CASE FindFolder(Engine)
  <2>1. Walks(job'[Engine]) => Walks(job[Engine])
    BY <1>0, <1>6, FindMoves DEF Looks, SameTables
  <2> QED BY <1>0, <1>1, <1>6, <2>1, FindMoves DEF SameTables
<1>7. CASE AllocateFolder(Engine)
  <2>1. Walks(job'[Engine]) => Walks(job[Engine])
    BY <1>0, <1>7, AllocateMoves
  <2> QED BY <1>0, <1>1, <1>7, <2>1, AllocateMoves DEF SameTables
<1>8. CASE WriteTimerJson(Engine)
  <2>1. Walks(job'[Engine]) => Walks(job[Engine])
    BY <1>0, <1>8, WriteMoves DEF Thens
  <2> QED BY <1>0, <1>1, <1>8, <2>1, WriteMoves DEF SameTables
<1>9. CASE Crash(Engine)
  <2>1. list' = NoList /\ todo' = {}
    BY <1>9 DEF Crash
  <2> QED BY <1>3, <2>1
<1>10. ASSUME NEW p \in Editors, EditorSteps(p) PROVE ListTyped'
  BY <1>5, <1>10, OthersLeavePass DEF Typed
<1>11. ASSUME NEW t \in Ids, FinishRun(t) PROVE ListTyped'
  BY <1>5, <1>11 DEF FinishRun, passVars
<1>12. CASE Tick \/ UNCHANGED vars
  BY <1>5, <1>12 DEF Tick, vars, passVars
<1>13. ASSUME NEW t \in Ids, TickTimer(t) PROVE ListTyped'
  <2>1. job'[Engine].step = "fire" /\ UNCHANGED <<list, todo>>
    BY <1>4, <1>13 DEF TickTimer, passVars
  <2> QED BY <1>1, <2>1
<1>14. CASE ProjectFire(Engine)
  <2>1. job'[Engine].then = "claim" /\ job'[Engine].step = "find" /\ UNCHANGED <<list, todo>>
    BY <1>4, <1>14 DEF ProjectFire, Sync, passVars
  <2> QED BY <1>1, <2>1
<1>15. CASE ClaimRun(Engine)
  <2>1. job[Engine] \in Firings
    BY <1>0, <1>15, JobShape DEF ClaimRun, Doing, Typed, JobsTyped
  <2>2. job'[Engine].step = "mark" /\ UNCHANGED <<list, todo>>
    BY <1>4, <1>15, <2>1 DEF ClaimRun, passVars, Firings
  <2> QED BY <1>1, <2>2
<1>16. CASE MarkFired(Engine)
  <2>1. \/ Become(Engine, Sync(job[Engine].id, rows'[job[Engine].id], None, "idle"))
        \/ Become(Engine, Idle)
    BY <1>16 DEF MarkFired
  <2>2. \/ job'[Engine].step = "find" /\ job'[Engine].then = "idle"
        \/ job'[Engine].step = "idle"
    BY <1>4, <2>1 DEF Sync, Idle
  <2>3. UNCHANGED <<list, todo>>
    BY <1>16 DEF MarkFired, passVars
  <2> QED BY <1>1, <2>2, <2>3
<1>17. CASE StartPrune
  BY <1>2, <1>17 DEF StartPrune
<1>18. ASSUME NEW t \in Ids, PruneTimer(t) PROVE ListTyped'
  <2>1. job[Engine].step = "prune" /\ UNCHANGED list /\ todo' \subseteq todo
    BY <1>18 DEF PruneTimer, Doing
  <2> QED BY <1>1, <2>1
<1>19. CASE UnfoldPruned \/ DeletePruned
  <2>1. job[Engine].step \in {"doomed", "unfold"} /\ UNCHANGED <<list, todo>>
    BY <1>19 DEF UnfoldPruned, DeletePruned, Doing, passVars
  <2> QED BY <1>1, <2>1
<1>20. CASE ListLive \/ StartSweep
  <2>1. CASE ListLive
    <3>1. job'[Engine] = [step |-> "list", boot |-> job[Engine].boot]
      BY <1>4, <2>1 DEF ListLive
    <3> QED BY <1>2, <2>1, <3>1 DEF ListLive
  <2>2. CASE StartSweep
    <3>1. job[Engine] \in Sweeps
      BY <1>0, <2>2, JobShape DEF StartSweep, Doing, Typed, JobsTyped
    <3>2. job'[Engine].step = "sweep"
      BY <1>4, <2>2, <3>1 DEF StartSweep, Sweeps
    <3> QED BY <1>0, <2>2, <3>2 DEF StartSweep, ListTyped, Reconciling, Syncing
  <2> QED BY <1>20, <2>1, <2>2
<1>21. ASSUME NEW path \in Paths, SweepFolder(path) PROVE ListTyped'
  BY <1>1, <1>21 DEF SweepFolder
<1>22. CASE StartReconcile
  BY <1>2, <1>22 DEF StartReconcile
<1>23. ASSUME NEW t \in Ids, ReconcileFolder(t) PROVE ListTyped'
  <2>1. job[Engine].step \in {"view", "bootview"} /\ UNCHANGED list /\ todo' \subseteq todo
    BY <1>23 DEF ReconcileFolder, View, Doing
  <2> QED BY <1>1, <2>1
<1>24. CASE SetLastPrune
  BY <1>3, <1>24 DEF SetLastPrune
<1>25. CASE StartYear
  BY <1>2, <1>25 DEF StartYear
<1>26. ASSUME NEW t \in Ids, Recalibrate(t) PROVE ListTyped'
  <2>1. job[Engine].step = "year" /\ ~Walks(job[Engine])
    BY <1>26 DEF Recalibrate, Doing
  <2>2. CASE Present(t) /\ rows[t].rev = list[t].rev
    BY <1>1, <1>26, <2>2 DEF Recalibrate
  <2>3. CASE ~(Present(t) /\ rows[t].rev = list[t].rev)
    BY <1>3, <1>26, <2>3 DEF Recalibrate
  <2> QED BY <2>2, <2>3
<1>27. CASE SetLastRecalibration
  BY <1>3, <1>27 DEF SetLastRecalibration
<1>28. CASE Booted
  <2>1. job'[Engine].step = "idle" /\ UNCHANGED <<list, todo>>
    BY <1>4, <1>28 DEF Booted, Idle, passVars
  <2> QED BY <1>1, <2>1
<1> QED BY <1>6, <1>7, <1>8, <1>9, <1>10, <1>11, <1>12, <1>13, <1>14, <1>15, <1>16, <1>17, <1>18,
           <1>19, <1>20, <1>21, <1>22, <1>23, <1>24, <1>25, <1>26, <1>27, <1>28
        DEF Next, Threads, EditorSteps

\* The rows, jobs, folders and lists are well formed throughout.
LEMMA TypedNext == Typed /\ [Next]_vars => Typed'
BY RowsStep, JobsStep, FoldersStep, ListStep DEF Typed

-----------------------------------------------------------------------------
(* The view heals.                                                         *)

Shown(t) == \E path \in DOMAIN folders : Bears(path, t) /\ folders[path] = [id |-> t, rev |-> rows[t].rev]
Known(path) == folders[path] # Bare => Present(folders[path].id)

\* While nobody interferes the engine is on a pass.
Quiet == calm => \/ job[Engine].step \in {"prune", "doomed", "unfold", "list", "sweep", "view", "bootview"}
                 \/ Reconciling

\* The sweep knows who is alive; what it has passed is known.
Swept ==
    calm => /\ Doing(Engine, "list") \/ Doing(Engine, "sweep") => DOMAIN list = Live
            /\ Doing(Engine, "sweep") => \A path \in DOMAIN folders \ todo : Known(path)

\* The reconciliation works on the rows as they are; every timer it has passed is shown,
\* the one in hand will be, in a folder that is free or its own.
Healing ==
    calm /\ (View \/ Reconciling) =>
        /\ DOMAIN list = Live /\ \A t \in Live : list[t] = rows[t]
        /\ \A path \in DOMAIN folders : Known(path)
        /\ \A t \in Live \ todo : Shown(t) \/ (Reconciling /\ t = job[Engine].id)
        /\ Reconciling => job[Engine].id \in Live /\ job[Engine].row = rows[job[Engine].id]
        /\ Reconciling /\ Doing(Engine, "write") /\ job[Engine].path \in DOMAIN folders =>
              folders[job[Engine].path] = Bare \/ Names(job[Engine].path, job[Engine].id)

HealInv == Quiet /\ Swept /\ Healing

LEMMA InitHeal == Init => HealInv
BY DEF Init, HealInv, Quiet, Swept, Healing

\* What may happen while nobody interferes.
Still == UNCHANGED <<calm, rows, folders, list, todo, job>>
LEMMA CalmSteps ==
    ASSUME Typed, Quiet, [Next]_vars, calm'
    PROVE  \/ StartPrune
           \/ calm /\ \/ \E t \in Ids : PruneTimer(t) \/ ReconcileFolder(t)
                      \/ DeletePruned \/ UnfoldPruned \/ ListLive \/ StartSweep \/ StartReconcile
                      \/ \E path \in Paths : SweepFolder(path)
                      \/ Reconciling /\ (FindFolder(Engine) \/ AllocateFolder(Engine) \/ WriteTimerJson(Engine))
                      \/ Still
<1>1. ASSUME NEW p \in Editors, EditorSteps(p) PROVE FALSE
  <2>1. p # Engine
    BY ThreadsAssumption
  <2> QED BY <1>1, <2>1 DEF EditorSteps, FindFolder, AllocateFolder, WriteTimerJson, Crash, ProjectFire, ClaimRun,
                            MarkFired, DeleteTimerLifecycle, RemoveFolder, CreateTimer, EditTimer, RunNow,
                            ResolveDelete, Alter, Edits
<1>2. ~Crash(Engine) /\ ~SetLastPrune
  BY DEF Crash, SetLastPrune
<1>3. ASSUME FindFolder(Engine) \/ AllocateFolder(Engine) \/ WriteTimerJson(Engine)
      PROVE  calm /\ Reconciling
  BY <1>3 DEF FindFolder, AllocateFolder, WriteTimerJson, Alter, Doing, Quiet
<1>4. ASSUME NEW t \in Ids, TickTimer(t) \/ Recalibrate(t)
      PROVE  FALSE
  BY <1>4 DEF TickTimer, Recalibrate, Doing, Quiet, Reconciling, Syncing, watch
<1>5. ASSUME ProjectFire(Engine) \/ ClaimRun(Engine) \/ MarkFired(Engine) \/ StartYear \/ SetLastRecalibration \/ Booted
      PROVE  FALSE
  BY <1>5 DEF ProjectFire, ClaimRun, MarkFired, StartYear, SetLastRecalibration, Booted, Doing, Quiet,
              Reconciling, Syncing, Alter, watch
<1>6. ASSUME NEW t \in Ids, FinishRun(t) PROVE calm /\ Still
  BY <1>6 DEF FinishRun, Still, passVars, watch
<1>7. ASSUME Tick \/ UNCHANGED vars PROVE calm /\ Still
  BY <1>7 DEF Tick, vars, Still, dbVars, passVars, watch
<1>8. ASSUME NEW t \in Ids, PruneTimer(t) \/ ReconcileFolder(t) PROVE calm
  BY <1>8 DEF PruneTimer, ReconcileFolder, watch
<1>9. ASSUME \/ DeletePruned \/ UnfoldPruned \/ ListLive \/ StartSweep \/ StartReconcile
             \/ \E path \in Paths : SweepFolder(path)
      PROVE  calm
  BY <1>9 DEF DeletePruned, UnfoldPruned, ListLive, StartSweep, StartReconcile, SweepFolder, watch
<1> QED BY <1>1, <1>2, <1>3, <1>4, <1>5, <1>6, <1>7, <1>8, <1>9 DEF Next, Threads, EditorSteps

\* What a written timer.json shows is not a folder without one.
LEMMA WrittenIsNotBare == \A t, r : [id |-> t, rev |-> r] # Bare
<1> SUFFICES ASSUME NEW t, NEW r, [id |-> t, rev |-> r] = Bare PROVE FALSE
  OBVIOUS
<1>1. DOMAIN [id |-> t, rev |-> r] = {"id", "rev"} /\ DOMAIN Bare = {"rev"}
  BY DEF Bare
<1> QED BY <1>1

\* The prune and the sweep.
LEMMA SweepHeals ==
    ASSUME Typed, HealInv,
           \/ StartPrune
           \/ calm /\ \/ \E t \in Ids : PruneTimer(t)
                      \/ DeletePruned \/ UnfoldPruned \/ ListLive \/ StartSweep
                      \/ \E path \in Paths : SweepFolder(path)
    PROVE  HealInv'
<1> DEFINE Early(s) == s \in {"prune", "doomed", "unfold"}
<1>0. Engine \in Threads /\ job \in [Threads -> Jobs]
  BY EngineIsThread DEF Typed, JobsTyped
<1>1. ASSUME Early(job'[Engine].step) PROVE HealInv'
  BY <1>1 DEF HealInv, Quiet, Swept, Healing, View, Doing, Reconciling, Syncing
<1>2. ASSUME NEW j, Become(Engine, j) PROVE job'[Engine] = j
  BY <1>0, <1>2 DEF Become
<1>3. CASE StartPrune
  <2>1. job'[Engine].step = "prune"
    <3>1. job'[Engine] = [step |-> "prune", boot |-> Doing(Engine, "boot"), since |-> now]
      BY <1>2, <1>3 DEF StartPrune
    <3> QED BY <3>1
  <2> QED BY <1>1, <2>1
<1>4. ASSUME NEW t \in Ids, PruneTimer(t) PROVE HealInv'
  <2>1. Early(job'[Engine].step)
    <3>1. job'[Engine] = PassOn("doomed", t) \/ (UNCHANGED job /\ job[Engine].step = "prune")
      BY <1>2, <1>4 DEF PruneTimer, Doing
    <3> QED BY <3>1 DEF PassOn
  <2> QED BY <1>1, <2>1
<1>5. CASE UnfoldPruned \/ DeletePruned
  <2>1. job'[Engine] = PassOn("unfold", job[Engine].id) \/ job'[Engine] = Pass("prune")
    BY <1>2, <1>5 DEF UnfoldPruned, DeletePruned
  <2>2. Early(job'[Engine].step)
    BY <2>1 DEF Pass, PassOn
  <2> QED BY <1>1, <2>2
<1>6. CASE ListLive
  <2>1. job'[Engine] = [step |-> "list", boot |-> job[Engine].boot]
    BY <1>2, <1>6 DEF ListLive
  <2>2. job'[Engine].step = "list"
    BY <2>1
  <2>3. DOMAIN list' = Live' /\ Live' = Live
    BY <1>6 DEF ListLive, Live, Present, dbVars
  <2> QED BY <2>2, <2>3 DEF HealInv, Quiet, Swept, Healing, View, Doing, Reconciling, Syncing
<1>7. CASE calm /\ StartSweep
  <2>1. job[Engine] \in Sweeps
    BY <1>0, <1>7, JobShape DEF StartSweep, Doing
  <2>2. job'[Engine].step = "sweep"
    BY <1>2, <1>7, <2>1 DEF StartSweep, Sweeps
  <2>3. DOMAIN list' = Live'
    BY <1>7 DEF StartSweep, Live, Present, dbVars, HealInv, Swept
  <2>4. DOMAIN folders' \ todo' = {}
    BY <1>7 DEF StartSweep
  <2> QED BY <2>2, <2>3, <2>4 DEF HealInv, Quiet, Swept, Healing, View, Doing, Reconciling, Syncing
<1>8. ASSUME NEW path \in Paths, calm, SweepFolder(path) PROVE HealInv'
  <2>1. job'[Engine].step = "sweep" /\ job[Engine].step = "sweep"
    BY <1>8 DEF SweepFolder, Doing
  <2>2. UNCHANGED <<rows, list>> /\ DOMAIN list' = Live' /\ DOMAIN list = Live
    BY <1>8 DEF SweepFolder, Live, Present, dbVars, HealInv, Swept
  <2>3. ASSUME NEW q \in DOMAIN folders' \ todo' PROVE Known(q)'
    <3>1. q \in DOMAIN folders /\ folders'[q] = folders[q]
      BY <1>8, <2>3 DEF SweepFolder, Without
    <3>2. CASE q # path
      <4>1. q \notin todo
        BY <1>8, <2>3, <3>2 DEF SweepFolder
      <4> QED BY <1>8, <2>1, <2>2, <3>1, <4>1 DEF HealInv, Swept, Doing, Known, Present
    <3>3. CASE q = path
      <4>1. Alive(path)
        BY <1>8, <2>3, <3>1, <3>3 DEF SweepFolder, Without
      <4>2. folders[path] # Bare => folders[path].id \in Live
        BY <2>2, <4>1 DEF Alive
      <4> QED BY <2>2, <3>1, <3>3, <4>2 DEF Known, Live, Present
    <3> QED BY <3>2, <3>3
  <2> QED BY <2>1, <2>2, <2>3 DEF HealInv, Quiet, Swept, Healing, View, Doing, Reconciling, Syncing
<1> QED BY <1>3, <1>4, <1>5, <1>6, <1>7, <1>8

\* The rows, the list and the jobs of a reconciliation under way.
LEMMA ReconcileHolds ==
    ASSUME HealInv, calm, View \/ Reconciling
    PROVE  /\ DOMAIN list = Live /\ \A t \in Live : list[t] = rows[t]
           /\ \A path \in DOMAIN folders : Known(path)
           /\ \A t \in Live \ todo : Shown(t) \/ (Reconciling /\ t = job[Engine].id)
           /\ Reconciling => job[Engine].id \in Live /\ job[Engine].row = rows[job[Engine].id]
BY DEF HealInv, Healing

\* A folder another timer has named stays as it is when one is made or written that is free
\* or one's own.
LEMMA OthersShown ==
    ASSUME NEW path, NEW content, NEW t, NEW u, u # t, Shown(u),
           path \in DOMAIN folders => folders[path] = Bare \/ Names(path, t),
           folders' = With(path, content), UNCHANGED rows
    PROVE  Shown(u)'
<1>1. PICK q \in DOMAIN folders : Bears(q, u) /\ folders[q] = [id |-> u, rev |-> rows[u].rev]
  BY DEF Shown
<1>2. folders[q] # Bare /\ folders[q].id = u
  BY <1>1, WrittenIsNotBare
<1>3. q # path
  BY <1>2 DEF Names
<1>4. q \in DOMAIN folders' /\ folders'[q] = folders[q]
  BY <1>3 DEF With
<1> QED BY <1>1, <1>4 DEF Shown, Bears

\* The folder that is found or allocated for a timer is free or its own.
LEMMA OursIsOwn ==
    ASSUME NEW t, NEW path \in Ours(t)
    PROVE  path \in DOMAIN folders /\ (folders[path] = Bare \/ Names(path, t))
BY DEF Ours, Candidates

LEMMA AllocatableIsFree ==
    ASSUME FoldersTyped, NEW t \in Ids, Allocatable(t) \in DOMAIN folders
    PROVE  folders[Allocatable(t)] = Bare \/ Names(Allocatable(t), t)
<1> DEFINE short == <<Slug[t], Prefix[t]>>
           long == <<Slug[t], t>>
<1>1. CASE short \notin DOMAIN folders \/ Names(short, t)
  BY <1>1 DEF Allocatable
<1>2. CASE ~(short \notin DOMAIN folders \/ Names(short, t))
  <2>1. Allocatable(t) = long
    BY <1>2 DEF Allocatable
  <2>2. CASE folders[long] # Bare
    <3>1. folders[long].id \in Ids /\ Bears(long, folders[long].id)
      BY <2>1, <2>2 DEF FoldersTyped
    <3>2. t # Prefix[folders[long].id]
      BY <3>1, IdsAssumption
    <3>3. folders[long].id = t
      BY <3>1, <3>2 DEF Bears
    <3> QED BY <2>1, <2>2, <3>3 DEF Names
  <2> QED BY <2>1, <2>2
<1> QED BY <1>1, <1>2

LEMMA ReconcileHeals ==
    ASSUME Typed, HealInv, calm,
           \/ StartReconcile
           \/ \E t \in Ids : ReconcileFolder(t)
           \/ Reconciling /\ (FindFolder(Engine) \/ AllocateFolder(Engine) \/ WriteTimerJson(Engine))
    PROVE  HealInv'
<1>0. Engine \in Threads /\ job \in [Threads -> Jobs]
  BY EngineIsThread DEF Typed, JobsTyped
<1>1. ASSUME NEW j, Become(Engine, j) PROVE job'[Engine] = j
  BY <1>0, <1>1 DEF Become
<1>2. CASE StartReconcile
  <2>1. job[Engine].step = "sweep" /\ job'[Engine].step \in {"view", "bootview"}
    BY <1>1, <1>2 DEF StartReconcile, Doing
  <2>2. UNCHANGED <<rows, folders>> /\ list' = [t \in Live |-> rows[t]] /\ todo' = Live /\ Live' = Live
    BY <1>2 DEF StartReconcile, dbVars, Live, Present
  <2>3. \A path \in DOMAIN folders : Known(path)
    BY <1>2, <2>1 DEF StartReconcile, HealInv, Swept, Doing
  <2>4. \A path \in DOMAIN folders' : Known(path)'
    BY <2>2, <2>3 DEF Known, Present
  <2>5. Quiet' /\ Swept'
    BY <2>1 DEF Quiet, Swept, Doing
  <2>6. ~Reconciling'
    BY <2>1 DEF Reconciling, Syncing
  <2>7. Healing'
    BY <2>2, <2>4, <2>6 DEF Healing
  <2> QED BY <2>5, <2>7 DEF HealInv
<1>3. ASSUME NEW t \in Ids, ReconcileFolder(t) PROVE HealInv'
  <2>1. job[Engine].step \in {"view", "bootview"} /\ View /\ t \in todo /\ todo' = todo \ {t}
    BY <1>3 DEF ReconcileFolder, View, Doing
  <2>2. UNCHANGED <<rows, folders, list>> /\ Live' = Live
    BY <1>3 DEF ReconcileFolder, dbVars, Live, Present
  <2>3. t \in Live
    BY <2>1, ReconcileHolds DEF Typed, ListTyped
  <2>4. /\ job'[Engine].step = "find" /\ job'[Engine].id = t /\ job'[Engine].row = list[t]
        /\ job'[Engine].then = job[Engine].step
    BY <1>1, <1>3 DEF ReconcileFolder, Sync
  <2>5. Reconciling' /\ ~Reconciling
    BY <2>1, <2>4 DEF Reconciling, Syncing
  <2>6. ASSUME NEW u \in Live \ todo' PROVE Shown(u)' \/ u = t
    <3>1. CASE u # t
      <4>1. Shown(u)
        BY <2>1, <2>5, <2>6, <3>1, ReconcileHolds
      <4> QED BY <2>2, <4>1 DEF Shown, Bears
    <3> QED BY <3>1
  <2>7. \A path \in DOMAIN folders' : Known(path)'
    BY <2>1, <2>2, ReconcileHolds DEF Known, Present
  <2>8. DOMAIN list = Live /\ \A u \in Live : list[u] = rows[u]
    BY <2>1, ReconcileHolds
  <2>9. Healing'
    BY <2>2, <2>3, <2>4, <2>5, <2>6, <2>7, <2>8 DEF Healing, Doing
  <2>10. Quiet' /\ Swept'
    BY <2>4, <2>5 DEF Quiet, Swept, Doing
  <2> QED BY <2>9, <2>10 DEF HealInv
<1>4. ASSUME Reconciling, FindFolder(Engine) PROVE HealInv'
  <2> DEFINE t == job[Engine].id
  <2>1. t \in Live /\ job[Engine].row = rows[t]
    BY <1>4, ReconcileHolds
  <2>2. UNCHANGED <<rows, folders, list, todo>> /\ Live' = Live
    BY <1>0, <1>4, FindMoves DEF Live, Present, SameTables
  <2>3. /\ job'[Engine].id = t /\ job'[Engine].row = job[Engine].row
        /\ job'[Engine].then = job[Engine].then /\ job'[Engine].step \in {"allocate", "write"}
        /\ job'[Engine].step = "write" => job'[Engine].path \in Ours(t)
    BY <1>0, <1>4, FindMoves
  <2> HIDE DEF t
  <2>4. Reconciling'
    BY <1>4, <2>3 DEF Reconciling, Syncing
  <2>5. job'[Engine].step = "write" => folders[job'[Engine].path] = Bare \/ Names(job'[Engine].path, t)
    BY <2>3, OursIsOwn
  <2>6. \A path \in DOMAIN folders' : Known(path)'
    BY <1>4, <2>2, ReconcileHolds DEF Known, Present
  <2>7. \A u \in Live \ todo : Shown(u)' \/ u = t
    BY <1>4, <2>2, ReconcileHolds DEF Shown, Bears, t
  <2>8. DOMAIN list = Live /\ \A u \in Live : list[u] = rows[u]
    BY <1>4, ReconcileHolds
  <2>9. Healing'
    BY <2>1, <2>2, <2>3, <2>4, <2>5, <2>6, <2>7, <2>8 DEF Healing, Doing, Names
  <2>10. Quiet' /\ Swept'
    BY <2>3, <2>4 DEF Quiet, Swept, Doing
  <2> QED BY <2>9, <2>10 DEF HealInv
<1>5. ASSUME Reconciling, AllocateFolder(Engine) PROVE HealInv'
  <2> PICK t, path : t = job[Engine].id /\ path = Allocatable(job[Engine].id)
    OBVIOUS
  <2>1. t \in Live /\ t \in Ids /\ job[Engine].row = rows[t]
    BY <1>5, ReconcileHolds DEF Live
  <2>2. UNCHANGED <<rows, list, todo>> /\ Live' = Live
    BY <1>0, <1>5, AllocateMoves DEF Live, Present, SameTables
  <2>3. /\ job'[Engine].id = t /\ job'[Engine].row = job[Engine].row
        /\ job'[Engine].then = job[Engine].then /\ job'[Engine].step = "write" /\ job'[Engine].path = path
        /\ folders' = IF path \in DOMAIN folders THEN folders ELSE With(path, Bare)
    BY <1>0, <1>5, AllocateMoves
  <2>4. path \in DOMAIN folders => folders[path] = Bare \/ Names(path, t)
    BY <2>1, AllocatableIsFree DEF Typed
  <2>5. Reconciling'
    BY <1>5, <2>3 DEF Reconciling, Syncing
  <2>6. folders'[path] = Bare \/ Names(path, t)'
    BY <2>3, <2>4 DEF With, Names
  <2>7. \A q \in DOMAIN folders' : Known(q)'
    BY <1>5, <2>2, <2>3, ReconcileHolds DEF Known, Present, With
  <2>8. \A u \in Live \ todo : Shown(u)' \/ u = t
    <3> SUFFICES ASSUME NEW u \in Live \ todo, u # t PROVE Shown(u)'
      OBVIOUS
    <3>1. Shown(u)
      BY <1>5, ReconcileHolds
    <3>2. CASE path \in DOMAIN folders
      BY <2>2, <2>3, <3>1, <3>2 DEF Shown, Bears
    <3>3. CASE path \notin DOMAIN folders
      BY <2>2, <2>3, <2>4, <3>1, <3>3, OthersShown
    <3> QED BY <3>2, <3>3
  <2>9. DOMAIN list = Live /\ \A u \in Live : list[u] = rows[u]
    BY <1>5, ReconcileHolds
  <2>10. Healing'
    BY <2>1, <2>2, <2>3, <2>5, <2>6, <2>7, <2>8, <2>9 DEF Healing, Doing, Names
  <2>11. Quiet' /\ Swept'
    BY <2>3, <2>5 DEF Quiet, Swept, Doing
  <2> QED BY <2>10, <2>11 DEF HealInv
<1>6. ASSUME Reconciling, WriteTimerJson(Engine) PROVE HealInv'
  <2> PICK t, path, content :
         /\ t = job[Engine].id /\ path = job[Engine].path
         /\ content = [id |-> job[Engine].id, rev |-> job[Engine].row.rev]
    OBVIOUS
  <2>1. t \in Live /\ t \in Ids /\ job[Engine].row = rows[t]
    BY <1>6, ReconcileHolds DEF Live
  <2>2. UNCHANGED <<rows, list, todo>> /\ Live' = Live /\ folders' = With(path, content)
    BY <1>0, <1>6, WriteMoves DEF Live, Present, SameTables
  <2>3. job[Engine].step = "write" /\ job'[Engine].step \in {"view", "bootview"}
    BY <1>0, <1>6, WriteMoves DEF Reconciling
  <2>4. Bears(path, t)
    BY <1>0, <2>3 DEF Typed, JobsTyped
  <2>5. path \in DOMAIN folders => folders[path] = Bare \/ Names(path, t)
    BY <1>6, <2>3 DEF HealInv, Healing, Doing
  <2>6. content = [id |-> t, rev |-> rows[t].rev] /\ content # Bare /\ content.id = t
    BY <2>1, WrittenIsNotBare
  <2>7. ~Reconciling' /\ View'
    BY <2>3 DEF Reconciling, Syncing, View, Doing
  <2>8. Shown(t)'
    BY <2>2, <2>4, <2>6 DEF Shown, With, Bears
  <2>9. \A u \in Live \ todo : Shown(u)'
    <3> SUFFICES ASSUME NEW u \in Live \ todo, u # t PROVE Shown(u)'
      BY <2>8
    <3>1. Shown(u)
      BY <1>6, ReconcileHolds
    <3> QED BY <2>2, <2>5, <3>1, OthersShown
  <2>10. \A q \in DOMAIN folders' : Known(q)'
    BY <1>6, <2>1, <2>2, <2>6, ReconcileHolds DEF Known, Present, With, Live
  <2>11. DOMAIN list = Live /\ \A u \in Live : list[u] = rows[u]
    BY <1>6, ReconcileHolds
  <2>12. Healing'
    BY <2>2, <2>7, <2>9, <2>10, <2>11 DEF Healing
  <2>13. Quiet' /\ Swept'
    BY <2>3 DEF Quiet, Swept, Doing
  <2> QED BY <2>12, <2>13 DEF HealInv
<1> QED BY <1>2, <1>3, <1>4, <1>5, <1>6

LEMMA HealNext == Typed /\ HealInv /\ [Next]_vars => HealInv'
<1> SUFFICES ASSUME Typed, HealInv, [Next]_vars PROVE HealInv'
  OBVIOUS
<1>1. CASE ~calm'
  BY <1>1 DEF HealInv, Quiet, Swept, Healing
<1>2. CASE calm /\ Still
  BY <1>2 DEF Still, HealInv, Quiet, Swept, Healing, Known, Shown, Bears, Reconciling, Syncing, View, Doing,
              Live, Present, Names
<1>3. CASE calm' /\ ~(calm /\ Still)
  <2>1. Quiet
    BY DEF HealInv
  <2> QED BY <1>3, <2>1, CalmSteps, SweepHeals, ReconcileHeals
<1> QED BY <1>1, <1>2, <1>3

\* A pass nobody interfered with leaves the folders as the table says, whatever edits, races and
\* crashes came before it (prune_pass: run_auto_clean, sweep_orphans, reconcile_folders).
THEOREM ViewIsHealed == Spec => []ViewHeals
<1>1. Typed /\ HealInv => ViewHeals
  <2> SUFFICES ASSUME Typed, HealInv, View, todo = {}, calm
               PROVE  /\ \A t \in Live : \E path \in Ours(t) : folders[path] = [id |-> t, rev |-> rows[t].rev]
                      /\ \A path \in DOMAIN folders : folders[path] # Bare => Present(folders[path].id)
    BY DEF ViewHeals
  <2>1. ~Reconciling
    BY DEF View, Doing, Reconciling, Syncing
  <2>2. ASSUME NEW t \in Live PROVE \E path \in Ours(t) : folders[path] = [id |-> t, rev |-> rows[t].rev]
    <3>1. Shown(t)
      BY <2>1, ReconcileHolds
    <3>2. PICK path \in DOMAIN folders : Bears(path, t) /\ folders[path] = [id |-> t, rev |-> rows[t].rev]
      BY <3>1 DEF Shown
    <3>3. Names(path, t)
      BY <3>2, WrittenIsNotBare DEF Names
    <3>4. path \in Ours(t)
      BY <3>2, <3>3 DEF Ours, Candidates, Bears
    <3> QED BY <3>2, <3>4
  <2> QED BY <2>2, ReconcileHolds DEF Known
<1> QED BY <1>1, InitTyped, TypedNext, InitHeal, HealNext, PTL DEF Spec

-----------------------------------------------------------------------------
(* What the prune leaves alone.                                            *)

\* A row without a next fire has fired at its instant, or the instant has passed, or is past its validity.
Exhausted(r) == \/ r.until # None /\ r.until <= r.at
                \/ r.at <= (IF r.fired = None THEN now ELSE r.fired)

\* A one-shot has its next fire at its instant or nowhere, and nowhere only when it is exhausted.
Timely(r) == r.next \in {None, r.at} /\ r.fired <= now /\ (r.next = None => Exhausted(r))
RowsTimely == \A t \in Ids \ Repeating : Present(t) => Timely(rows[t])

\* A timer that was never created has no row.
Unborn == \A t \in Ids \ Repeating : t \in unborn => ~Present(t)

\* What was listed has the instant and the end of validity the row still has, and stays without a
\* next fire.
InPrune == job[Engine].step \in {"prune", "doomed", "unfold"}
Listed(t) ==
    /\ t \notin unborn /\ list[t].next \in {None, list[t].at}
    /\ Present(t) => /\ rows[t].at = list[t].at /\ rows[t].until = list[t].until
                     /\ list[t].next = None => rows[t].next = None
ListTimely == InPrune => /\ \A t \in DOMAIN list \ (Repeating \cup unseen) : Listed(t)
                         /\ job[Engine].since <= now

\* A thread that fires a timer holds the row as it was at some revision; one without a next fire is
\* exhausted at the instant it is fired for.
Firing(j) == j.step \in {"fire", "claim", "mark"} \/ (j.step \in {"find", "allocate", "write"} /\ j.then = "claim")
FireOk(j) == j.id \notin Repeating =>
    /\ j.at <= now /\ j.id \notin unborn
    /\ Present(j.id) => /\ j.row.rev <= rows[j.id].rev
                        /\ rows[j.id].rev = j.row.rev => rows[j.id] = j.row
    /\ j.row.next = None => (j.row.until # None /\ j.row.until <= j.row.at) \/ j.row.at <= j.at
FiresOk == \A p \in Threads : Firing(job[p]) => FireOk(job[p])

\* The timer the prune is about to take was listed as finished and has no run the pass could have seen.
Doomed == Doing(Engine, "doomed") =>
    /\ job[Engine].id \in DOMAIN list /\ Finished(job[Engine].id, list[job[Engine].id], job[Engine].since)
    /\ job[Engine].id \notin unseen => runs[job[Engine].id] = 0

OneShots == RowsTimely /\ Unborn /\ ListTimely /\ FiresOk /\ Doomed

LEMMA InitOneShots == Init => OneShots
<1> SUFFICES ASSUME Init PROVE OneShots
  OBVIOUS
<1>1. PICK old \in SUBSET Ids, past \in [Ids -> Past] :
        /\ rows = [t \in Ids |-> IF t \in old THEN Row(t, past[t].at, past[t].until, past[t].fired, 0) ELSE Absent]
        /\ unborn = Ids \ old
  BY DEF Init
<1>2. now = 1 /\ \A p \in Threads : job[p].step \in {"boot", "idle"}
  BY DEF Init, Idle
<1>3. ASSUME NEW t \in Ids \ Repeating, Present(t) PROVE Timely(rows[t]) /\ t \notin unborn
  <2>1. t \in old
    BY <1>1, <1>3 DEF Present
  <2> PICK at \in Nat, until \in Nat, fired \in {0, 1} : at = past[t].at /\ until = past[t].until /\ fired = past[t].fired
    BY PastAreNats
  <2>2. at >= 1
    BY PastAssumption
  <2>3. PICK r : r = [rev |-> 1, at |-> at, until |-> until, on |-> TRUE, fired |-> fired, next |-> None]
    OBVIOUS
  <2>4. PICK n : n = NextFire(t, r, 0)
    OBVIOUS
  <2>5. rows[t] = [r EXCEPT !.next = n]
    BY <1>1, <2>1, <2>3, <2>4 DEF Row
  <2>6. rows[t].at = at /\ rows[t].until = until /\ rows[t].fired = fired /\ rows[t].next = n
    BY <2>3, <2>5
  <2>7. n = LET from == IF fired = None THEN 0 ELSE fired
            IN IF at > from /\ (until = None \/ at < until) THEN at ELSE None
    BY <1>3, <2>3, <2>4 DEF NextFire
  <2> QED BY <1>1, <1>2, <2>1, <2>2, <2>6, <2>7 DEF Timely, Exhausted, None
<1>4. RowsTimely /\ Unborn
  BY <1>3 DEF RowsTimely, Unborn
<1>5. ListTimely /\ FiresOk /\ Doomed
  BY <1>2, EngineIsThread DEF ListTimely, FiresOk, Doomed, Firing, InPrune, Doing
<1> QED BY <1>4, <1>5 DEF OneShots

\* An update leaves a timely row, and one without a next fire as long as it is exhausted.
LEMMA UpdatedTimely ==
    ASSUME RowsTyped, NEW t \in Ids \ Repeating, NEW r \in Rows, r.fired <= now
    PROVE  /\ Timely(Updated(t, r))
           /\ Exhausted(r) => Updated(t, r).next = None
<1>1. r.at \in Nat /\ r.until \in Nat /\ r.fired \in Nat /\ now \in Nat
  BY DEF RowsTyped, Rows
<1> PICK u, n : u = Updated(t, r) /\ n = NextFire(t, r, now)
  OBVIOUS
<1>2. u.at = r.at /\ u.until = r.until /\ u.fired = r.fired /\ u.next = n
  BY UpdatedIsRow
<1>3. n = LET from == IF r.fired = None THEN now ELSE r.fired
          IN IF r.at > from /\ (r.until = None \/ r.at < r.until) THEN r.at ELSE None
  BY DEF NextFire
<1>4. Timely(u)
  BY <1>1, <1>2, <1>3 DEF Timely, Exhausted, None
<1>5. Exhausted(r) => u.next = None
  BY <1>1, <1>2, <1>3 DEF Exhausted, None
<1> QED BY <1>4, <1>5

\* A row stays, goes, is created for an id that was never used, or is updated; while the prune is
\* under way an update the history does not tell keeps the instant and the lack of a next fire.
Updates(t) ==
    /\ Present(t) /\ rows'[t] \in Rows /\ rows'[t].rev = rows[t].rev + 1 /\ Timely(rows'[t])
    /\ \/ t \in unseen' \/ ~InPrune
       \/ /\ rows'[t].at = rows[t].at /\ rows'[t].until = rows[t].until
          /\ rows[t].next = None => rows'[t].next = None
Moved(t) ==
    \/ rows'[t] = rows[t] \/ rows'[t] = Absent
    \/ t \in unborn /\ t \notin unborn' /\ Timely(rows'[t])
    \/ Updates(t)

LEMMA RowMoves ==
    ASSUME Typed, OneShots, [Next]_vars, NEW t \in Ids \ Repeating
    PROVE  Moved(t)
<1>0. rows \in [Ids -> {Absent} \cup Rows] /\ now \in Nat /\ RowsTyped /\ Engine \in Threads
  BY EngineIsThread DEF Typed, RowsTyped
<1>1. ASSUME UNCHANGED rows PROVE Moved(t)
  BY <1>1 DEF Moved
<1>2. ASSUME NEW u \in Ids, NEW r, rows' = [rows EXCEPT ![u] = r], u # t PROVE Moved(t)
  BY <1>0, <1>2 DEF Moved
<1>3. ASSUME NEW u \in Ids, rows' = [rows EXCEPT ![u] = Absent] PROVE Moved(t)
  BY <1>0, <1>3 DEF Moved
<1>4. ASSUME Present(t)
      PROVE  rows[t] \in Rows /\ Timely(rows[t]) /\ rows[t].fired <= now /\ rows[t].fired \in Nat /\ rows[t].at \in Nat
  BY <1>0, <1>4, LiveRows DEF OneShots, RowsTimely, Timely, Rows
<1>5. ASSUME NEW r \in Rows, r.rev = rows[t].rev, r.fired <= now, Present(t), rows' = [rows EXCEPT ![t] = Updated(t, r)],
             \/ t \in unseen' \/ ~InPrune
             \/ /\ r.at = rows[t].at /\ r.until = rows[t].until
                /\ rows[t].next = None => Exhausted(r)
      PROVE  Moved(t)
  <2> PICK v : v = Updated(t, r)
    OBVIOUS
  <2>1. v \in Rows /\ v.rev = rows[t].rev + 1 /\ v.at = r.at /\ v.until = r.until
    BY <1>0, <1>5, UpdatedIsRow
  <2>2. Timely(v) /\ (Exhausted(r) => v.next = None)
    BY <1>0, <1>5, UpdatedTimely
  <2>3. rows'[t] = v
    BY <1>0, <1>5
  <2> QED BY <1>5, <2>1, <2>2, <2>3 DEF Moved, Updates
<1>6. ASSUME NEW p \in Editors, NEW u \in Ids, CreateTimer(p, u) PROVE Moved(t)
  <2>1. PICK at \in Nat, until \in Nat :
          /\ u \in Repeating \/ at > now
          /\ rows' = [rows EXCEPT ![u] = Row(u, at, until, None, now)]
    BY <1>6, CreatedRow
  <2>2. CASE u = t
    <3>1. PICK r : r = [rev |-> 1, at |-> at, until |-> until, on |-> TRUE, fired |-> None, next |-> None]
      OBVIOUS
    <3>2. PICK n : n = NextFire(t, r, now)
      OBVIOUS
    <3>3. rows'[t] = [r EXCEPT !.next = n]
      BY <1>0, <2>1, <2>2, <3>1, <3>2 DEF Row
    <3>4. rows'[t].at = at /\ rows'[t].until = until /\ rows'[t].fired = None /\ rows'[t].next = n
      BY <3>1, <3>3
    <3>5. n = IF at > now /\ (until = None \/ at < until) THEN at ELSE None
      BY <3>1, <3>2 DEF NextFire
    <3>6. Timely(rows'[t])
      BY <1>0, <3>4, <3>5 DEF Timely, Exhausted, None
    <3>7. t \in unborn /\ t \notin unborn'
      BY <1>6, <2>2 DEF CreateTimer
    <3> QED BY <3>6, <3>7 DEF Moved
  <2> QED BY <1>2, <2>1, <2>2
<1>7. ASSUME NEW p \in Editors, NEW u \in Ids, EditTimer(p, u) PROVE Moved(t)
  <2>1. PICK r \in Rows :
          /\ rows' = [rows EXCEPT ![u] = Updated(u, r)]
          /\ r.rev = rows[u].rev /\ r.fired = rows[u].fired
          /\ \/ r.at = rows[u].at /\ r.until = rows[u].until
             \/ unseen' = unseen \cup {u}
    BY <1>7, EditedRow
  <2>2. CASE u = t
    <3>1. Present(t) /\ Timely(rows[t]) /\ r.fired <= now
      BY <1>4, <1>7, <2>1, <2>2 DEF EditTimer
    <3>2. r.at = rows[t].at /\ r.until = rows[t].until /\ rows[t].next = None => Exhausted(r)
      BY <2>1, <2>2, <3>1 DEF Timely, Exhausted
    <3> QED BY <1>5, <2>1, <2>2, <3>1, <3>2
  <2> QED BY <1>2, <2>1, <2>2
<1>8. ASSUME NEW p \in Editors, DeleteTimerLifecycle(p) PROVE Moved(t)
  BY <1>0, <1>8 DEF DeleteTimerLifecycle, Moved
<1>9. ASSUME NEW p \in Threads, MarkFired(p) PROVE Moved(t)
  <2> PICK u, at : u = job[p].id /\ at = job[p].at
    OBVIOUS
  <2>1. CASE Marks(p)
    <3>1. /\ u \in Ids /\ at \in Nat
          /\ \E r \in Rows : /\ rows' = [rows EXCEPT ![u] = Updated(u, r)]
                             /\ r.rev = rows[u].rev /\ r.fired = at
                             /\ r.at = rows[u].at /\ r.until = rows[u].until
      BY <1>9, <2>1, MarkedRow
    <3>2. PICK r \in Rows : /\ rows' = [rows EXCEPT ![u] = Updated(u, r)]
                            /\ r.rev = rows[u].rev /\ r.fired = at
                            /\ r.at = rows[u].at /\ r.until = rows[u].until
      BY <3>1
    <3>3. CASE u = t
      <4>1. FireOk(job[p])
        BY <1>9 DEF OneShots, FiresOk, Firing, MarkFired, Doing
      <4>2. Present(t) /\ at <= now /\ r.fired <= now
        BY <2>1, <3>2, <3>3, <4>1 DEF FireOk, Marks
      <4>3. ASSUME p # Engine, rows[t].next = None PROVE Exhausted(r)
        <5>1. rows[t] = job[p].row
          BY <2>1, <3>3, <4>1, <4>2, <4>3 DEF FireOk, Marks
        <5>2. (rows[t].until # None /\ rows[t].until <= rows[t].at) \/ rows[t].at <= at
          BY <3>3, <4>1, <4>3, <5>1 DEF FireOk
        <5> QED BY <1>0, <1>4, <3>1, <3>2, <3>3, <4>2, <5>2 DEF Exhausted
      <4>4. p = Engine => ~InPrune
        BY <1>9 DEF MarkFired, Doing, InPrune
      <4> QED BY <1>5, <3>2, <3>3, <4>2, <4>3, <4>4
    <3> QED BY <1>2, <3>1, <3>2, <3>3
  <2>2. CASE ~Marks(p)
    BY <1>1, <1>9, <2>2 DEF MarkFired, Marks
  <2> QED BY <2>1, <2>2
<1>10. CASE DeletePruned
  <2>1. job[Engine].id \in Ids
    BY <1>0, <1>10, JobShape DEF DeletePruned, Doing, Typed, JobsTyped, Dooms
  <2> QED BY <1>3, <1>10, <2>1 DEF DeletePruned
<1>11. ASSUME NEW u \in Ids, Recalibrate(u) PROVE Moved(t)
  <2>1. CASE Present(u) /\ rows[u].rev = list[u].rev
    <3>1. rows' = [rows EXCEPT ![u] = Updated(u, rows[u])]
      BY <1>11, <2>1, RecalibratedRow
    <3>2. CASE u = t
      BY <1>4, <1>5, <2>1, <3>1, <3>2 DEF Timely
    <3> QED BY <1>2, <3>1, <3>2
  <2>2. CASE ~(Present(u) /\ rows[u].rev = list[u].rev)
    BY <1>1, <1>11, <2>2 DEF Recalibrate
  <2> QED BY <2>1, <2>2
<1>12. ASSUME NEW p \in Threads,
              \/ FindFolder(p) \/ AllocateFolder(p) \/ WriteTimerJson(p) \/ Crash(p)
              \/ ProjectFire(p) \/ ClaimRun(p)
       PROVE  Moved(t)
  BY <1>1, <1>12 DEF FindFolder, AllocateFolder, WriteTimerJson, Crash, ProjectFire, ClaimRun, dbVars
<1>13. ASSUME NEW p \in Editors, RemoveFolder(p) \/ \E u \in Ids : RunNow(p, u) \/ ResolveDelete(p, u) PROVE Moved(t)
  BY <1>1, <1>13 DEF RemoveFolder, RunNow, ResolveDelete, dbVars
<1>14. ASSUME NEW u \in Ids, TickTimer(u) \/ FinishRun(u) \/ PruneTimer(u) \/ ReconcileFolder(u) PROVE Moved(t)
  BY <1>1, <1>14 DEF TickTimer, FinishRun, PruneTimer, ReconcileFolder, dbVars
<1>15. CASE StartPrune \/ UnfoldPruned \/ ListLive \/ StartSweep \/ StartReconcile
            \/ SetLastPrune \/ StartYear \/ SetLastRecalibration \/ Booted \/ Tick
  BY <1>1, <1>15 DEF StartPrune, UnfoldPruned, ListLive, StartSweep, StartReconcile,
                     SetLastPrune, StartYear, SetLastRecalibration, Booted, Tick, dbVars
<1>16. ASSUME NEW path \in Paths, SweepFolder(path) PROVE Moved(t)
  BY <1>1, <1>16 DEF SweepFolder, dbVars
<1>17. CASE UNCHANGED vars
  BY <1>1, <1>17 DEF vars, dbVars
<1> QED BY <1>6, <1>7, <1>8, <1>9, <1>10, <1>11, <1>12, <1>13, <1>14, <1>15, <1>16, <1>17 DEF Next

\* Time does not go back and no id becomes unused again.
LEMMA TimeMoves ==
    ASSUME Typed, Typed', [Next]_vars
    PROVE  now \in Nat /\ now' \in Nat /\ now <= now' /\ unborn' \subseteq unborn
<1>1. UNCHANGED now \/ Tick
  BY DEF Next, vars, FindFolder, AllocateFolder, WriteTimerJson, Crash, ProjectFire, ClaimRun, MarkFired, CreateTimer,
         EditTimer, RunNow, ResolveDelete, DeleteTimerLifecycle, RemoveFolder, TickTimer, FinishRun, StartPrune,
         DeletePruned, UnfoldPruned, ListLive, StartSweep, StartReconcile, SetLastPrune, PruneTimer, ReconcileFolder,
         Recalibrate, SweepFolder, StartYear, SetLastRecalibration, Booted
<1>2. UNCHANGED unborn \/ \E t : unborn' = unborn \ {t}
  BY DEF Next, vars, dbVars, FindFolder, AllocateFolder, WriteTimerJson, Crash, ProjectFire, ClaimRun, MarkFired,
         CreateTimer, EditTimer, RunNow, ResolveDelete, DeleteTimerLifecycle, RemoveFolder, TickTimer, FinishRun,
         StartPrune, DeletePruned, UnfoldPruned, ListLive, StartSweep, StartReconcile, SetLastPrune, PruneTimer,
         ReconcileFolder, Recalibrate, SweepFolder, StartYear, SetLastRecalibration, Booted, Tick
<1> QED BY <1>1, <1>2 DEF Tick, Typed, RowsTyped

LEMMA RowsTimelyStep ==
    ASSUME Typed, Typed', OneShots, [Next]_vars
    PROVE  RowsTimely' /\ Unborn'
<1>1. now \in Nat /\ now' \in Nat /\ now <= now' /\ unborn' \subseteq unborn
  BY TimeMoves
<1>2. ASSUME NEW t \in Ids \ Repeating, Present(t)' PROVE Timely(rows[t])' /\ t \notin unborn'
  <2>1. rows'[t] \in Rows
    BY <1>2 DEF Typed, RowsTyped, Present
  <2>2. Timely(rows'[t]) /\ t \notin unborn'
    <3>1. CASE rows'[t] = rows[t] \/ Updates(t)
      BY <1>1, <1>2, <3>1 DEF Present, Updates, OneShots, RowsTimely, Unborn
    <3>2. CASE t \in unborn /\ t \notin unborn' /\ Timely(rows'[t])
      BY <3>2
    <3> QED BY <1>2, <3>1, <3>2, RowMoves DEF Moved, Present
  <2>3. Timely(rows[t])'
    BY <1>1, <2>1, <2>2 DEF Timely, Exhausted, Rows
  <2> QED BY <2>2, <2>3
<1> QED BY <1>2 DEF RowsTimely, Unborn

\* The prune begins, or goes on with the list it has; only what it has just looked at becomes doomed.
LEMMA PruneMoves ==
    ASSUME Typed, [Next]_vars, InPrune'
    PROVE  \/ StartPrune
           \/ /\ InPrune /\ UNCHANGED list /\ unseen \subseteq unseen'
              /\ job'[Engine].since = job[Engine].since
              /\ Doing(Engine, "doomed")' => \/ job'[Engine] = job[Engine]
                                             \/ \E t \in Ids : PruneTimer(t)
<1> DEFINE Goes == /\ InPrune /\ UNCHANGED list /\ unseen \subseteq unseen'
                   /\ job'[Engine].since = job[Engine].since
                   /\ Doing(Engine, "doomed")' => \/ job'[Engine] = job[Engine]
                                                  \/ \E t \in Ids : PruneTimer(t)
<1>0. Engine \in Threads /\ job'[Engine].step \in {"prune", "doomed", "unfold"}
  BY EngineIsThread DEF InPrune
<1>1. ASSUME NEW j, Become(Engine, j) PROVE job'[Engine] = j
  BY <1>0, <1>1 DEF Become, Typed, JobsTyped
<1>2. ASSUME UNCHANGED list, unseen \subseteq unseen', job'[Engine] = job[Engine] PROVE Goes
  BY <1>0, <1>2 DEF InPrune
<1>3. ASSUME NEW p \in Editors, EditorSteps(p) PROVE Goes
  <2>1. UNCHANGED list /\ job'[Engine] = job[Engine]
    BY <1>3, OthersLeavePass DEF Typed
  <2>2. unseen \subseteq unseen'
    BY <1>3 DEF EditorSteps, FindFolder, AllocateFolder, WriteTimerJson, Crash, ProjectFire, ClaimRun, MarkFired,
                DeleteTimerLifecycle, RemoveFolder, CreateTimer, EditTimer, RunNow, ResolveDelete
  <2> QED BY <1>2, <2>1, <2>2
<1>4. ASSUME \/ FindFolder(Engine) \/ AllocateFolder(Engine) \/ WriteTimerJson(Engine) \/ Crash(Engine)
             \/ ProjectFire(Engine) \/ ClaimRun(Engine) \/ MarkFired(Engine)
      PROVE  FALSE
  <2>1. CASE FindFolder(Engine)
    BY <1>0, <2>1, FindMoves
  <2>2. CASE AllocateFolder(Engine)
    BY <1>0, <2>2, AllocateMoves
  <2>3. CASE WriteTimerJson(Engine)
    BY <1>0, <2>3, WriteMoves DEF Thens
  <2>4. CASE Crash(Engine)
    BY <1>0, <1>1, <2>4 DEF Crash
  <2>5. CASE ProjectFire(Engine)
    BY <1>0, <1>1, <2>5 DEF ProjectFire, Sync
  <2>6. CASE ClaimRun(Engine)
    <3>1. job[Engine] \in Firings
      BY <1>0, <2>6, JobShape DEF ClaimRun, Doing, Typed, JobsTyped
    <3>2. job'[Engine].step = "mark"
      BY <1>1, <2>6, <3>1 DEF ClaimRun, Firings
    <3> QED BY <1>0, <3>2
  <2>7. CASE MarkFired(Engine)
    <3>1. Become(Engine, Sync(job[Engine].id, rows'[job[Engine].id], None, "idle")) \/ Become(Engine, Idle)
      BY <2>7 DEF MarkFired
    <3>2. job'[Engine].step \in {"find", "idle"}
      BY <1>1, <3>1 DEF Sync, Idle
    <3> QED BY <1>0, <3>2
  <2> QED BY <1>4, <2>1, <2>2, <2>3, <2>4, <2>5, <2>6, <2>7
<1>5. ASSUME NEW t \in Ids, TickTimer(t) \/ ReconcileFolder(t) PROVE FALSE
  BY <1>0, <1>1, <1>5 DEF TickTimer, ReconcileFolder, Sync
<1>6. ASSUME NEW t \in Ids, Recalibrate(t) PROVE FALSE
  BY <1>0, <1>1, <1>6 DEF Recalibrate, Doing, Idle
<1>7. ASSUME ListLive \/ StartReconcile \/ SetLastPrune \/ StartYear \/ SetLastRecalibration \/ Booted PROVE FALSE
  BY <1>0, <1>1, <1>7 DEF ListLive, StartReconcile, SetLastPrune, StartYear, SetLastRecalibration, Booted, Idle
<1>8. CASE StartSweep
  <2>1. job[Engine] \in Sweeps
    BY <1>0, <1>8, JobShape DEF StartSweep, Doing, Typed, JobsTyped
  <2>2. job'[Engine].step = "sweep"
    BY <1>1, <1>8, <2>1 DEF StartSweep, Sweeps
  <2> QED BY <1>0, <2>2
<1>9. ASSUME NEW t \in Ids, PruneTimer(t) PROVE Goes
  <2>1. UNCHANGED <<list, unseen>> /\ job[Engine].step = "prune"
    BY <1>9 DEF PruneTimer, Doing, watch
  <2>2. job'[Engine] = PassOn("doomed", t) \/ job'[Engine] = job[Engine]
    BY <1>1, <1>9 DEF PruneTimer
  <2>3. job'[Engine].since = job[Engine].since
    BY <2>2 DEF PassOn
  <2> QED BY <1>9, <2>1, <2>3 DEF InPrune
<1>10. CASE DeletePruned \/ UnfoldPruned
  <2>1. UNCHANGED <<list, unseen>> /\ job[Engine].step \in {"doomed", "unfold"}
    BY <1>10 DEF DeletePruned, UnfoldPruned, Doing, watch, passVars
  <2>2. job'[Engine] = PassOn("unfold", job[Engine].id) \/ job'[Engine] = Pass("prune")
    BY <1>1, <1>10 DEF DeletePruned, UnfoldPruned
  <2>3. job'[Engine].since = job[Engine].since /\ job'[Engine].step \in {"unfold", "prune"}
    BY <2>2 DEF PassOn, Pass
  <2> QED BY <2>1, <2>3 DEF InPrune, Doing
<1>11. ASSUME NEW t \in Ids, FinishRun(t) PROVE Goes
  BY <1>2, <1>11 DEF FinishRun, passVars, watch
<1>12. ASSUME NEW path \in Paths, SweepFolder(path) PROVE Goes
  BY <1>2, <1>12 DEF SweepFolder, watch
<1>13. CASE Tick \/ UNCHANGED vars
  BY <1>2, <1>13 DEF Tick, vars, passVars, watch
<1> QED BY <1>3, <1>4, <1>5, <1>6, <1>7, <1>8, <1>9, <1>10, <1>11, <1>12, <1>13 DEF Next, Threads, EditorSteps

LEMMA ListTimelyStep ==
    ASSUME Typed, Typed', OneShots, [Next]_vars
    PROVE  ListTimely'
<1> SUFFICES ASSUME InPrune'
             PROVE  /\ \A t \in DOMAIN list' \ (Repeating \cup unseen') : Listed(t)'
                    /\ job'[Engine].since <= now'
  BY DEF ListTimely
<1>0. now \in Nat /\ now' \in Nat /\ now <= now' /\ unborn' \subseteq unborn
  BY TimeMoves
<1>1. CASE StartPrune
  <2>1. job'[Engine] = [step |-> "prune", boot |-> Doing(Engine, "boot"), since |-> now]
    BY <1>1, EngineIsThread DEF StartPrune, Become, Typed, JobsTyped
  <2>2. list' = [t \in Live |-> rows[t]] /\ UNCHANGED <<rows, unborn, now>>
    BY <1>1 DEF StartPrune, dbVars
  <2>3. ASSUME NEW t \in DOMAIN list' \ Repeating PROVE Listed(t)'
    <3>1. t \in Ids \ Repeating /\ Present(t) /\ list'[t] = rows[t]
      BY <2>2, <2>3 DEF Live
    <3> QED BY <2>2, <3>1 DEF Listed, OneShots, RowsTimely, Timely, Unborn
  <2> QED BY <1>0, <2>1, <2>2, <2>3
<1>2. CASE InPrune /\ UNCHANGED list /\ unseen \subseteq unseen' /\ job'[Engine].since = job[Engine].since
  <2>1. job'[Engine].since <= now'
    <3>1. job[Engine] \in Prunes \cup Dooms
      BY <1>2, EngineIsThread, JobShape DEF InPrune, Typed, JobsTyped
    <3>2. job[Engine].since \in Nat /\ job[Engine].since <= now
      BY <1>2, <3>1 DEF Prunes, Dooms, OneShots, ListTimely
    <3> QED BY <1>0, <1>2, <3>2
  <2>2. ASSUME NEW t \in DOMAIN list' \ (Repeating \cup unseen') PROVE Listed(t)'
    <3>1. Listed(t) /\ t \in Ids \ Repeating /\ t \notin unseen'
      BY <1>2, <2>2 DEF OneShots, ListTimely, Typed, ListTyped
    <3>2. t \notin unborn' /\ list'[t] = list[t]
      BY <1>0, <1>2, <3>1 DEF Listed
    <3>3. CASE rows'[t] = rows[t] \/ rows'[t] = Absent
      BY <3>1, <3>2, <3>3 DEF Listed, Present
    <3>4. CASE Updates(t)
      BY <1>2, <3>1, <3>2, <3>4 DEF Listed, Present, Updates
    <3> QED BY <3>1, <3>3, <3>4, RowMoves DEF Moved, Listed
  <2> QED BY <2>1, <2>2
<1> QED BY <1>1, <1>2, PruneMoves

\* A run that begins after the prune has looked at a timer is told by the history.
LEMMA RunsMoves ==
    ASSUME Typed, [Next]_vars, Doing(Engine, "doomed"), runs[job[Engine].id] = 0
    PROVE  runs'[job[Engine].id] = 0 \/ job[Engine].id \in unseen'
<1>0. runs \in [Ids -> Nat]
  BY DEF Typed, RowsTyped
<1>1. ASSUME NEW p \in Threads, ClaimRun(p)
      PROVE  runs'[job[Engine].id] = 0 \/ job[Engine].id \in unseen'
  <2> PICK t, u : t = job[p].id /\ u = job[Engine].id
    OBVIOUS
  <2>1. p # Engine
    BY <1>1 DEF ClaimRun, Doing
  <2>2. \/ UNCHANGED runs
        \/ /\ runs' = [runs EXCEPT ![t] = @ + 1]
           /\ u = t => u \in unseen'
    BY <1>1, <2>1 DEF ClaimRun
  <2>3. job[Engine] \in Dooms
    BY EngineIsThread, JobShape DEF Doing, Typed, JobsTyped
  <2> QED BY <1>0, <2>2, <2>3 DEF Dooms
<1>2. ASSUME NEW t \in Ids, FinishRun(t) PROVE runs'[job[Engine].id] = 0
  <2>1. t # job[Engine].id
    BY <1>2 DEF FinishRun
  <2>2. runs' = [runs EXCEPT ![t] = @ - 1] /\ job[Engine] \in Dooms
    BY <1>2, EngineIsThread, JobShape DEF FinishRun, Doing, Typed, JobsTyped
  <2> QED BY <1>0, <2>1, <2>2 DEF Dooms
<1>3. (\A p \in Threads : ~ClaimRun(p)) /\ (\A t \in Ids : ~FinishRun(t)) => UNCHANGED runs
  BY DEF Next, vars, dbVars, FindFolder, AllocateFolder, WriteTimerJson, Crash, ProjectFire, MarkFired,
         CreateTimer, EditTimer, RunNow, ResolveDelete, DeleteTimerLifecycle, RemoveFolder, TickTimer,
         StartPrune, DeletePruned, UnfoldPruned, ListLive, StartSweep, StartReconcile, SetLastPrune, PruneTimer,
         ReconcileFolder, Recalibrate, SweepFolder, StartYear, SetLastRecalibration, Booted, Tick
<1> QED BY <1>1, <1>2, <1>3

LEMMA DoomedStep ==
    ASSUME Typed, Typed', OneShots, [Next]_vars
    PROVE  Doomed'
<1> SUFFICES ASSUME Doing(Engine, "doomed")'
             PROVE  LET t == job'[Engine].id
                    IN  /\ t \in DOMAIN list' /\ Finished(t, list'[t], job'[Engine].since)
                        /\ t \notin unseen' => runs'[t] = 0
  BY DEF Doomed, Finished, PastValidity, TerminalAt
<1>0. InPrune'
  BY DEF InPrune, Doing
<1>1. ~StartPrune
  <2>1. ASSUME StartPrune PROVE FALSE
    <3>1. job'[Engine] = [step |-> "prune", boot |-> Doing(Engine, "boot"), since |-> now]
      BY <2>1, EngineIsThread DEF StartPrune, Become, Typed, JobsTyped
    <3> QED BY <3>1 DEF Doing
  <2> QED BY <2>1
<1>2. ASSUME NEW t \in Ids, PruneTimer(t)
      PROVE  /\ job'[Engine].id = t /\ t \in DOMAIN list' /\ Finished(t, list'[t], job'[Engine].since)
             /\ runs'[t] = 0
  <2>1. job[Engine].step = "prune" /\ UNCHANGED <<list, runs>> /\ t \in todo
    BY <1>2 DEF PruneTimer, Doing, dbVars
  <2>2. IsTerminalOneshot(t, list[t], job[Engine].since) /\ job' = [job EXCEPT ![Engine] = PassOn("doomed", t)]
    BY <1>2, <2>1 DEF PruneTimer, Become, Doing
  <2>3. job'[Engine] = PassOn("doomed", t)
    BY <2>2, EngineIsThread DEF Typed, JobsTyped
  <2>4. job'[Engine].id = t /\ job'[Engine].since = job[Engine].since
    BY <2>3 DEF PassOn
  <2>5. t \in DOMAIN list
    BY <2>1 DEF Typed, ListTyped
  <2> QED BY <2>1, <2>2, <2>4, <2>5 DEF IsTerminalOneshot
<1>3. CASE UNCHANGED list /\ unseen \subseteq unseen' /\ job'[Engine] = job[Engine]
  <2> PICK t : t = job[Engine].id
    OBVIOUS
  <2>1. Doing(Engine, "doomed") /\ job'[Engine].id = t /\ job'[Engine].since = job[Engine].since
    BY <1>3 DEF Doing
  <2>2. /\ t \in DOMAIN list /\ Finished(t, list[t], job[Engine].since)
        /\ t \notin unseen => runs[t] = 0
    BY <2>1 DEF OneShots, Doomed
  <2>3. t \notin unseen' => runs'[t] = 0
    BY <1>3, <2>1, <2>2, RunsMoves
  <2> QED BY <1>3, <2>1, <2>2, <2>3
<1> QED BY <1>0, <1>1, <1>2, <1>3, PruneMoves

\* A thread fires what it fired before, or a timer as it now is.
Same(j, k) == Firing(j) /\ k.id = j.id /\ k.row = j.row /\ k.at = j.at
Begins(t, k) ==
    /\ UNCHANGED <<now, rows, unborn>> /\ Present(t) /\ k.id = t /\ k.row = rows[t] /\ k.at <= now
    /\ rows[t].next = None => k.at = now
LEMMA FireMoves ==
    ASSUME Typed, [Next]_vars, NEW p \in Threads, Firing(job'[p])
    PROVE  Same(job[p], job'[p]) \/ \E t \in Ids : Begins(t, job'[p])
<1> DEFINE Goal == Same(job[p], job'[p]) \/ \E t \in Ids : Begins(t, job'[p])
<1>1. ASSUME NEW q \in Threads, NEW j, Become(q, j)
      PROVE  job'[q] = j /\ (q # p => job'[p] = job[p])
  BY <1>1 DEF Become, Typed, JobsTyped
<1>2. ASSUME job'[p] = job[p] PROVE Goal
  BY <1>2 DEF Same
<1>3. ASSUME NEW q \in Threads, NEW s \in Places, Become(q, [step |-> s]) PROVE Goal
  <2>1. q = p => ~Firing(job'[p])
    BY <1>1, <1>3 DEF Firing, Places
  <2> QED BY <1>1, <1>2, <1>3, <2>1
<1>4. ASSUME NEW q \in Threads, NEW t, NEW row, NEW at, NEW then, then # "claim",
             \/ Become(q, Sync(t, row, at, then))
             \/ Become(q, [Sync(t, row, at, then) EXCEPT !.step = "allocate"])
      PROVE  Goal
  <2>1. PICK k : /\ k = Sync(t, row, at, then) \/ k = [Sync(t, row, at, then) EXCEPT !.step = "allocate"]
                 /\ Become(q, k)
    BY <1>4
  <2>2. k.step \in {"find", "allocate"} /\ k.then = then
    BY <2>1 DEF Sync
  <2>3. q = p => ~Firing(job'[p])
    BY <1>1, <1>4, <2>1, <2>2 DEF Firing
  <2> QED BY <1>1, <1>2, <2>1, <2>3
<1>5. "idle" \in Places /\ "boot" \in Places /\ "year" \in Places /\ "view" \in Places /\ "bootview" \in Places
  BY DEF Places
<1>6. ASSUME NEW q \in Threads, FindFolder(q) \/ AllocateFolder(q) \/ WriteTimerJson(q) PROVE Goal
  <2>1. CASE q # p
    BY <1>2, <1>6, <2>1, FindMoves, AllocateMoves, WriteMoves
  <2>2. CASE q = p /\ FindFolder(p)
    BY <2>2, FindMoves DEF Same, Firing, Looks
  <2>3. CASE q = p /\ AllocateFolder(p)
    BY <2>3, AllocateMoves DEF Same, Firing, Looks
  <2>4. CASE q = p /\ WriteTimerJson(p)
    BY <2>4, WriteMoves DEF Same, Firing, Thens
  <2> QED BY <1>6, <2>1, <2>2, <2>3, <2>4
<1>7. ASSUME NEW q \in Threads, Crash(q) PROVE Goal
  BY <1>3, <1>5, <1>7 DEF Crash, Idle
<1>8. ASSUME NEW q \in Threads, ProjectFire(q) \/ ClaimRun(q) PROVE Goal
  <2>1. job[q] \in Firings
    BY <1>8, JobShape DEF ProjectFire, ClaimRun, Doing, Typed, JobsTyped
  <2>2. PICK k : /\ k = Sync(job[q].id, job[q].row, job[q].at, "claim") \/ k = [job[q] EXCEPT !.step = "mark"]
                 /\ Become(q, k)
    BY <1>8 DEF ProjectFire, ClaimRun
  <2>3. k.id = job[q].id /\ k.row = job[q].row /\ k.at = job[q].at
    BY <2>1, <2>2 DEF Sync, Firings
  <2>4. q = p => Same(job[p], job'[p])
    BY <1>1, <2>1, <2>2, <2>3 DEF Same, Firing, Firings
  <2> QED BY <1>1, <1>2, <2>2, <2>4
<1>9. ASSUME NEW q \in Threads, MarkFired(q) PROVE Goal
  <2>1. Become(q, Sync(job[q].id, rows'[job[q].id], None, "idle")) \/ Become(q, Idle)
    BY <1>9 DEF MarkFired
  <2> QED BY <1>3, <1>4, <1>5, <2>1 DEF Idle
<1>10. ASSUME NEW q \in Editors, NEW t \in Ids, CreateTimer(q, t) \/ EditTimer(q, t) PROVE Goal
  <2>1. \/ Become(q, [Sync(t, rows'[t], None, "idle") EXCEPT !.step = "allocate"])
        \/ Become(q, Sync(t, rows'[t], None, "idle"))
    BY <1>10 DEF CreateTimer, EditTimer
  <2> QED BY <1>4, <2>1, EngineIsThread
<1>11. ASSUME NEW q \in Threads, NEW t \in Ids, (TickTimer(t) /\ q = Engine) \/ RunNow(q, t) PROVE Goal
  <2>1. PICK at : /\ Become(q, [step |-> "fire", id |-> t, row |-> rows[t], at |-> at])
                  /\ \/ at = rows[t].next /\ Due(t)
                     \/ at = now
    BY <1>11 DEF TickTimer, RunNow
  <2>2. UNCHANGED <<now, rows, unborn>> /\ Present(t) /\ now \in Nat
    BY <1>11 DEF TickTimer, RunNow, Due, dbVars, Typed, RowsTyped
  <2>3. CASE q = p
    <3>1. job'[p] = [step |-> "fire", id |-> t, row |-> rows[t], at |-> at]
      BY <1>1, <2>1, <2>3
    <3>2. at <= now /\ (rows[t].next = None => at = now)
      BY <2>1, <2>2 DEF Due
    <3>3. Begins(t, job'[p])
      BY <2>2, <3>1, <3>2 DEF Begins
    <3> QED BY <3>3
  <2>4. CASE q # p
    BY <1>1, <1>2, <2>1, <2>4
  <2> QED BY <2>3, <2>4
<1>12. ASSUME NEW q \in Editors, NEW t \in Ids, ResolveDelete(q, t) PROVE Goal
  <2>1. q \in Threads /\ Become(q, [step |-> "delete", id |-> t])
    BY <1>12, EngineIsThread DEF ResolveDelete
  <2>2. q = p => ~Firing(job'[p])
    BY <1>1, <2>1 DEF Firing
  <2> QED BY <1>1, <1>2, <2>1, <2>2
<1>13. ASSUME NEW q \in Editors, DeleteTimerLifecycle(q) \/ RemoveFolder(q) PROVE Goal
  <2>1. q \in Threads /\ (Become(q, [job[q] EXCEPT !.step = "remove"]) \/ Become(q, Idle))
    BY <1>13, EngineIsThread DEF DeleteTimerLifecycle, RemoveFolder
  <2>2. job[q] \in Deletes
    BY <1>13, <2>1, JobShape DEF DeleteTimerLifecycle, RemoveFolder, Doing, Typed, JobsTyped
  <2>3. CASE Become(q, [job[q] EXCEPT !.step = "remove"])
    <3>1. PICK k : k = [job[q] EXCEPT !.step = "remove"]
      OBVIOUS
    <3>2. k.step = "remove"
      BY <2>2, <3>1 DEF Deletes
    <3>3. q = p => ~Firing(job'[p])
      BY <1>1, <2>1, <2>3, <3>1, <3>2 DEF Firing
    <3> QED BY <1>1, <1>2, <2>1, <2>3, <3>3
  <2>4. CASE Become(q, Idle)
    BY <1>3, <1>5, <2>1, <2>4 DEF Idle
  <2> QED BY <2>1, <2>3, <2>4
<1>14. ASSUME UNCHANGED job PROVE Goal
  BY <1>2, <1>14
<1>15. CASE StartPrune \/ DeletePruned \/ UnfoldPruned \/ ListLive \/ StartSweep \/ \E t \in Ids : PruneTimer(t)
  <2>1. InPrune' \/ job'[Engine].step \in {"list", "sweep"} \/ UNCHANGED job
    <3>1. CASE StartPrune
      <4>1. job'[Engine] = [step |-> "prune", boot |-> Doing(Engine, "boot"), since |-> now]
        BY <1>1, <3>1, EngineIsThread DEF StartPrune
      <4> QED BY <4>1 DEF InPrune
    <3>2. CASE DeletePruned \/ UnfoldPruned \/ \E t \in Ids : PruneTimer(t)
      <4>1. \/ (\E t : job'[Engine] \in {PassOn("unfold", t), PassOn("doomed", t)})
            \/ job'[Engine] = Pass("prune") \/ UNCHANGED job
        <5>1. ASSUME DeletePruned \/ UnfoldPruned
              PROVE  Become(Engine, PassOn("unfold", job[Engine].id)) \/ Become(Engine, Pass("prune"))
          BY <5>1 DEF DeletePruned, UnfoldPruned
        <5>2. ASSUME NEW t \in Ids, PruneTimer(t) PROVE Become(Engine, PassOn("doomed", t)) \/ UNCHANGED job
          BY <5>2 DEF PruneTimer
        <5>3. CASE DeletePruned \/ UnfoldPruned
          BY <1>1, <5>1, <5>3, EngineIsThread
        <5>4. ASSUME NEW t \in Ids, PruneTimer(t) PROVE job'[Engine] = PassOn("doomed", t) \/ UNCHANGED job
          BY <1>1, <5>2, <5>4, EngineIsThread
        <5> QED BY <3>2, <5>3, <5>4
      <4> QED BY <4>1 DEF PassOn, Pass, InPrune
    <3>3. CASE ListLive
      <4>1. job'[Engine] = [step |-> "list", boot |-> job[Engine].boot]
        BY <1>1, <3>3, EngineIsThread DEF ListLive
      <4> QED BY <4>1
    <3>4. CASE StartSweep
      <4>1. job[Engine] \in Sweeps
        BY <3>4, EngineIsThread, JobShape DEF StartSweep, Doing, Typed, JobsTyped
      <4>2. job'[Engine].step = "sweep"
        BY <1>1, <3>4, <4>1, EngineIsThread DEF StartSweep, Sweeps
      <4> QED BY <4>2
    <3> QED BY <1>15, <3>1, <3>2, <3>3, <3>4
  <2>2. p = Engine => ~Firing(job'[p]) \/ UNCHANGED job
    BY <2>1 DEF Firing, InPrune
  <2>3. p # Engine => job'[p] = job[p]
    <3>1. (\E j : Become(Engine, j)) \/ UNCHANGED job
      BY <1>15 DEF StartPrune, DeletePruned, UnfoldPruned, ListLive, StartSweep, PruneTimer
    <3> QED BY <1>1, <3>1, EngineIsThread
  <2> QED BY <1>2, <2>2, <2>3
<1>16. CASE StartReconcile \/ SetLastPrune \/ StartYear \/ SetLastRecalibration \/ Booted
  BY <1>3, <1>5, <1>16, EngineIsThread DEF StartReconcile, SetLastPrune, StartYear, SetLastRecalibration, Booted, Idle
<1>17. ASSUME NEW t \in Ids, ReconcileFolder(t) PROVE Goal
  <2>1. job[Engine].step # "claim" /\ Become(Engine, Sync(t, list[t], None, job[Engine].step))
    BY <1>17 DEF ReconcileFolder, View, Doing
  <2> QED BY <1>4, <2>1, EngineIsThread
<1>18. ASSUME NEW t \in Ids, Recalibrate(t) PROVE Goal
  <2>1. UNCHANGED job \/ Become(Engine, Idle)
    BY <1>18 DEF Recalibrate
  <2> QED BY <1>2, <1>3, <1>5, <2>1, EngineIsThread DEF Idle
<1>19. ASSUME (\E t \in Ids : FinishRun(t)) \/ (\E path \in Paths : SweepFolder(path)) \/ Tick \/ UNCHANGED vars
       PROVE  Goal
  BY <1>14, <1>19 DEF FinishRun, SweepFolder, Tick, vars
<1> QED BY <1>6, <1>7, <1>8, <1>9, <1>10, <1>11, <1>12, <1>13, <1>15, <1>16, <1>17, <1>18, <1>19,
           EngineIsThread DEF Next

LEMMA FiresStep ==
    ASSUME Typed, Typed', OneShots, [Next]_vars
    PROVE  FiresOk'
<1>0. now \in Nat /\ now' \in Nat /\ now <= now' /\ unborn' \subseteq unborn
  BY TimeMoves
<1> SUFFICES ASSUME NEW p \in Threads, Firing(job'[p]) PROVE FireOk(job[p])'
  BY DEF FiresOk, Firing
<1> PICK k : k = job'[p]
  OBVIOUS
<1>1. k.id \in Ids /\ k.row \in Rows /\ k.at \in Nat
  BY JobShape DEF Firing, Firings, Looks, Writes, Typed, JobsTyped
<1>2. CASE Same(job[p], k)
  <2> SUFFICES ASSUME k.id \notin Repeating
               PROVE  /\ k.at <= now' /\ k.id \notin unborn'
                      /\ Present(k.id)' => /\ k.row.rev <= rows'[k.id].rev
                                           /\ rows'[k.id].rev = k.row.rev => rows'[k.id] = k.row
                      /\ k.row.next = None => (k.row.until # None /\ k.row.until <= k.row.at) \/ k.row.at <= k.at
    BY DEF FireOk, Present
  <2>1. /\ k.at <= now /\ k.id \notin unborn
        /\ Present(k.id) => /\ k.row.rev <= rows[k.id].rev
                            /\ rows[k.id].rev = k.row.rev => rows[k.id] = k.row
        /\ k.row.next = None => (k.row.until # None /\ k.row.until <= k.row.at) \/ k.row.at <= k.at
    BY <1>2 DEF Same, OneShots, FiresOk, FireOk
  <2>2. Moved(k.id)
    BY <1>1, RowMoves
  <2>3. ASSUME Present(k.id)'
        PROVE  k.row.rev <= rows'[k.id].rev /\ (rows'[k.id].rev = k.row.rev => rows'[k.id] = k.row)
    <3>1. CASE rows'[k.id] = rows[k.id]
      BY <2>1, <2>3, <3>1 DEF Present
    <3>2. CASE Updates(k.id)
      <4>1. rows[k.id] \in Rows /\ rows'[k.id].rev = rows[k.id].rev + 1 /\ k.row.rev <= rows[k.id].rev
        BY <1>1, <2>1, <3>2, LiveRows DEF Updates, Typed
      <4> QED BY <1>1, <4>1 DEF Rows
    <3> QED BY <2>1, <2>2, <2>3, <3>1, <3>2 DEF Moved, Present
  <2>4. k.at <= now' /\ k.id \notin unborn'
    BY <1>0, <1>1, <2>1
  <2> QED BY <2>1, <2>3, <2>4
<1>3. ASSUME NEW t \in Ids, Begins(t, k) PROVE FireOk(job[p])'
  <2>1. /\ UNCHANGED <<now, rows, unborn>> /\ Present(t) /\ k.id = t /\ k.row = rows[t] /\ k.at <= now
        /\ rows[t].next = None => k.at = now
    BY <1>3 DEF Begins
  <2>2. CASE t \in Repeating
    BY <2>1, <2>2 DEF FireOk
  <2>3. CASE t \notin Repeating
    <3>1. Timely(rows[t]) /\ t \notin unborn /\ rows[t] \in Rows
      BY <2>1, <2>3, LiveRows DEF OneShots, RowsTimely, Unborn, Typed
    <3>2. rows[t].next = None => \/ rows[t].until # None /\ rows[t].until <= rows[t].at
                                 \/ rows[t].at <= k.at
      BY <1>0, <2>1, <3>1 DEF Timely, Exhausted, Rows
    <3> QED BY <2>1, <3>1, <3>2 DEF FireOk, Present, Rows
  <2> QED BY <2>2, <2>3
<1> QED BY <1>2, <1>3, FireMoves

\* A timer the prune takes has no run the pass could have seen, and it has no next fire or is past its
\* validity, whatever is edited, fired, run by hand or crashes before and during the pass - save a new
\* instant given after the listing and a run begun after the look (run_prune, is_terminal_oneshot).
THEOREM PendingIsPreserved == Spec => PendingPreserved
<1> DEFINE Spared == \A t \in Ids : Pruned(t) /\ t \notin unseen => runs[t] = 0 /\ Over(rows[t])
<1>1. Typed /\ OneShots /\ [Next]_vars => Typed' /\ OneShots'
  BY TypedNext, RowsTimelyStep, ListTimelyStep, FiresStep, DoomedStep DEF OneShots
<1>2. ASSUME Typed, OneShots PROVE Spared
  <2> SUFFICES ASSUME NEW t \in Ids, Doing(Engine, "doomed"), job[Engine].id = t, Present(t), t \notin unseen
               PROVE  runs[t] = 0 /\ Over(rows[t])
    BY DEF Pruned
  <2> PICK l, since : l = list[t] /\ since = job[Engine].since
    OBVIOUS
  <2>1. t \in DOMAIN list /\ Finished(t, l, since) /\ runs[t] = 0
    BY <1>2 DEF OneShots, Doomed
  <2>2. l \in Rows /\ rows[t] \in Rows /\ t \notin Repeating /\ now \in Nat /\ since \in Nat
    BY <1>2, <2>1, LiveRows, EngineIsThread, JobShape
       DEF Typed, ListTyped, Finished, RowsTyped, JobsTyped, Doing, Dooms
  <2>3. Listed(t) /\ since <= now
    BY <1>2, <2>1, <2>2 DEF OneShots, ListTimely, InPrune, Doing
  <2>4. rows[t].next \in {None, rows[t].at} /\ rows[t].at = l.at /\ rows[t].until = l.until
        /\ l.next \in {None, l.at} /\ (l.next = None => rows[t].next = None)
    BY <1>2, <2>2, <2>3 DEF OneShots, RowsTimely, Timely, Listed
  <2>5. l.next <= since /\ (l.next = None \/ (l.until # None /\ l.until <= since))
    BY <2>1, <2>2 DEF Finished, PastValidity, Rows
  <2>6. Over(rows[t])
    BY <2>2, <2>3, <2>4, <2>5 DEF Over, PastValidity, Rows, None
  <2> QED BY <2>1, <2>6
<1> QED BY <1>1, <1>2, InitTyped, InitOneShots, PTL DEF Spec, PendingPreserved
=============================================================================
