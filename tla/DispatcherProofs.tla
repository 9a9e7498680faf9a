-------------------------- MODULE DispatcherProofs --------------------------
(***************************************************************************)
(* What holds of Dispatcher for any timers, processes, workers, policies   *)
(* and bounds.                                                             *)
(***************************************************************************)
EXTENDS Dispatcher, FiniteSetTheorems, TLAPS

Busy(pc) == pc \notin {"idle", "exited"}

\* A worker between the receipt of a hint and its release holds a claim.
WorkersHold == \A p \in Procs, w \in Workers : Busy(wpc[p][w]) => wrun[p][w] \in Claims

TypeInv == TypeOK /\ WorkersHold

-----------------------------------------------------------------------------
\* At the start every variable has its type and no worker holds a claim.
LEMMA TypeInit == Init => TypeInv
BY BoundsAssumption, ProcsAssumption DEF Init, TypeInv, TypeOK, WorkersHold, Busy, Statuses, Outcomes, PumpPCs,
   WorkerPCs, MainPCs

\* Counting an environment event keeps the counters natural numbers.
LEMMA SpendType ==
    ASSUME NEW e \in EnvEvents, spent \in [EnvEvents -> Nat], Spend(e)
    PROVE  spent' \in [EnvEvents -> Nat]
BY DEF Spend

\* The returned claim keeps a legal status.
LEMMA RependType ==
    ASSUME NEW c, status \in [Claims -> Statuses], Repend(c)
    PROVE  status' \in [Claims -> Statuses] /\ UNCHANGED <<outcome, cancelReq, events>>
BY DEF Repend, Statuses

\* Counting an occurrence of a claim keeps the counters natural numbers.
LEMMA CountType ==
    ASSUME NEW f \in [Claims -> Nat], NEW c \in Claims
    PROVE  [f EXCEPT ![c] = @ + 1] \in [Claims -> Nat]
OBVIOUS

\* A result leaves the ledger well typed.
LEMMA FinishType ==
    ASSUME NEW c \in Claims, NEW o \in Outcomes, FinishWithEvent(c, o),
           status \in [Claims -> Statuses], outcome \in [Claims -> Outcomes],
           events \in [Claims -> Nat]
    PROVE  /\ status' \in [Claims -> Statuses]
           /\ outcome' \in [Claims -> Outcomes]
           /\ events' \in [Claims -> Nat]
           /\ UNCHANGED cancelReq
BY DEF FinishWithEvent, Statuses, ledger

\* Every step of every thread keeps the types, and keeps a claim in the hands of
\* each worker between the receipt of a hint and its release.
LEMMA TypeNext == TypeInv /\ [Next]_vars => TypeInv'
<1> SUFFICES ASSUME TypeInv, [Next]_vars PROVE TypeInv'
  OBVIOUS
<1>a. \A e \in {"crash", "panic", "store", "shutdown", "delete"} :
         Spend(e) => spent' \in [EnvEvents -> Nat]
  BY SpendType DEF EnvEvents, TypeInv, TypeOK
<1> USE <1>a, ProcsAssumption, BoundsAssumption, NoClaimAssumption DEF TypeInv, TypeOK, WorkersHold, Busy
<1> USE DEF ledger, lanes, pumpVars, workerVars, procVars
<1>1. ASSUME NEW t \in Timers, LoadTimer(t) PROVE TypeInv'
  BY <1>1 DEF LoadTimer
<1>2. ASSUME NEW t \in Timers, DeleteTimer(t) PROVE TypeInv'
  BY <1>2 DEF DeleteTimer
<1>3. ASSUME NEW p \in Procs, ShutdownBegin(p) PROVE TypeInv'
  BY <1>3 DEF ShutdownBegin, MainPCs
<1>4. ASSUME NEW p \in Procs, Crash(p) PROVE TypeInv'
  BY <1>4 DEF Crash, Forget, Owns, MainPCs, PumpPCs, WorkerPCs
<1>5. ASSUME NEW t \in Timers, FireAdmitted(t) PROVE TypeInv'
  BY <1>5 DEF FireAdmitted, FireUnchanged, ClaimsOf, Statuses, Outcomes
<1>6. ASSUME NEW t \in Timers, FireSkipped(t) PROVE TypeInv'
  BY <1>6 DEF FireSkipped, FireUnchanged, ClaimsOf, Statuses, Outcomes
<1>7. ASSUME NEW t \in Timers, FireReplacing(t) PROVE TypeInv'
  BY <1>7 DEF FireReplacing, FireUnchanged, ClaimsOf, WaitingClaims, RunningClaims, Statuses, Outcomes
<1>8. ASSUME NEW p \in Procs, Spawn(p) PROVE TypeInv'
  BY <1>8 DEF Spawn, TryLock, MainPCs
<1>9. ASSUME NEW p \in Procs, MainStep(p) PROVE TypeInv'
  <2>1. CASE BootScan(p)
    BY <2>1 DEF BootScan, MainPCs
  <2>2. CASE CliFollows(p)
    BY <2>2 DEF CliFollows, MainPCs
  <2>3. CASE BeginStartup(p)
    BY <2>3 DEF BeginStartup, RecoverClaims, RependAll, MainPCs, Statuses
  <2>4. CASE StayFollower(p)
    BY <2>4 DEF StayFollower, MainPCs
  <2>5. CASE ShutdownRelease(p)
    BY <2>5 DEF ShutdownRelease, Owns, MainPCs
  <2>6. CASE Exit(p)
    BY <2>6 DEF Exit, Forget, Owns, MainPCs, PumpPCs, WorkerPCs
  <2> QED BY <1>9, <2>1, <2>2, <2>3, <2>4, <2>5, <2>6 DEF MainStep
<1>10. ASSUME NEW p \in Procs, PumpStep(p) PROVE TypeInv'
  <2> USE DEF PumpUnchanged
  <2>1. CASE PumpTakeLock(p)
    BY <2>1 DEF PumpTakeLock, PumpPCs
  <2>2. CASE PumpRecover(p)
    <3>1. /\ status' \in [Claims -> Statuses]
          /\ outcome' \in [Claims -> Outcomes]
          /\ spent' \in [EnvEvents -> Nat]
      <4>1. CASE UNCHANGED <<ledger, spent>>
        BY <4>1
      <4>2. CASE RecoverClaims
        BY <4>2 DEF RecoverClaims, RependAll, Statuses
      <4> QED BY <2>2, <4>1, <4>2 DEF PumpRecover
    <3>2. UNCHANGED <<cancelReq, events>>
      BY <2>2 DEF PumpRecover, RecoverClaims, RependAll
    <3> QED BY <2>2, <3>1, <3>2 DEF PumpRecover, PumpPCs
  <2>3. CASE PumpMarkStarted(p)
    BY <2>3 DEF PumpMarkStarted, PumpPCs
  <2>4. CASE PumpExit(p)
    BY <2>4 DEF PumpExit, PumpPCs
  <2>5. CASE PumpSignal(p)
    BY <2>5 DEF PumpSignal, PumpPCs
  <2>6. CASE PumpScan(p)
    BY <2>6 DEF PumpScan, PumpPCs
  <2>7. CASE PumpLockLanes(p)
    BY <2>7 DEF PumpLockLanes, PumpPCs
  <2>8. CASE PumpSkipReserved(p)
    BY <2>8 DEF PumpSkipReserved, PumpPCs
  <2>9. CASE PumpCloseOrphan(p)
    <3>1. /\ status' \in [Claims -> Statuses]
          /\ outcome' \in [Claims -> Outcomes]
          /\ snapshot' \in [Procs -> SUBSET Claims]
      <4> PICK c \in Claims :
            /\ snapshot' = [snapshot EXCEPT ![p] = @ \ {c}]
            /\ \/ /\ status' = [status EXCEPT ![c] = "finished"]
                  /\ outcome' = [outcome EXCEPT ![c] = "timer_deleted"]
               \/ UNCHANGED <<status, outcome>>
        BY <2>9 DEF PumpCloseOrphan, PumpPCs
      <4> QED BY DEF Statuses, Outcomes
    <3> QED BY <2>9, <3>1 DEF PumpCloseOrphan, PumpPCs
  <2>10. CASE PumpLaneBusy(p)
    BY <2>10 DEF PumpLaneBusy, PumpPCs
  <2>11. CASE PumpSend(p)
    BY <2>11 DEF PumpSend, PumpPCs
  <2>12. CASE PumpEndPass(p)
    BY <2>12 DEF PumpEndPass, PumpPCs
  <2> QED BY <1>10, <2>1, <2>2, <2>3, <2>4, <2>5, <2>6, <2>7, <2>8, <2>9, <2>10, <2>11,
             <2>12 DEF PumpStep
<1>11. ASSUME NEW p \in Procs, NEW w \in Workers, WorkerStep(p, w) PROVE TypeInv'
  <2> USE DEF WorkerUnchanged, Goto
  <2>1. CASE WorkerRecv(p, w)
    BY <2>1 DEF WorkerRecv, WorkerPCs
  <2>2. CASE WorkerExit(p, w)
    BY <2>2 DEF WorkerExit, WorkerPCs
  <2>3. CASE WorkerActivate(p, w)
    BY <2>3 DEF WorkerActivate, WorkerPCs, Statuses
  <2>4. CASE WorkerLose(p, w)
    BY <2>4 DEF WorkerLose, WorkerPCs
  <2>5. CASE WorkerStart(p, w)
    <3> DEFINE c == wrun[p][w]
    <3>1. c \in Claims
      BY <2>5 DEF WorkerStart, WorkerPCs
    <3>2. /\ queued' \in [Procs -> SUBSET Claims]
          /\ active' \in [Procs -> SUBSET Claims]
          /\ UNCHANGED <<timerRows, lock, loaded, mode, main, scanned, closed, pump,
                         snapshot, hints, cancelled, wrun>>
      BY <2>5, <3>1 DEF WorkerStart
    <3>3. CASE Goto(p, w, "executing") /\ starts' = [starts EXCEPT ![c] = @ + 1]
               /\ UNCHANGED <<ledger, spent>>
      <4>1. starts' \in [Claims -> Nat]
        BY <3>1, <3>3, CountType
      <4>2. wpc' \in [Procs -> [Workers -> WorkerPCs]]
        BY <3>3 DEF WorkerPCs
      <4> QED BY <3>1, <3>2, <3>3, <4>1, <4>2
    <3>4. CASE Goto(p, w, "orphaned") /\ UNCHANGED <<ledger, starts, spent>>
      <4>1. wpc' \in [Procs -> [Workers -> WorkerPCs]]
        BY <3>4 DEF WorkerPCs
      <4> QED BY <3>1, <3>2, <3>4, <4>1
    <3>5. CASE Spend("store") /\ Repend(c) /\ Goto(p, w, "releasing_lane") /\ UNCHANGED starts
      <4>1. wpc' \in [Procs -> [Workers -> WorkerPCs]]
        BY <3>5 DEF WorkerPCs
      <4>2. spent' \in [EnvEvents -> Nat]
        BY <3>5
      <4>3. status' \in [Claims -> Statuses] /\ UNCHANGED <<outcome, cancelReq, events>>
        BY <3>5, RependType
      <4> QED BY <3>1, <3>2, <3>5, <4>1, <4>2, <4>3
    <3> QED BY <2>5, <3>3, <3>4, <3>5 DEF WorkerStart
  <2>6. CASE WorkerFinish(p, w)
    <3> DEFINE c == wrun[p][w]
    <3>1. c \in Claims
      BY <2>6 DEF WorkerFinish, WorkerPCs
    <3>2. /\ status' \in [Claims -> Statuses]
          /\ outcome' \in [Claims -> Outcomes]
          /\ events' \in [Claims -> Nat]
          /\ UNCHANGED cancelReq
          /\ spent' \in [EnvEvents -> Nat]
      <4>1. CASE UNCHANGED spent /\ \E o \in Outcomes : FinishWithEvent(c, o)
        BY <3>1, <4>1, FinishType
      <4>2. CASE Spend("store") /\ UNCHANGED ledger
        BY <4>2
      <4>3. Execute(c \in cancelled[p]) \subseteq Outcomes /\ "timer_deleted" \in Outcomes
        BY DEF Execute, ExecuteOnce, Outcomes
      <4> QED BY <2>6, <4>1, <4>2, <4>3 DEF WorkerFinish
    <3> QED BY <2>6, <3>1, <3>2 DEF WorkerFinish, WorkerPCs
  <2>7. CASE WorkerPanic(p, w)
    BY <2>7 DEF WorkerPanic, Repend, WorkerPCs, Statuses
  <2>8. CASE WorkerRelease(p, w)
    BY <2>8 DEF WorkerRelease, WorkerPCs
  <2> QED BY <1>11, <2>1, <2>2, <2>3, <2>4, <2>5, <2>6, <2>7, <2>8 DEF WorkerStep
<1>12. CASE UNCHANGED vars
  BY <1>12 DEF vars
<1> QED BY <1>1, <1>2, <1>3, <1>4, <1>5, <1>6, <1>7, <1>8, <1>9, <1>10, <1>11, <1>12
        DEF Next, Environment, Fire

\* The dispatcher's state keeps its types in every reachable state.
THEOREM TypeCorrect == Spec => []TypeOK
<1>1. TypeInv => TypeOK
  BY DEF TypeInv
<1> QED BY TypeInit, TypeNext, <1>1, PTL DEF Spec
-----------------------------------------------------------------------------
(* Lanes: what a process holds, it holds once, and only under the lock.    *)

\* A worker that has left found the channel closed and drained.
ExitedDrained ==
    \A p \in Procs, w \in Workers : wpc[p][w] = "exited" => p \in closed /\ hints[p] = <<>>

\* Without the lock a process neither pumps nor works, and has no hint left.
IdleWithoutLock ==
    \A p \in Procs : ~Owns(p) => /\ pump[p] \in {"idle", "exited"}
                                 /\ hints[p] = <<>>
                                 /\ \A w \in Workers : ~Busy(wpc[p][w])

\* Every hint is reserved, and hints one claim only.
HintsReserved ==
    \A p \in Procs : \A i \in 1..Len(hints[p]) :
        /\ hints[p][i] \in queued[p]
        /\ \A j \in 1..Len(hints[p]) : hints[p][i] = hints[p][j] => i = j

\* A worker's claim is reserved, and neither hinted nor another worker's.
HeldReserved ==
    \A p \in Procs, w \in Workers :
        /\ wpc[p][w] \in {"got", "activated", "releasing_queued"} => wrun[p][w] \in queued[p]
        /\ wpc[p][w] \in {"orphaned", "executing", "releasing_lane"} => wrun[p][w] \in active[p]
HeldNotHinted ==
    \A p \in Procs, w \in Workers : \A i \in 1..Len(hints[p]) :
        Busy(wpc[p][w]) => hints[p][i] # wrun[p][w]
HeldOnce ==
    \A p \in Procs : \A v, w \in Workers :
        Busy(wpc[p][v]) /\ Busy(wpc[p][w]) /\ wrun[p][v] = wrun[p][w] => v = w

LanesInv ==
    /\ ExitedDrained
    /\ IdleWithoutLock
    /\ HintsReserved
    /\ HeldReserved
    /\ HeldNotHinted
    /\ HeldOnce

LaneWithinLimit == \A p \in Procs, t \in Timers : Cardinality(InLane(p, t)) <= Limit(t)


\* The lane book is empty at the start.
LEMMA LanesInit == Init => LanesInv
BY DEF Init, LanesInv, ExitedDrained, IdleWithoutLock, HintsReserved, HeldReserved, HeldNotHinted,
   HeldOnce, Busy, Owns

\* Every step keeps the lane book in order: what is hinted or held by a worker is
\* reserved, nothing is held twice, and a process without the lock has nothing
\* under way (run_job, finish_lane, shutdown_drain, takeover).
LEMMA LanesNext == TypeInv /\ TypeInv' /\ LanesInv /\ [Next]_vars => LanesInv'
<1> SUFFICES ASSUME TypeInv, TypeInv', LanesInv, [Next]_vars PROVE LanesInv'
  OBVIOUS
<1> DEFINE Frame == UNCHANGED <<lock, closed, pump, hints, queued, active, wpc, wrun>>
<1> USE DEF LanesInv, ExitedDrained, IdleWithoutLock, HintsReserved, HeldReserved, HeldNotHinted,
            HeldOnce, Busy, Owns
<1>1. CASE Frame
  BY <1>1
<1>2. ASSUME NEW p \in Procs, Forget(p) PROVE LanesInv'
  BY <1>2, ProcsAssumption DEF Forget, TypeInv, TypeOK
\* The lock is taken from nobody.
<1>3. CASE /\ UNCHANGED <<closed, pump, hints, queued, active, wpc, wrun>>
           /\ lock = NoProc
  BY <1>3, ProcsAssumption
<1>4. ASSUME NEW p \in Procs, Spawn(p) PROVE LanesInv'
  BY <1>4, <1>1, <1>3 DEF Spawn, TryLock, pumpVars, lanes, workerVars
<1>5. ASSUME NEW p \in Procs, MainStep(p) PROVE LanesInv'
  <2>1. CASE BootScan(p) \/ CliFollows(p) \/ StayFollower(p)
    BY <2>1, <1>1 DEF BootScan, CliFollows, StayFollower, pumpVars, lanes, workerVars
  <2>2. CASE BeginStartup(p)
    BY <2>2, <1>1, <1>3 DEF BeginStartup, pumpVars, lanes, workerVars
  <2>3. CASE ShutdownRelease(p)
    <3>1. /\ UNCHANGED <<closed, pump, hints, queued, active, wpc, wrun>>
          /\ pump[p] = "exited"
          /\ \A w \in Workers : wpc[p][w] = "exited"
          /\ \A q \in Procs \ {p} : Owns(q) => Owns(q)'
      BY <2>3, ProcsAssumption DEF ShutdownRelease, ThreadsJoined, pumpVars, lanes, workerVars
    <3>2. hints[p] = <<>>
      BY <3>1, WorkersAssumption
    <3> QED BY <3>1, <3>2
  <2>4. CASE Exit(p)
    BY <2>4, <1>2 DEF Exit
  <2> QED BY <1>5, <2>1, <2>2, <2>3, <2>4 DEF MainStep
<1>6. ASSUME NEW p \in Procs, PumpStep(p) PROVE LanesInv'
  <2> USE DEF PumpUnchanged, workerVars
  <2>1. CASE PumpTakeLock(p)
    BY <2>1, ProcsAssumption DEF PumpTakeLock, TypeInv, TypeOK
  <2>2. CASE PumpSend(p)
    <3>1. PICK c \in Claims : /\ ~Reserved(p, c)
                              /\ pump[p] = "dispatching"
                              /\ p \notin closed
                              /\ hints' = [hints EXCEPT ![p] = Append(@, c)]
                              /\ queued' = [queued EXCEPT ![p] = @ \union {c}]
                              /\ UNCHANGED <<lock, closed, pump, active, wpc, wrun>>
      BY <2>2 DEF PumpSend, IsEligible, IsNextInSnapshot
    <3>2. hints[p] \in Seq(Claims) /\ hints'[p] = Append(hints[p], c)
          /\ \A q \in Procs \ {p} : hints'[q] = hints[q] /\ queued'[q] = queued[q]
      BY <3>1 DEF TypeInv, TypeOK
    <3>3. queued'[p] = queued[p] \union {c} /\ c \notin queued[p] \union active[p]
      BY <3>1 DEF TypeInv, TypeOK, Reserved
    <3>4. /\ Len(hints'[p]) = Len(hints[p]) + 1
          /\ \A i \in 1..Len(hints[p]) : hints'[p][i] = hints[p][i]
          /\ hints'[p][Len(hints[p]) + 1] = c
          /\ Len(hints[p]) \in Nat
      BY <3>2
    <3>5. HintsReserved'
      <4>1. ASSUME NEW q \in Procs, q # p, NEW i \in 1..Len(hints'[q])
            PROVE  /\ hints'[q][i] \in queued'[q]
                   /\ \A j \in 1..Len(hints'[q]) : hints'[q][i] = hints'[q][j] => i = j
        BY <3>2, <4>1
      <4>2. ASSUME NEW i \in 1..Len(hints'[p])
            PROVE  /\ hints'[p][i] \in queued'[p]
                   /\ \A j \in 1..Len(hints'[p]) : hints'[p][i] = hints'[p][j] => i = j
        <5>1. \A j \in 1..Len(hints[p]) : hints'[p][j] # c /\ hints'[p][j] \in queued'[p]
          BY <3>3, <3>4
        <5>2. hints'[p][i] \in queued'[p]
          BY <3>3, <3>4, <5>1
        <5>3. ASSUME NEW j \in 1..Len(hints'[p]), hints'[p][i] = hints'[p][j] PROVE i = j
          <6>1. CASE i \in 1..Len(hints[p]) /\ j \in 1..Len(hints[p])
            BY <3>4, <5>3, <6>1
          <6>2. CASE i \notin 1..Len(hints[p]) \/ j \notin 1..Len(hints[p])
            BY <3>4, <5>1, <5>3, <6>2
          <6> QED BY <6>1, <6>2
        <5> QED BY <5>2, <5>3
      <4> QED BY <4>1, <4>2
    <3>6. ASSUME NEW w \in Workers, Busy(wpc[p][w]) PROVE wrun[p][w] # c
      BY <3>3, <3>6 DEF TypeInv, TypeOK, WorkerPCs
    <3>7. HeldNotHinted'
      <4>1. ASSUME NEW q \in Procs, NEW w \in Workers, NEW i \in 1..Len(hints'[q]), Busy(wpc[q][w])
            PROVE  hints'[q][i] # wrun[q][w]
        <5>1. CASE q # p
          BY <3>2, <4>1, <5>1
        <5>2. CASE q = p /\ i # Len(hints[p]) + 1
          <6>1. i \in 1..Len(hints[p]) /\ hints'[p][i] = hints[p][i]
            BY <3>4, <5>2
          <6> QED BY <4>1, <5>2, <6>1
        <5>3. CASE q = p /\ i = Len(hints[p]) + 1
          BY <3>4, <3>6, <4>1, <5>3
        <5> QED BY <5>1, <5>2, <5>3
      <4> QED BY <3>1, <4>1
    <3>8. IdleWithoutLock' /\ ExitedDrained'
      BY <3>1, <3>2
    <3>9. HeldReserved' /\ HeldOnce'
      BY <3>1, <3>2, <3>3
    <3> QED BY <3>5, <3>7, <3>8, <3>9
  \* A step of the pump alone: it neither sends nor takes the lock.
  <2>3. CASE /\ UNCHANGED <<lock, closed, hints, queued, active, wpc, wrun>>
             /\ Owns(p) \/ pump'[p] \in {"idle", "exited"}
             /\ \A q \in Procs \ {p} : pump'[q] = pump[q]
    BY <2>3
  <2>4. CASE PumpRecover(p) \/ PumpMarkStarted(p) \/ PumpExit(p) \/ PumpSignal(p) \/ PumpScan(p)
             \/ PumpLockLanes(p)
    BY <2>3, <2>4 DEF PumpRecover, PumpMarkStarted, PumpExit, PumpSignal, PumpScan, PumpLockLanes,
       TypeInv, TypeOK
  <2>5. CASE PumpSkipReserved(p) \/ PumpCloseOrphan(p) \/ PumpLaneBusy(p)
    BY <1>1, <2>5 DEF PumpSkipReserved, PumpCloseOrphan, PumpLaneBusy
  <2>6. CASE PumpEndPass(p)
    BY <2>3, <2>6 DEF PumpEndPass, TypeInv, TypeOK
  <2> QED BY <1>6, <2>1, <2>2, <2>4, <2>5, <2>6 DEF PumpStep
<1>7. ASSUME NEW p \in Procs, NEW w \in Workers, WorkerStep(p, w) PROVE LanesInv'
  <2> USE DEF WorkerUnchanged, Goto, procVars, pumpVars, lanes
  \* A step that leaves the worker with its claim, and the claim in its lane.
  <2>1. ASSUME NEW pc \in WorkerPCs, Goto(p, w, pc),
               UNCHANGED <<lock, closed, pump, hints, queued, active, wrun>>,
               pc # "exited",
               \/ {wpc[p][w], pc} \subseteq {"got", "activated", "releasing_queued"}
               \/ {wpc[p][w], pc} \subseteq {"orphaned", "executing", "releasing_lane"}
        PROVE  LanesInv'
    <3>1. /\ \A q \in Procs \ {p} : wpc'[q] = wpc[q]
          /\ \A v \in Workers \ {w} : wpc'[p][v] = wpc[p][v]
          /\ wpc'[p][w] = pc
      BY <2>1 DEF TypeInv, TypeOK
    <3>2. \A q \in Procs, v \in Workers : Busy(wpc'[q][v]) <=> Busy(wpc[q][v])
      BY <2>1, <3>1
    <3>3. ExitedDrained' /\ IdleWithoutLock' /\ HintsReserved'
      BY <2>1, <3>1
    <3>4. HeldReserved'
      BY <2>1, <3>1
    <3>5. HeldNotHinted' /\ HeldOnce'
      BY <2>1, <3>2
    <3> QED BY <3>3, <3>4, <3>5
  <2>2. CASE WorkerRecv(p, w)
    <3> DEFINE c == Head(hints[p])
    <3>1. /\ wpc[p][w] = "idle"
          /\ hints[p] # <<>>
          /\ hints[p] \in Seq(Claims)
          /\ UNCHANGED <<lock, closed, pump, queued, active>>
          /\ \A q \in Procs \ {p} : hints'[q] = hints[q] /\ wpc'[q] = wpc[q] /\ wrun'[q] = wrun[q]
      BY <2>2 DEF WorkerRecv, TypeInv, TypeOK
    <3>2. /\ wpc'[p][w] = "got"
          /\ wrun'[p][w] = c
          /\ \A v \in Workers \ {w} : wpc'[p][v] = wpc[p][v] /\ wrun'[p][v] = wrun[p][v]
          /\ hints'[p] = Tail(hints[p])
      BY <2>2 DEF WorkerRecv, TypeInv, TypeOK
    <3>3. /\ Len(hints[p]) \in Nat \ {0}
          /\ c = hints[p][1]
          /\ Len(hints'[p]) = Len(hints[p]) - 1
          /\ \A i \in 1..Len(hints'[p]) : hints'[p][i] = hints[p][i + 1]
      BY <3>1, <3>2
    <3> HIDE DEF c
    <3>4. /\ c \in queued[p]
          /\ \A i \in 1..Len(hints'[p]) : hints'[p][i] # c
          /\ \A v \in Workers : Busy(wpc[p][v]) => wrun[p][v] # c
      BY <3>3
    <3>5. HintsReserved' /\ HeldNotHinted'
      <4>1. ASSUME NEW q \in Procs, q # p PROVE
              /\ \A i \in 1..Len(hints'[q]) :
                    /\ hints'[q][i] \in queued'[q]
                    /\ \A j \in 1..Len(hints'[q]) : hints'[q][i] = hints'[q][j] => i = j
              /\ \A v \in Workers : \A i \in 1..Len(hints'[q]) :
                    Busy(wpc'[q][v]) => hints'[q][i] # wrun'[q][v]
        BY <3>1, <4>1
      <4>2. ASSUME NEW i \in 1..Len(hints'[p])
            PROVE  /\ hints'[p][i] \in queued'[p]
                   /\ \A j \in 1..Len(hints'[p]) : hints'[p][i] = hints'[p][j] => i = j
        BY <3>1, <3>3
      <4>3. ASSUME NEW v \in Workers, NEW i \in 1..Len(hints'[p]), Busy(wpc'[p][v])
            PROVE  hints'[p][i] # wrun'[p][v]
        <5>1. hints'[p][i] = hints[p][i + 1] /\ i + 1 \in 1..Len(hints[p])
          <6>1. i \in 1..(Len(hints[p]) - 1)
            BY <3>3
          <6> QED BY <3>3, <6>1
        <5>2. CASE v = w
          BY <3>2, <3>4, <5>2
        <5>3. CASE v # w
          BY <3>2, <4>3, <5>1, <5>3
        <5> QED BY <5>2, <5>3
      <4> QED BY <4>1, <4>2, <4>3
    <3>6. IdleWithoutLock' /\ ExitedDrained'
      BY <3>1, <3>2, <3>3
    <3>7. HeldReserved'
      BY <3>1, <3>2, <3>4
    <3>8. HeldOnce'
      BY <3>1, <3>2, <3>4
    <3> QED BY <3>5, <3>6, <3>7, <3>8
  <2>3. CASE WorkerExit(p, w)
    <3>1. /\ UNCHANGED <<lock, closed, pump, hints, queued, active, wrun>>
          /\ wpc'[p][w] = "exited"
          /\ \A v \in Workers \ {w} : wpc'[p][v] = wpc[p][v]
          /\ \A q \in Procs \ {p} : wpc'[q] = wpc[q]
          /\ p \in closed /\ hints[p] = <<>>
      BY <2>3 DEF WorkerExit, TypeInv, TypeOK
    <3> QED BY <3>1
  <2>4. CASE WorkerActivate(p, w) \/ WorkerLose(p, w) \/ WorkerFinish(p, w) \/ WorkerPanic(p, w)
    <3>1. CASE WorkerActivate(p, w)
      BY <2>1, <3>1 DEF WorkerActivate, WorkerPCs
    <3>2. CASE WorkerLose(p, w)
      BY <2>1, <3>2 DEF WorkerLose, WorkerPCs
    <3>3. CASE WorkerFinish(p, w)
      <4>1. wpc[p][w] \in {"orphaned", "executing"}
        BY <3>3 DEF WorkerFinish
      <4> QED BY <2>1, <3>3, <4>1 DEF WorkerFinish, WorkerPCs
    <3>4. CASE WorkerPanic(p, w)
      BY <2>1, <3>4 DEF WorkerPanic, WorkerPCs
    <3> QED BY <2>4, <3>1, <3>2, <3>3, <3>4
  <2>5. CASE WorkerStart(p, w)
    <3> DEFINE c == wrun[p][w]
    <3>1. /\ UNCHANGED <<lock, closed, pump, hints, wrun>>
          /\ wpc[p][w] = "activated"
          /\ wpc'[p][w] \in {"executing", "orphaned", "releasing_lane"}
          /\ \A v \in Workers \ {w} : wpc'[p][v] = wpc[p][v]
          /\ \A q \in Procs \ {p} : wpc'[q] = wpc[q]
      BY <2>5 DEF WorkerStart, TypeInv, TypeOK
    <3>2. /\ queued'[p] = queued[p] \ {c}
          /\ active'[p] = active[p] \union {c}
          /\ \A q \in Procs \ {p} : queued'[q] = queued[q] /\ active'[q] = active[q]
      BY <2>5 DEF WorkerStart, TypeInv, TypeOK
    <3>3. /\ \A i \in 1..Len(hints[p]) : hints[p][i] # c
          /\ \A v \in Workers \ {w} : Busy(wpc[p][v]) => wrun[p][v] # c
      BY <3>1
    <3> HIDE DEF c
    <3>4. HintsReserved' /\ HeldNotHinted' /\ HeldOnce'
      BY <3>1, <3>2, <3>3
    <3>5. HeldReserved'
      BY <3>1, <3>2, <3>3 DEF c
    <3>6. IdleWithoutLock' /\ ExitedDrained'
      BY <3>1
    <3> QED BY <3>4, <3>5, <3>6
  <2>6. CASE WorkerRelease(p, w)
    <3> DEFINE c == wrun[p][w]
    <3>1. /\ UNCHANGED <<lock, closed, pump, hints>>
          /\ wpc[p][w] \in {"releasing_queued", "releasing_lane"}
          /\ wpc'[p][w] = "idle"
          /\ \A v \in Workers \ {w} : wpc'[p][v] = wpc[p][v] /\ wrun'[p][v] = wrun[p][v]
          /\ \A q \in Procs \ {p} : wpc'[q] = wpc[q] /\ wrun'[q] = wrun[q]
      BY <2>6 DEF WorkerRelease, TypeInv, TypeOK
    <3>2. /\ queued'[p] = queued[p] \ {c}
          /\ active'[p] \in {active[p], active[p] \ {c}}
          /\ \A q \in Procs \ {p} : queued'[q] = queued[q] /\ active'[q] = active[q]
      BY <2>6 DEF WorkerRelease, TypeInv, TypeOK
    <3>3. /\ \A i \in 1..Len(hints[p]) : hints[p][i] # c
          /\ \A v \in Workers \ {w} : Busy(wpc[p][v]) => wrun[p][v] # c
      BY <3>1
    <3> HIDE DEF c
    <3>4. HintsReserved' /\ HeldNotHinted' /\ HeldOnce'
      BY <3>1, <3>2, <3>3
    <3>5. HeldReserved'
      BY <3>1, <3>2, <3>3
    <3>6. IdleWithoutLock' /\ ExitedDrained'
      BY <3>1
    <3> QED BY <3>4, <3>5, <3>6
  <2> QED BY <1>7, <2>2, <2>3, <2>4, <2>5, <2>6 DEF WorkerStep
<1>8. ASSUME NEW t \in Timers, LoadTimer(t) \/ DeleteTimer(t) \/ Fire(t) PROVE LanesInv'
  BY <1>8, <1>1 DEF LoadTimer, DeleteTimer, Fire, FireAdmitted, FireSkipped, FireReplacing, FireUnchanged,
     procVars, pumpVars, lanes, workerVars
<1>9. ASSUME NEW p \in Procs, ShutdownBegin(p) PROVE LanesInv'
  BY <1>9 DEF ShutdownBegin, pumpVars, lanes, workerVars
<1>10. ASSUME NEW p \in Procs, Crash(p) PROVE LanesInv'
  BY <1>10, <1>2 DEF Crash
<1>11. CASE UNCHANGED vars
  BY <1>11, <1>1 DEF vars, procVars, pumpVars, lanes, workerVars
<1> QED BY <1>4, <1>5, <1>6, <1>7, <1>8, <1>9, <1>10, <1>11 DEF Next, Environment

\* Types and lane book hold in every reachable state.
LEMMA LanesInvariant == Spec => [](TypeInv /\ LanesInv)
BY TypeInit, TypeNext, LanesInit, LanesNext, PTL DEF Spec

\* Only the process that holds the dispatcher lock executes actions, through
\* every takeover, shutdown and crash.
THEOREM OwnerExecutes == Spec => []OnlyOwnerExecutes
<1>1. LanesInv => OnlyOwnerExecutes
  BY DEF LanesInv, IdleWithoutLock, Busy, OnlyOwnerExecutes, Executing
<1> QED BY <1>1, LanesInvariant, PTL

\* No claim is executed by two workers at once, of one process or of two.
THEOREM ExecutedOnce == Spec => []NoDoubleExecution
<1>1. LanesInv => NoDoubleExecution
  <2> SUFFICES ASSUME LanesInv, NEW p \in Procs, NEW q \in Procs, NEW v \in Workers, NEW w \in Workers,
                      Executing(p, v), Executing(q, w), wrun[p][v] = wrun[q][w]
               PROVE  p = q /\ v = w
    BY DEF NoDoubleExecution
  <2>1. Owns(p) /\ Owns(q)
    BY DEF LanesInv, IdleWithoutLock, Busy, Executing
  <2>2. p = q
    BY <2>1 DEF Owns
  <2> QED BY <2>2 DEF LanesInv, HeldOnce, Busy, Executing
<1> QED BY <1>1, LanesInvariant, PTL

-----------------------------------------------------------------------------
(* The number of claims in a lane.                                         *)

\* Claims, and so every lane, are finite sets.
LEMMA ClaimsFinite == IsFiniteSet(Claims) /\ \A S \in SUBSET Claims : IsFiniteSet(S)
<1>1. IsFiniteSet(1..MaxFires)
  BY BoundsAssumption, FS_Interval
<1>2. IsFiniteSet(Claims)
  BY <1>1, TimersAssumption, FS_Product DEF Claims
<1> QED BY <1>2, FS_Subset

\* The limit of a lane is a natural number, whatever the overlap policy.
LEMMA LimitType == \A t \in Timers : Limit(t) \in Nat
BY PolicyAssumption DEF Limit

\* The lanes are within their limits at the start.
LEMMA LaneInit == Init => LaneWithinLimit
<1> SUFFICES ASSUME Init, NEW p \in Procs, NEW t \in Timers PROVE Cardinality(InLane(p, t)) <= Limit(t)
  BY DEF LaneWithinLimit
<1>1. InLane(p, t) = {}
  BY DEF Init, InLane
<1> QED BY <1>1, LimitType, FS_EmptySet

\* Only pump_once adds to a lane, after it compared the lane with its limit.
LEMMA LaneNext == TypeInv /\ TypeInv' /\ LanesInv /\ LaneWithinLimit /\ [Next]_vars => LaneWithinLimit'
<1> SUFFICES ASSUME TypeInv, TypeInv', LanesInv, LaneWithinLimit, [Next]_vars,
                    NEW q \in Procs, NEW t \in Timers
             PROVE  Cardinality(InLane(q, t)') <= Limit(t)
  BY DEF LaneWithinLimit, Limit
<1>1. ASSUME InLane(q, t)' \subseteq InLane(q, t) PROVE Cardinality(InLane(q, t)') <= Limit(t)
  <2>1. IsFiniteSet(InLane(q, t))
    BY ClaimsFinite DEF InLane, TypeInv, TypeOK
  <2>2. /\ Cardinality(InLane(q, t)') \in Nat
        /\ Cardinality(InLane(q, t)) \in Nat
        /\ Cardinality(InLane(q, t)') <= Cardinality(InLane(q, t))
    BY <1>1, <2>1, FS_Subset, FS_CardinalityType
  <2> QED BY <2>2, LimitType DEF LaneWithinLimit
<1>2. CASE UNCHANGED <<queued, active>>
  BY <1>1, <1>2 DEF InLane
<1>3. ASSUME NEW p \in Procs, Forget(p) PROVE Cardinality(InLane(q, t)') <= Limit(t)
  BY <1>1, <1>3 DEF Forget, InLane, TypeInv, TypeOK
<1>4. ASSUME NEW p \in Procs, MainStep(p) \/ Spawn(p) PROVE Cardinality(InLane(q, t)') <= Limit(t)
  BY <1>2, <1>3, <1>4 DEF MainStep, Spawn, BootScan, CliFollows, BeginStartup, StayFollower,
     ShutdownRelease, Exit, lanes
<1>5. ASSUME NEW p \in Procs, PumpSend(p) PROVE Cardinality(InLane(q, t)') <= Limit(t)
  <2>1. PICK c \in Claims : /\ LaneHasRoom(p, c[1])
                            /\ ~Reserved(p, c)
                            /\ queued' = [queued EXCEPT ![p] = @ \union {c}]
                            /\ UNCHANGED active
    BY <1>5 DEF PumpSend, PumpUnchanged, IsEligible
  <2>2. CASE q = p /\ t = c[1]
    <3>1. InLane(p, t)' = InLane(p, t) \union {c} /\ c \notin InLane(p, t)
      BY <2>1, <2>2 DEF InLane, Reserved, TypeInv, TypeOK
    <3>2. IsFiniteSet(InLane(p, t))
      BY ClaimsFinite DEF InLane, TypeInv, TypeOK
    <3>3. Cardinality(InLane(p, t)') = Cardinality(InLane(p, t)) + 1
      BY <3>1, <3>2, FS_AddElement
    <3>4. Cardinality(InLane(p, t)) \in Nat
      BY <3>2, FS_CardinalityType
    <3> QED BY <2>1, <2>2, <3>3, <3>4, LimitType DEF LaneHasRoom
  <2>3. CASE q # p \/ t # c[1]
    BY <1>1, <2>1, <2>3 DEF InLane, TypeInv, TypeOK
  <2> QED BY <2>2, <2>3
<1>6. ASSUME NEW p \in Procs, PumpStep(p) PROVE Cardinality(InLane(q, t)') <= Limit(t)
  BY <1>2, <1>5, <1>6 DEF PumpStep, PumpUnchanged, PumpTakeLock, PumpRecover, PumpMarkStarted,
     PumpExit, PumpSignal, PumpScan, PumpLockLanes, PumpSkipReserved, PumpCloseOrphan, PumpLaneBusy,
     PumpEndPass
<1>7. ASSUME NEW p \in Procs, NEW w \in Workers, WorkerStep(p, w)
      PROVE  Cardinality(InLane(q, t)') <= Limit(t)
  <2>1. CASE WorkerStart(p, w)
    <3>1. /\ wrun[p][w] \in queued[p]
          /\ queued' = [queued EXCEPT ![p] = @ \ {wrun[p][w]}]
          /\ active' = [active EXCEPT ![p] = @ \union {wrun[p][w]}]
      BY <2>1 DEF WorkerStart, LanesInv, HeldReserved
    <3> QED BY <1>1, <3>1 DEF InLane, TypeInv, TypeOK
  <2>2. CASE WorkerRelease(p, w)
    BY <1>1, <2>2 DEF WorkerRelease, InLane, TypeInv, TypeOK
  <2> QED BY <1>2, <1>7, <2>1, <2>2 DEF WorkerStep, WorkerRecv, WorkerExit, WorkerActivate,
            WorkerLose, WorkerFinish, WorkerPanic, lanes
<1>8. CASE Environment \/ (\E u \in Timers : Fire(u)) \/ UNCHANGED vars
  BY <1>2, <1>3, <1>8 DEF Environment, LoadTimer, DeleteTimer, ShutdownBegin, Crash, Fire, FireAdmitted,
     FireSkipped, FireReplacing, FireUnchanged, lanes, vars
<1> QED BY <1>4, <1>6, <1>7, <1>8 DEF Next

\* A timer's running actions never exceed what its overlap policy allows,
\* over all processes.
THEOREM LanesKeepLimit == Spec => []LaneLimit
<1>1. TypeInv /\ LanesInv /\ LaneWithinLimit => LaneLimit
  <2> SUFFICES ASSUME TypeInv, LanesInv, LaneWithinLimit, NEW t \in Timers
               PROVE  Cardinality(ExecutingClaims(t)) <= Limit(t)
    BY DEF LaneLimit
  <2>1. CASE lock \in Procs
    <3>1. ExecutingClaims(t) \subseteq InLane(lock, t)
      BY <2>1 DEF ExecutingClaims, ClaimsOf, Executing, InLane, LanesInv, IdleWithoutLock, Busy, Owns,
         HeldReserved
    <3>2. IsFiniteSet(InLane(lock, t))
      BY <2>1, ClaimsFinite DEF InLane, TypeInv, TypeOK
    <3>3. /\ Cardinality(ExecutingClaims(t)) \in Nat
          /\ Cardinality(InLane(lock, t)) \in Nat
          /\ Cardinality(ExecutingClaims(t)) <= Cardinality(InLane(lock, t))
      BY <3>1, <3>2, FS_Subset, FS_CardinalityType
    <3> QED BY <2>1, <3>3, LimitType DEF LaneWithinLimit
  <2>2. CASE lock \notin Procs
    <3>1. ExecutingClaims(t) = {}
      BY <2>2 DEF ExecutingClaims, Executing, LanesInv, IdleWithoutLock, Busy, Owns
    <3> QED BY <3>1, LimitType, FS_EmptySet
  <2> QED BY <2>1, <2>2
<1>2. Spec => [](TypeInv /\ LanesInv /\ LaneWithinLimit)
  BY TypeInit, TypeNext, LanesInit, LanesNext, LaneInit, LaneNext, PTL DEF Spec
<1> QED BY <1>1, <1>2, PTL

-----------------------------------------------------------------------------
(* The ledger: what a claim's row may become.                              *)

\* A row moves by one of these steps, whoever takes it.
RowStep(c) ==
    \/ status'[c] = status[c] /\ outcome'[c] = outcome[c] /\ events'[c] = events[c]
    \/ /\ status[c] \in {"absent", "pending", "active"}
       /\ status'[c] \in {"pending", "active"}
       /\ outcome'[c] = outcome[c] /\ events'[c] = events[c]
    \/ /\ status[c] \in {"absent", "pending", "active"}
       /\ status'[c] = "finished"
       /\ events'[c] = events[c] + 1
    \/ /\ status[c] \in {"pending", "active"}
       /\ status'[c] = "finished"
       /\ outcome'[c] = "timer_deleted" /\ events'[c] = events[c]

\* What one step may do to one row of the runs table: leave it, fire it, start
\* it, return it to pending or finish it with one event.
LEMMA RowSteps == TypeInv /\ [Next]_vars => \A c \in Claims : RowStep(c)
<1> SUFFICES ASSUME TypeInv, [Next]_vars, NEW c \in Claims PROVE RowStep(c)
  OBVIOUS
<1> USE DEF ledger
<1>1. CASE UNCHANGED ledger
  BY <1>1 DEF RowStep
<1>2. ASSUME NEW d, Repend(d) PROVE RowStep(c)
  BY <1>2 DEF Repend, RowStep, TypeInv, TypeOK, Statuses
<1>3. CASE RecoverClaims
  BY <1>1, <1>3 DEF RecoverClaims, RependAll, RowStep, TypeInv, TypeOK, Statuses
<1>4. ASSUME NEW d \in Claims, NEW o, FinishWithEvent(d, o) PROVE RowStep(c)
  BY <1>1, <1>4 DEF FinishWithEvent, IsUnfinished, RowStep, TypeInv, TypeOK, Statuses
<1>5. ASSUME NEW t \in Timers, Fire(t) PROVE RowStep(c)
  <2>1. CASE FireAdmitted(t)
    BY <2>1 DEF FireAdmitted, IsNextClaim, RowStep, TypeInv, TypeOK, Statuses
  <2>2. CASE FireSkipped(t)
    BY <2>2 DEF FireSkipped, IsNextClaim, RowStep, TypeInv, TypeOK, Statuses
  <2>3. CASE FireReplacing(t)
    BY <2>3 DEF FireReplacing, IsNextClaim, WaitingClaims, RowStep, TypeInv, TypeOK, Statuses
  <2> QED BY <1>5, <2>1, <2>2, <2>3 DEF Fire
<1>6. ASSUME NEW p \in Procs, MainStep(p) \/ Spawn(p) PROVE RowStep(c)
  BY <1>1, <1>3, <1>6 DEF MainStep, Spawn, BootScan, CliFollows, BeginStartup, StayFollower,
     ShutdownRelease, Exit
<1>7. ASSUME NEW p \in Procs, PumpStep(p) PROVE RowStep(c)
  <2>1. CASE PumpCloseOrphan(p)
    BY <2>1 DEF PumpCloseOrphan, IsUnfinished, RowStep, TypeInv, TypeOK
  <2>2. CASE PumpRecover(p)
    BY <1>1, <1>3, <2>2 DEF PumpRecover
  <2> QED BY <1>1, <1>7, <2>1, <2>2 DEF PumpStep, PumpTakeLock, PumpMarkStarted, PumpExit, PumpSignal,
            PumpScan, PumpLockLanes, PumpSkipReserved, PumpLaneBusy, PumpSend, PumpEndPass
<1>8. ASSUME NEW p \in Procs, NEW w \in Workers, WorkerStep(p, w) PROVE RowStep(c)
  <2>1. CASE WorkerActivate(p, w)
    BY <2>1 DEF WorkerActivate, SwapWins, RowStep, TypeInv, TypeOK
  <2>2. CASE WorkerStart(p, w)
    BY <1>1, <1>2, <2>2 DEF WorkerStart
  <2>3. CASE WorkerFinish(p, w)
    <3>1. wrun[p][w] \in Claims
      BY <2>3 DEF WorkerFinish, TypeInv, WorkersHold, Busy
    <3> QED BY <1>1, <1>4, <2>3, <3>1 DEF WorkerFinish
  <2>4. CASE WorkerPanic(p, w)
    BY <1>2, <2>4 DEF WorkerPanic
  <2> QED BY <1>1, <1>8, <2>1, <2>2, <2>3, <2>4 DEF WorkerStep, WorkerRecv, WorkerExit, WorkerLose,
            WorkerRelease
<1>9. CASE Environment
  BY <1>1, <1>9 DEF Environment, LoadTimer, DeleteTimer, ShutdownBegin, Crash
<1>10. CASE UNCHANGED vars
  BY <1>1, <1>10 DEF vars
<1> QED BY <1>5, <1>6, <1>7, <1>8, <1>9, <1>10 DEF Next

\* A finished claim is never rewritten, by any producer, owner or late worker.
THEOREM FinishedStays == Spec => FinishedIsFinal
<1>1. TypeInv /\ [Next]_vars =>
        [\A c \in Claims : status[c] = "finished" =>
            status'[c] = "finished" /\ outcome'[c] = outcome[c] /\ events'[c] = events[c]]_vars
  BY RowSteps DEF RowStep
<1> QED BY TypeInit, TypeNext, <1>1, PTL DEF Spec, FinishedIsFinal

\* A finished claim has told its outcome exactly once, an unfinished one not
\* at all.
THEOREM OutcomeToldOnce == Spec => []OneOutcomeEvent
<1>1. Init => OneOutcomeEvent
  BY DEF Init, OneOutcomeEvent
<1>2. TypeInv /\ OneOutcomeEvent /\ [Next]_vars => OneOutcomeEvent'
  <2> SUFFICES ASSUME OneOutcomeEvent, \A c \in Claims : RowStep(c), NEW c \in Claims
               PROVE  IF status'[c] = "finished"
                      THEN events'[c] = 1 \/ (events'[c] = 0 /\ outcome'[c] = "timer_deleted")
                      ELSE events'[c] = 0 /\ outcome'[c] = "none"
    BY RowSteps DEF OneOutcomeEvent
  <2> QED BY DEF RowStep, OneOutcomeEvent
<1> QED BY TypeInit, TypeNext, <1>1, <1>2, PTL DEF Spec

-----------------------------------------------------------------------------
(* Replace: the newest claim is the only candidate.                        *)

\* Claims are inserted in order, and only a claim that is there is asked to cancel.
InOrder ==
    \A c \in Claims : status[c] # "absent" =>
        \A d \in ClaimsOf(c[1]) : d[2] < c[2] => status[d] # "absent"
AskedExist == \A c \in cancelReq : status[c] # "absent"

\* What a step that is no fire does to the rows.
Inserted == /\ cancelReq' = cancelReq
            /\ \A c \in Claims : /\ status'[c] = "absent" <=> status[c] = "absent"
                                 /\ status[c] = "finished" => status'[c] = "finished"

LEMMA FireInserts == TypeInv /\ [Next]_vars => Inserted \/ \E t \in Timers : Fire(t)
<1> SUFFICES ASSUME TypeInv, [Next]_vars, ~\E t \in Timers : Fire(t) PROVE Inserted
  OBVIOUS
<1> USE DEF ledger
<1>1. CASE UNCHANGED ledger
  BY <1>1 DEF Inserted
<1>2. ASSUME NEW d, Repend(d) PROVE Inserted
  BY <1>2 DEF Repend, Inserted, TypeInv, TypeOK, Statuses
<1>3. CASE RecoverClaims
  BY <1>1, <1>3 DEF RecoverClaims, RependAll, Inserted, TypeInv, TypeOK, Statuses
<1>4. ASSUME NEW d \in Claims, NEW o, FinishWithEvent(d, o) PROVE Inserted
  BY <1>1, <1>4 DEF FinishWithEvent, IsUnfinished, Inserted, TypeInv, TypeOK, Statuses
<1>6. ASSUME NEW p \in Procs, MainStep(p) \/ Spawn(p) PROVE Inserted
  BY <1>1, <1>3, <1>6 DEF MainStep, Spawn, BootScan, CliFollows, BeginStartup, StayFollower,
     ShutdownRelease, Exit
<1>7. ASSUME NEW p \in Procs, PumpStep(p) PROVE Inserted
  <2>1. CASE PumpCloseOrphan(p)
    BY <2>1 DEF PumpCloseOrphan, IsUnfinished, Inserted, TypeInv, TypeOK
  <2>2. CASE PumpRecover(p)
    BY <1>1, <1>3, <2>2 DEF PumpRecover
  <2> QED BY <1>1, <1>7, <2>1, <2>2 DEF PumpStep, PumpTakeLock, PumpMarkStarted, PumpExit, PumpSignal,
            PumpScan, PumpLockLanes, PumpSkipReserved, PumpLaneBusy, PumpSend, PumpEndPass
<1>8. ASSUME NEW p \in Procs, NEW w \in Workers, WorkerStep(p, w) PROVE Inserted
  <2>1. CASE WorkerActivate(p, w)
    BY <2>1 DEF WorkerActivate, SwapWins, Inserted, TypeInv, TypeOK
  <2>2. CASE WorkerStart(p, w)
    BY <1>1, <1>2, <2>2 DEF WorkerStart
  <2>3. CASE WorkerFinish(p, w)
    <3>1. wrun[p][w] \in Claims
      BY <2>3 DEF WorkerFinish, TypeInv, WorkersHold, Busy
    <3> QED BY <1>1, <1>4, <2>3, <3>1 DEF WorkerFinish
  <2>4. CASE WorkerPanic(p, w)
    BY <1>2, <2>4 DEF WorkerPanic
  <2> QED BY <1>1, <1>8, <2>1, <2>2, <2>3, <2>4 DEF WorkerStep, WorkerRecv, WorkerExit, WorkerLose,
            WorkerRelease
<1>9. CASE Environment
  BY <1>1, <1>9 DEF Environment, LoadTimer, DeleteTimer, ShutdownBegin, Crash
<1>10. CASE UNCHANGED vars
  BY <1>1, <1>10 DEF vars
<1> QED BY <1>6, <1>7, <1>8, <1>9, <1>10 DEF Next

ReplaceInv == InOrder /\ AskedExist /\ ReplaceKeepsNewest

\* The claims beside a new one: older ones are there, newer ones are not.
LEMMA NewClaimIsNewest ==
    ASSUME TypeInv, InOrder, NEW t \in Timers, NEW c \in ClaimsOf(t), IsNextClaim(c),
           NEW d \in ClaimsOf(t)
    PROVE  status[d] # "absent" <=> d[2] < c[2]
<1>1. c \in Claims /\ d \in Claims /\ c[1] = t /\ d[1] = t /\ c[2] \in Int /\ d[2] \in Int
  BY DEF ClaimsOf, Claims
<1>2. d[2] < c[2] => status[d] # "absent"
  BY <1>1 DEF IsNextClaim, ClaimsOf
<1>3. c[2] < d[2] /\ status[d] # "absent" => status[c] # "absent"
  BY <1>1 DEF InOrder, ClaimsOf
<1>4. c[2] = d[2] => c = d
  BY <1>1 DEF Claims
<1> QED BY <1>1, <1>2, <1>3, <1>4 DEF IsNextClaim

\* A fire keeps the order, whichever policy decides it.
LEMMA FireKeepsNewest ==
    ASSUME TypeInv, ReplaceInv, NEW t \in Timers, Fire(t)
    PROVE  ReplaceInv'
<1>1. PICK c \in ClaimsOf(t) :
         /\ IsNextClaim(c)
         /\ \A d \in Claims \ {c} :
               status'[d] = IF Policy[t] = "replace" /\ d \in WaitingClaims(t) THEN "finished"
                            ELSE status[d]
         /\ status'[c] \in {"pending", "finished"}
  <2>1. CASE FireAdmitted(t)
    BY <2>1 DEF FireAdmitted, ClaimsOf, TypeInv, TypeOK
  <2>2. CASE FireSkipped(t)
    BY <2>2 DEF FireSkipped, ClaimsOf, TypeInv, TypeOK
  <2>3. CASE FireReplacing(t)
    BY <2>3 DEF FireReplacing, ClaimsOf
  <2> QED BY <2>1, <2>2, <2>3 DEF Fire
<1>2. cancelReq' = IF Policy[t] = "replace" THEN cancelReq \union RunningClaims(t) ELSE cancelReq
  BY DEF Fire, FireAdmitted, FireSkipped, FireReplacing
<1>3. c \in Claims /\ c[1] = t /\ status[c] = "absent"
  BY <1>1 DEF ClaimsOf, IsNextClaim
<1>4. \A d \in Claims : status'[d] # "absent" <=> d = c \/ status[d] # "absent"
  BY <1>1, <1>3 DEF WaitingClaims
<1>5. \A d \in ClaimsOf(t) : status[d] # "absent" <=> d[2] < c[2]
  BY <1>1, NewClaimIsNewest DEF ReplaceInv
<1>6. InOrder'
  <2> SUFFICES ASSUME NEW e \in Claims, status'[e] # "absent", NEW d \in ClaimsOf(e[1]), d[2] < e[2]
               PROVE  status'[d] # "absent"
    BY DEF InOrder, ClaimsOf
  <2>1. d \in Claims
    BY DEF ClaimsOf
  <2>2. CASE e = c
    BY <1>3, <1>4, <1>5, <2>1, <2>2
  <2>3. CASE e # c
    BY <1>4, <2>1, <2>3 DEF ReplaceInv, InOrder
  <2> QED BY <2>2, <2>3
<1>7. AskedExist'
  BY <1>2, <1>4 DEF ReplaceInv, AskedExist, RunningClaims, ClaimsOf, TypeInv, TypeOK
<1>8. ReplaceKeepsNewest'
  <2> SUFFICES ASSUME NEW e \in Claims, Policy[e[1]] = "replace", IsUnfinished(e)'
               PROVE  e \in cancelReq' <=> \E d \in ClaimsOf(e[1]) : d[2] > e[2] /\ status'[d] # "absent"
    BY DEF ReplaceKeepsNewest, ClaimsOf
  <2>0. e[2] \in Int /\ c[2] \in Int /\ \A d \in ClaimsOf(e[1]) : d \in Claims /\ d[1] = e[1] /\ d[2] \in Int
    BY <1>3 DEF ClaimsOf, Claims
  <2>1. CASE e[1] # t
    <3>1. e # c /\ status'[e] = status[e]
      BY <1>1, <1>3, <2>1 DEF WaitingClaims, ClaimsOf
    <3>2. e \in cancelReq' <=> e \in cancelReq
      BY <1>2, <2>1 DEF RunningClaims, ClaimsOf
    <3>3. \A d \in ClaimsOf(e[1]) : status'[d] # "absent" <=> status[d] # "absent"
      BY <1>3, <1>4, <2>0, <2>1
    <3> QED BY <3>1, <3>2, <3>3 DEF ReplaceInv, ReplaceKeepsNewest, IsUnfinished
  <2>2. CASE e = c
    <3>1. e \notin cancelReq'
      BY <1>2, <1>3, <2>2 DEF ReplaceInv, AskedExist, RunningClaims
    <3>2. \A d \in ClaimsOf(e[1]) : d[2] > e[2] => status'[d] = "absent"
      BY <1>3, <1>4, <1>5, <2>0, <2>2
    <3> QED BY <3>1, <3>2
  <2>3. CASE e[1] = t /\ e # c
    <3>1. status[e] \in {"pending", "active"} /\ e \notin WaitingClaims(t)
      BY <1>1, <2>3 DEF IsUnfinished
    <3>2. e \in ClaimsOf(t)
      BY <2>3 DEF ClaimsOf
    <3>3. e \in RunningClaims(t)
      BY <3>1, <3>2 DEF WaitingClaims, RunningClaims
    <3>4. e \in cancelReq'
      BY <1>2, <2>3, <3>3
    <3>5. c \in ClaimsOf(e[1]) /\ c[2] > e[2] /\ status'[c] # "absent"
      BY <1>1, <1>5, <2>0, <2>3, <3>1, <3>2
    <3> QED BY <3>4, <3>5
  <2> QED BY <2>1, <2>2, <2>3
<1> QED BY <1>6, <1>7, <1>8 DEF ReplaceInv

\* The order of the claims and the marks of Replace, at the start and after
\* every step.
LEMMA ReplaceInit == Init => ReplaceInv
BY DEF Init, ReplaceInv, InOrder, AskedExist, ReplaceKeepsNewest, IsUnfinished

LEMMA ReplaceNext == TypeInv /\ ReplaceInv /\ [Next]_vars => ReplaceInv'
<1> SUFFICES ASSUME TypeInv, TypeInv', ReplaceInv, Inserted PROVE ReplaceInv'
  BY FireInserts, FireKeepsNewest, TypeNext
<1>1. InOrder'
  BY DEF Inserted, ReplaceInv, InOrder, ClaimsOf
<1>2. AskedExist'
  BY DEF Inserted, ReplaceInv, AskedExist, TypeInv, TypeOK
<1>3. \A c \in Claims : IsUnfinished(c)' => IsUnfinished(c)
  BY DEF Inserted, IsUnfinished, TypeInv, TypeOK, Statuses
<1>4. ReplaceKeepsNewest'
  BY <1>3 DEF Inserted, ReplaceInv, ReplaceKeepsNewest, ClaimsOf
<1> QED BY <1>1, <1>2, <1>4 DEF ReplaceInv

\* Under Replace every unfinished claim but the newest is asked to cancel, and the
\* newest never is, whatever recoveries and late workers do to the rows
\* (pending_claims_for_timer_conn, request_cancel_active_conn).
THEOREM NewestIsKept == Spec => []ReplaceKeepsNewest
<1>1. ReplaceInv => ReplaceKeepsNewest
  BY DEF ReplaceInv
<1> QED BY TypeInit, TypeNext, ReplaceInit, ReplaceNext, <1>1, PTL DEF Spec

-----------------------------------------------------------------------------
(* The lane book does not leak.                                            *)

QueuedPCs == {"got", "activated", "releasing_queued"}
ActivePCs == {"orphaned", "executing", "releasing_lane"}
InChannel(p, c) == \E i \in 1..Len(hints[p]) : hints[p][i] = c
HeldIn(p, c, pcs) == \E w \in Workers : wrun[p][w] = c /\ wpc[p][w] \in pcs

\* ReservationsBacked, process by process.
BackedIn(p) == /\ \A c \in queued[p] : InChannel(p, c) \/ HeldIn(p, c, QueuedPCs)
               /\ \A c \in active[p] : HeldIn(p, c, ActivePCs)

LEMMA BackedEach == ReservationsBacked <=> \A p \in Procs : BackedIn(p)
BY DEF ReservationsBacked, BackedIn, InChannel, HeldIn, QueuedPCs, ActivePCs

\* Nothing of a process's channel, lane book and workers changes.
LEMMA BackedSame ==
    ASSUME NEW p \in Procs, BackedIn(p), hints'[p] = hints[p], queued'[p] = queued[p],
           active'[p] = active[p], wpc'[p] = wpc[p], wrun'[p] = wrun[p]
    PROVE  BackedIn(p)'
BY DEF BackedIn, InChannel, HeldIn

\* One worker of a process moves on with its claim.
LEMMA OneMoves ==
    ASSUME TypeInv, LanesInv, NEW p \in Procs, NEW w \in Workers, BackedIn(p), NEW pc \in WorkerPCs,
           Goto(p, w, pc), UNCHANGED <<hints, wrun>>, Busy(wpc[p][w]),
           \/ pc \in QueuedPCs /\ UNCHANGED <<queued, active>>
              /\ wpc[p][w] \in QueuedPCs
           \/ pc \in ActivePCs /\ UNCHANGED <<queued, active>> /\ wpc[p][w] \in ActivePCs
           \/ /\ pc \in ActivePCs
              /\ queued' = [queued EXCEPT ![p] = @ \ {wrun[p][w]}]
              /\ active' = [active EXCEPT ![p] = @ \union {wrun[p][w]}]
    PROVE  BackedIn(p)'
<1>1. \A v \in Workers : wpc'[p][v] = IF v = w THEN pc ELSE wpc[p][v]
  BY DEF Goto, TypeInv, TypeOK
<1>2. QueuedPCs \intersect ActivePCs = {}
  BY DEF QueuedPCs, ActivePCs
<1>3. \A v \in Workers : wpc[p][v] \in QueuedPCs \union ActivePCs /\ wrun[p][v] = wrun[p][w] => v = w
  BY DEF LanesInv, HeldOnce, QueuedPCs, ActivePCs, Busy
<1>4. ASSUME NEW c \in queued'[p] PROVE InChannel(p, c)' \/ HeldIn(p, c, QueuedPCs)'
  <2>1. c \in queued[p] /\ (pc \in ActivePCs /\ wpc[p][w] \in QueuedPCs => c # wrun[p][w])
    BY <1>2, <1>4 DEF TypeInv, TypeOK
  <2>2. InChannel(p, c) \/ HeldIn(p, c, QueuedPCs)
    BY <2>1 DEF BackedIn
  <2>3. CASE InChannel(p, c)
    BY <2>3 DEF InChannel
  <2>4. CASE HeldIn(p, c, QueuedPCs)
    <3>1. PICK v \in Workers : wrun[p][v] = c /\ wpc[p][v] \in QueuedPCs
      BY <2>4 DEF HeldIn
    <3>2. wpc'[p][v] \in QueuedPCs
      BY <1>1, <1>2, <2>1, <3>1
    <3> QED BY <3>1, <3>2 DEF HeldIn
  <2> QED BY <2>2, <2>3, <2>4
<1>5. ASSUME NEW c \in active'[p] PROVE HeldIn(p, c, ActivePCs)'
  <2>1. CASE c = wrun[p][w]
    <3>1. CASE pc \in ActivePCs
      BY <1>1, <2>1, <3>1 DEF HeldIn
    <3>2. CASE pc \notin ActivePCs
      <4>1. c \in active[p] /\ wpc[p][w] \in QueuedPCs
        BY <1>5, <3>2
      <4>2. PICK v \in Workers : wrun[p][v] = c /\ wpc[p][v] \in ActivePCs
        BY <4>1 DEF BackedIn, HeldIn
      <4> QED BY <1>2, <1>3, <2>1, <4>1, <4>2
    <3> QED BY <3>1, <3>2
  <2>2. CASE c # wrun[p][w]
    <3>1. c \in active[p]
      BY <1>5, <2>2 DEF TypeInv, TypeOK
    <3>2. PICK v \in Workers : wrun[p][v] = c /\ wpc[p][v] \in ActivePCs
      BY <3>1 DEF BackedIn, HeldIn
    <3>3. wpc'[p][v] \in ActivePCs
      BY <1>1, <2>2, <3>2
    <3> QED BY <3>2, <3>3 DEF HeldIn
  <2> QED BY <2>1, <2>2
<1> QED BY <1>4, <1>5 DEF BackedIn

LEMMA RecvBacked ==
    ASSUME TypeInv, LanesInv, NEW p \in Procs, NEW w \in Workers, BackedIn(p), WorkerRecv(p, w)
    PROVE  BackedIn(p)'
<1>1. /\ hints[p] \in Seq(Claims) /\ hints[p] # <<>> /\ hints'[p] = Tail(hints[p])
      /\ queued' = queued /\ active' = active /\ wpc[p][w] = "idle"
  BY DEF WorkerRecv, lanes, TypeInv, TypeOK
<1>2. \A v \in Workers : /\ wpc'[p][v] = IF v = w THEN "got" ELSE wpc[p][v]
                         /\ wrun'[p][v] = IF v = w THEN Head(hints[p]) ELSE wrun[p][v]
  BY DEF WorkerRecv, Goto, TypeInv, TypeOK
<1>3. ASSUME NEW c, NEW pcs \in {QueuedPCs, ActivePCs}, HeldIn(p, c, pcs) PROVE HeldIn(p, c, pcs)'
  <2>1. PICK v \in Workers : wrun[p][v] = c /\ wpc[p][v] \in pcs
    BY <1>3 DEF HeldIn
  <2>2. v # w
    BY <1>1, <2>1 DEF QueuedPCs, ActivePCs
  <2> QED BY <1>2, <2>1, <2>2 DEF HeldIn
<1>4. ASSUME NEW c, InChannel(p, c) PROVE InChannel(p, c)' \/ HeldIn(p, c, QueuedPCs)'
  <2>1. PICK i \in 1..Len(hints[p]) : hints[p][i] = c
    BY <1>4 DEF InChannel
  <2>2. CASE i = 1
    <3>1. Head(hints[p]) = c
      BY <1>1, <2>1, <2>2
    <3> QED BY <1>2, <3>1 DEF HeldIn, QueuedPCs
  <2>3. CASE i # 1
    <3>1. i - 1 \in 1..Len(Tail(hints[p])) /\ Tail(hints[p])[i - 1] = hints[p][i]
      BY <1>1, <2>1, <2>3
    <3>2. i - 1 \in 1..Len(hints'[p]) /\ hints'[p][i - 1] = c
      BY <1>1, <2>1, <3>1
    <3> QED BY <3>2 DEF InChannel
  <2> QED BY <2>2, <2>3
<1> QED BY <1>1, <1>3, <1>4 DEF BackedIn

LEMMA ReleaseBacked ==
    ASSUME TypeInv, LanesInv, NEW p \in Procs, NEW w \in Workers, BackedIn(p), WorkerRelease(p, w)
    PROVE  BackedIn(p)'
<1> DEFINE k == wrun[p][w]
<1>1. \A v \in Workers \ {w} : wpc'[p][v] = wpc[p][v] /\ wrun'[p][v] = wrun[p][v]
  BY DEF WorkerRelease, Goto, TypeInv, TypeOK
<1>2. /\ hints' = hints /\ queued'[p] = queued[p] \ {k}
      /\ active'[p] = IF wpc[p][w] = "releasing_lane" THEN active[p] \ {k} ELSE active[p]
  BY DEF WorkerRelease, TypeInv, TypeOK
<1>3. ASSUME NEW c, c # k, NEW pcs, HeldIn(p, c, pcs) PROVE HeldIn(p, c, pcs)'
  BY <1>1, <1>3 DEF HeldIn
<1>4. \A c \in queued'[p] : InChannel(p, c)' \/ HeldIn(p, c, QueuedPCs)'
  BY <1>2, <1>3 DEF BackedIn, InChannel
<1>5. k \notin active'[p]
  <2> SUFFICES ASSUME wpc[p][w] = "releasing_queued", k \in active[p] PROVE FALSE
    BY <1>2 DEF WorkerRelease
  <2>1. PICK v \in Workers : wrun[p][v] = k /\ wpc[p][v] \in ActivePCs
    BY DEF BackedIn, HeldIn
  <2>2. v = w
    BY <2>1 DEF LanesInv, HeldOnce, Busy, ActivePCs
  <2> QED BY <2>1, <2>2 DEF ActivePCs
<1>6. \A c \in active'[p] : HeldIn(p, c, ActivePCs)'
  BY <1>2, <1>3, <1>5 DEF BackedIn
<1> QED BY <1>4, <1>6 DEF BackedIn

LEMMA SendBacked ==
    ASSUME TypeInv, LanesInv, NEW p \in Procs, BackedIn(p), PumpSend(p)
    PROVE  BackedIn(p)'
<1>1. PICK k \in Claims : hints' = [hints EXCEPT ![p] = Append(@, k)]
                          /\ queued' = [queued EXCEPT ![p] = @ \union {k}]
  BY DEF PumpSend
<1>2. /\ hints[p] \in Seq(Claims) /\ hints'[p] = Append(hints[p], k)
      /\ queued'[p] = queued[p] \union {k} /\ UNCHANGED <<active, wpc, wrun>>
  BY <1>1 DEF PumpSend, PumpUnchanged, workerVars, TypeInv, TypeOK
<1>3. InChannel(p, k)'
  <2>1. Len(hints'[p]) \in 1..Len(hints'[p]) /\ hints'[p][Len(hints'[p])] = k
    BY <1>2
  <2> QED BY <2>1 DEF InChannel
<1>4. ASSUME NEW c, InChannel(p, c) PROVE InChannel(p, c)'
  <2>1. PICK i \in 1..Len(hints[p]) : hints[p][i] = c
    BY <1>4 DEF InChannel
  <2>2. i \in 1..Len(hints'[p]) /\ hints'[p][i] = c
    BY <1>2, <2>1
  <2> QED BY <2>2 DEF InChannel
<1>5. \A c, pcs : HeldIn(p, c, pcs)' <=> HeldIn(p, c, pcs)
  BY <1>2 DEF HeldIn
<1> QED BY <1>2, <1>3, <1>4, <1>5 DEF BackedIn

\* A process forgets its channel, its lane book and its workers together.
LEMMA ForgetBacked ==
    ASSUME TypeInv, NEW p \in Procs, Forget(p)
    PROVE  BackedIn(p)'
BY DEF Forget, BackedIn, TypeInv, TypeOK

LEMMA BackedNext ==
    ASSUME TypeInv, LanesInv, NEW q \in Procs, BackedIn(q), [Next]_vars
    PROVE  BackedIn(q)'
<1>1. CASE UNCHANGED <<hints, queued, active, wpc, wrun>>
  BY <1>1, BackedSame
<1>2. ASSUME NEW p \in Procs, Forget(p) PROVE BackedIn(q)'
  <2>1. CASE p = q
    BY <1>2, <2>1, ForgetBacked
  <2>2. CASE p # q
    BY <1>2, <2>2, BackedSame DEF Forget, TypeInv, TypeOK
  <2> QED BY <2>1, <2>2
<1>3. ASSUME NEW p \in Procs, PumpStep(p) PROVE BackedIn(q)'
  <2> USE DEF PumpUnchanged, workerVars
  <2>1. CASE PumpSend(p)
    <3>1. CASE p = q
      BY <2>1, <3>1, SendBacked
    <3>2. CASE p # q
      <4>1. UNCHANGED <<active, wpc, wrun>> /\ hints'[q] = hints[q] /\ queued'[q] = queued[q]
        BY <2>1, <3>2 DEF PumpSend, TypeInv, TypeOK
      <4> QED BY <4>1, BackedSame
    <3> QED BY <3>1, <3>2
  <2> QED BY <1>1, <1>3, <2>1 DEF PumpStep, PumpTakeLock, PumpRecover, PumpMarkStarted, PumpExit, PumpSignal,
            PumpScan, PumpLockLanes, PumpSkipReserved, PumpCloseOrphan, PumpLaneBusy, PumpEndPass
<1>4. ASSUME NEW p \in Procs, MainStep(p) \/ Spawn(p) PROVE BackedIn(q)'
  BY <1>1, <1>2, <1>4 DEF MainStep, Spawn, BootScan, CliFollows, BeginStartup, StayFollower,
     ShutdownRelease, Exit, lanes, workerVars
<1>5. CASE Environment \/ (\E t \in Timers : Fire(t)) \/ UNCHANGED vars
  BY <1>1, <1>2, <1>5 DEF Environment, LoadTimer, DeleteTimer, ShutdownBegin, Crash, Fire, FireAdmitted,
     FireSkipped, FireReplacing, FireUnchanged, lanes, workerVars, vars
<1>6. ASSUME NEW p \in Procs, NEW w \in Workers, WorkerStep(p, w) PROVE BackedIn(q)'
  <2>1. CASE p # q
    <3>1. /\ hints'[q] = hints[q] /\ queued'[q] = queued[q] /\ active'[q] = active[q]
          /\ wpc'[q] = wpc[q] /\ wrun'[q] = wrun[q]
      BY <1>6, <2>1 DEF WorkerStep, WorkerRecv, WorkerExit, WorkerActivate, WorkerLose, WorkerStart,
         WorkerFinish, WorkerPanic, WorkerRelease, Goto, lanes, TypeInv, TypeOK
    <3> QED BY <3>1, BackedSame
  <2>2. CASE p = q
    <3>1. CASE WorkerRecv(p, w)
      BY <2>2, <3>1, RecvBacked
    <3>2. CASE WorkerExit(p, w)
      <4>1. UNCHANGED <<hints, queued, active, wrun>>
        BY <3>2 DEF WorkerExit, lanes
      <4>2. \A v \in Workers, pcs \in {QueuedPCs, ActivePCs} :
               wpc'[p][v] \in pcs <=> wpc[p][v] \in pcs
        BY <3>2 DEF WorkerExit, Goto, TypeInv, TypeOK, QueuedPCs, ActivePCs
      <4> QED BY <2>2, <4>1, <4>2 DEF BackedIn, InChannel, HeldIn
    <3>3. CASE WorkerActivate(p, w)
      BY <2>2, <3>3, OneMoves DEF WorkerActivate, QueuedPCs, WorkerPCs, Busy, lanes
    <3>4. CASE WorkerLose(p, w)
      BY <2>2, <3>4, OneMoves DEF WorkerLose, QueuedPCs, WorkerPCs, Busy, lanes
    <3>5. CASE WorkerStart(p, w)
      <4>1. PICK pc \in ActivePCs : Goto(p, w, pc)
        BY <3>5 DEF WorkerStart, ActivePCs
      <4>2. pc \in WorkerPCs
        BY DEF ActivePCs, WorkerPCs
      <4>3. /\ queued' = [queued EXCEPT ![p] = @ \ {wrun[p][w]}]
            /\ active' = [active EXCEPT ![p] = @ \union {wrun[p][w]}]
            /\ UNCHANGED <<hints, wrun>> /\ Busy(wpc[p][w])
        BY <3>5 DEF WorkerStart, Busy
      <4> QED BY <2>2, <4>1, <4>2, <4>3, OneMoves
    <3>6. CASE WorkerFinish(p, w) \/ WorkerPanic(p, w)
      <4>1. /\ Goto(p, w, "releasing_lane") /\ UNCHANGED <<hints, wrun, queued, active>>
            /\ wpc[p][w] \in ActivePCs /\ Busy(wpc[p][w])
        BY <3>6 DEF WorkerFinish, WorkerPanic, lanes, ActivePCs, Busy
      <4>2. "releasing_lane" \in WorkerPCs /\ "releasing_lane" \in ActivePCs
        BY DEF WorkerPCs, ActivePCs
      <4> QED BY <2>2, <4>1, <4>2, OneMoves
    <3>7. CASE WorkerRelease(p, w)
      BY <2>2, <3>7, ReleaseBacked
    <3> QED BY <1>6, <3>1, <3>2, <3>3, <3>4, <3>5, <3>6, <3>7 DEF WorkerStep
  <2> QED BY <2>1, <2>2
<1> QED BY <1>3, <1>4, <1>5, <1>6 DEF Next

\* Every reservation of the lane book is backed by a hint in the channel or by the worker
\* that will release it: no full channel, lost swap, panic, failed store call or shutdown
\* leaves a timer's lane reserved with nobody to free it (release_queued, finish_lane).
THEOREM LanesDoNotLeak == Spec => []ReservationsBacked
<1>1. Init => ReservationsBacked
  BY DEF Init, ReservationsBacked
<1>2. TypeInv /\ LanesInv /\ ReservationsBacked /\ [Next]_vars => ReservationsBacked'
  <2>1. TypeInv /\ LanesInv /\ (\A p \in Procs : BackedIn(p)) /\ [Next]_vars
          => \A p \in Procs : BackedIn(p)'
    BY BackedNext
  <2>2. ReservationsBacked' <=> \A p \in Procs : BackedIn(p)'
    BY DEF ReservationsBacked, BackedIn, InChannel, HeldIn, QueuedPCs, ActivePCs
  <2> QED BY <2>1, <2>2, BackedEach
<1> QED BY <1>1, <1>2, LanesInvariant, PTL DEF Spec

-----------------------------------------------------------------------------
(* Serial order: older claims first, as long as no attempt fails.          *)

\* No action has panicked and no store call has failed so far.
Calm == spent["panic"] = 0 /\ spent["store"] = 0

\* The process holds the lock, has run the takeover's recovery under it and
\* does not stop.
Recovered(p) ==
    /\ Owns(p)
    /\ p \notin closed
    /\ \/ pump[p] \in {"marking", "signalled", "scanned", "dispatching"}
       \/ pump[p] = "idle" /\ mode[p] = "started"

\* A process that is down has no lock and no channel.
DownIsBare(p) == main[p] = "down" => mode[p] = "down" /\ ~Owns(p) /\ p \notin closed

\* A pass is made by a process that is started, or closed meanwhile.
PassStarted(p) == pump[p] \in {"signalled", "scanned", "dispatching"} =>
    mode[p] = "started" \/ p \in closed

\* Before the recovery nothing is hinted or held.
WorksRecovered(p) == p \notin closed /\ ~Recovered(p) =>
    hints[p] = <<>> /\ \A w \in Workers : ~Busy(wpc[p][w])

\* A claim in a snapshot or a lane has a row.
Known(p) == \A c \in snapshot[p] \union queued[p] \union active[p] : status[c] # "absent"

\* Each active claim is in the hands of the owner's worker that activated it.
ActiveHeld(p) == \A c \in Claims : status[c] = "active" =>
    \E w \in Workers : wrun[p][w] = c /\ wpc[p][w] \in {"activated", "orphaned", "executing"}

\* A worker lets go only of a finished claim.
ReleasesFinished(p) == \A w \in Workers :
    wpc[p][w] \in {"releasing_queued", "releasing_lane"} => status[wrun[p][w]] = "finished"

\* What is unfinished and older than a claim of the snapshot is in the
\* snapshot too, or in the lane.
SnapshotWhole(p) == pump[p] \in {"scanned", "dispatching"} =>
    \A c \in snapshot[p] : \A d \in ClaimsOf(c[1]) :
        d[2] < c[2] /\ IsUnfinished(d) => d \in snapshot[p] \/ Reserved(p, d)

OwnerInOrder(p) == Recovered(p) => ActiveHeld(p) /\ ReleasesFinished(p) /\ SnapshotWhole(p)

\* A serial timer's reserved claim waits for no older one.
OlderDone(c) == \A d \in ClaimsOf(c[1]) : d[2] < c[2] => status[d] = "finished"
ServesInOrder(p) == \A c \in queued[p] \union active[p] : Policy[c[1]] # "parallel" => OlderDone(c)

OrderAt(p) ==
    /\ DownIsBare(p)
    /\ PassStarted(p)
    /\ WorksRecovered(p)
    /\ Known(p)
    /\ Calm => OwnerInOrder(p) /\ ServesInOrder(p)

OrderInv == \A p \in Procs : OrderAt(p)

LEMMA OrderInit == Init => OrderInv
BY ProcsAssumption DEF Init, OrderInv, OrderAt, DownIsBare, PassStarted, WorksRecovered, Known, OwnerInOrder,
   ServesInOrder, Recovered, Owns, Busy

\* A row never returns to absent, nor from finished.
LEMMA RowsLast == TypeInv /\ [Next]_vars =>
    \A c \in Claims : /\ status[c] # "absent" => status'[c] # "absent"
                      /\ status[c] = "finished" => status'[c] = "finished"
BY RowSteps DEF RowStep

\* What a step of one process leaves to every other: its own state, and while
\* it owns the lock the rows too.
SameRows == UNCHANGED status
SameProc(q) ==
    /\ main'[q] = main[q] /\ mode'[q] = mode[q] /\ (q \in closed' <=> q \in closed)
    /\ pump'[q] = pump[q] /\ snapshot'[q] = snapshot[q] /\ hints'[q] = hints[q]
    /\ queued'[q] = queued[q] /\ active'[q] = active[q]
    /\ wpc'[q] = wpc[q] /\ wrun'[q] = wrun[q]
StandsBy(q) == SameProc(q) /\ (Owns(q)' => Owns(q) /\ SameRows)

ProcessStep(p) ==
    \/ Spawn(p) \/ MainStep(p) \/ PumpStep(p) \/ ShutdownBegin(p) \/ Crash(p)
    \/ \E w \in Workers : WorkerStep(p, w)

LEMMA OthersStandBy ==
    ASSUME TypeInv, LanesInv, NEW p \in Procs, ProcessStep(p), NEW q \in Procs, q # p
    PROVE  StandsBy(q)
<1> USE DEF StandsBy, SameProc, SameRows, Owns, ledger, lanes, pumpVars, workerVars, procVars
<1>1. Owns(p) \/ /\ pump[p] \in {"idle", "exited"}
                 /\ hints[p] = <<>>
                 /\ \A w \in Workers : ~Busy(wpc[p][w])
  BY DEF LanesInv, IdleWithoutLock
<1>2. CASE Spawn(p)
  BY <1>2, ProcsAssumption DEF Spawn, TryLock, TypeInv, TypeOK
<1>3. CASE ShutdownBegin(p)
  BY <1>3 DEF ShutdownBegin, TypeInv, TypeOK
<1>4. CASE Forget(p) /\ UNCHANGED ledger
  BY <1>4, ProcsAssumption DEF Forget, TypeInv, TypeOK
<1>5. CASE MainStep(p)
  <2>1. CASE BootScan(p) \/ CliFollows(p) \/ StayFollower(p)
    BY <2>1 DEF BootScan, CliFollows, StayFollower, TypeInv, TypeOK
  <2>2. CASE BeginStartup(p)
    BY <2>2 DEF BeginStartup, TypeInv, TypeOK
  <2>3. CASE ShutdownRelease(p)
    BY <2>3, ProcsAssumption DEF ShutdownRelease, TypeInv, TypeOK
  <2> QED BY <1>4, <1>5, <2>1, <2>2, <2>3 DEF MainStep, Exit
<1>6. CASE PumpStep(p)
  <2> USE DEF PumpUnchanged
  <2>1. CASE PumpTakeLock(p)
    BY <2>1 DEF PumpTakeLock, TypeInv, TypeOK
  <2>2. CASE PumpRecover(p)
    BY <1>1, <2>2 DEF PumpRecover, TypeInv, TypeOK
  <2>3. CASE PumpMarkStarted(p) \/ PumpExit(p) \/ PumpSignal(p) \/ PumpScan(p) \/ PumpLockLanes(p)
    BY <2>3 DEF PumpMarkStarted, PumpExit, PumpSignal, PumpScan, PumpLockLanes, TypeInv, TypeOK
  <2>4. CASE PumpSkipReserved(p) \/ PumpLaneBusy(p) \/ PumpSend(p) \/ PumpEndPass(p)
    BY <2>4 DEF PumpSkipReserved, PumpLaneBusy, PumpSend, PumpEndPass, TypeInv, TypeOK
  <2>5. CASE PumpCloseOrphan(p)
    BY <1>1, <2>5 DEF PumpCloseOrphan, IsNextInSnapshot, TypeInv, TypeOK
  <2> QED BY <1>6, <2>1, <2>2, <2>3, <2>4, <2>5 DEF PumpStep
<1>7. ASSUME NEW w \in Workers, WorkerStep(p, w) PROVE StandsBy(q)
  <2> USE DEF WorkerUnchanged, Goto
  <2>1. CASE WorkerRecv(p, w) \/ WorkerExit(p, w) \/ WorkerLose(p, w) \/ WorkerRelease(p, w)
    BY <2>1 DEF WorkerRecv, WorkerExit, WorkerLose, WorkerRelease, TypeInv, TypeOK
  <2>2. CASE WorkerActivate(p, w)
    BY <1>1, <2>2 DEF WorkerActivate, Busy, TypeInv, TypeOK
  <2>3. CASE WorkerStart(p, w)
    BY <1>1, <2>3 DEF WorkerStart, Busy, TypeInv, TypeOK
  <2>4. CASE WorkerFinish(p, w)
    BY <1>1, <2>4 DEF WorkerFinish, Busy, TypeInv, TypeOK
  <2>5. CASE WorkerPanic(p, w)
    BY <1>1, <2>5 DEF WorkerPanic, Busy, TypeInv, TypeOK
  <2> QED BY <1>7, <2>1, <2>2, <2>3, <2>4, <2>5 DEF WorkerStep
<1> QED BY <1>2, <1>3, <1>4, <1>5, <1>6, <1>7 DEF ProcessStep, Crash

\* Budgets are only spent.
LEMMA CalmLasts == TypeInv /\ [Next]_vars /\ Calm' => Calm
<1> SUFFICES ASSUME TypeInv, [Next]_vars PROVE (Calm' => Calm)
  OBVIOUS
<1>1. CASE spent' = spent
  BY <1>1 DEF Calm
<1>2. ASSUME NEW e \in EnvEvents, Spend(e) PROVE (Calm' => Calm)
  BY <1>2 DEF Calm, Spend, EnvEvents, TypeInv, TypeOK
<1>3. {"crash", "panic", "store", "shutdown", "delete"} \subseteq EnvEvents
  BY DEF EnvEvents
<1>4. ASSUME NEW p \in Procs, MainStep(p) \/ Spawn(p) PROVE spent' = spent \/ Spend("store")
  BY <1>4 DEF MainStep, Spawn, BootScan, CliFollows, BeginStartup, RecoverClaims, StayFollower,
     ShutdownRelease, Exit
<1>5. ASSUME NEW p \in Procs, PumpStep(p) PROVE spent' = spent \/ Spend("store")
  BY <1>5 DEF PumpStep, PumpTakeLock, PumpRecover, RecoverClaims, PumpMarkStarted, PumpExit, PumpSignal,
     PumpScan, PumpLockLanes, PumpSkipReserved, PumpCloseOrphan, PumpLaneBusy, PumpSend, PumpEndPass
<1>6. ASSUME NEW p \in Procs, NEW w \in Workers, WorkerStep(p, w)
      PROVE  spent' = spent \/ Spend("store") \/ Spend("panic")
  BY <1>6 DEF WorkerStep, WorkerRecv, WorkerExit, WorkerActivate, WorkerLose, WorkerStart, WorkerFinish,
     WorkerPanic, WorkerRelease
<1>7. ASSUME NEW t \in Timers, Fire(t) PROVE spent' = spent
  BY <1>7 DEF Fire, FireAdmitted, FireSkipped, FireReplacing, FireUnchanged
<1>8. ASSUME Environment
      PROVE  spent' = spent \/ Spend("delete") \/ Spend("shutdown") \/ Spend("crash")
  BY <1>8 DEF Environment, LoadTimer, DeleteTimer, ShutdownBegin, Crash
<1>9. CASE UNCHANGED vars
  BY <1>1, <1>9 DEF vars
<1> QED BY <1>1, <1>2, <1>3, <1>4, <1>5, <1>6, <1>7, <1>8, <1>9 DEF Next

LEMMA CalmSpendsNothing == TypeInv /\ Calm' => ~Spend("store") /\ ~Spend("panic")
BY DEF Calm, Spend, EnvEvents, TypeInv, TypeOK

\* Rows move so that no order is disturbed: none becomes active, and one that
\* becomes unfinished is new and the newest of its timer.
IsNewest(d) ==
    /\ status[d] = "absent"
    /\ \A c \in ClaimsOf(d[1]) : status[c] # "absent" => c[2] < d[2]
QuietRows == \A d \in Claims :
    /\ status'[d] = "active" => status[d] = "active"
    /\ IsUnfinished(d)' => IsUnfinished(d) \/ IsNewest(d)

LEMMA OrderStands ==
    ASSUME TypeInv, TypeInv', LanesInv', [Next]_vars, NEW q \in Procs, OrderAt(q), SameProc(q),
           Owns(q)' => Owns(q) /\ QuietRows
    PROVE  OrderAt(q)'
<1>1. Recovered(q)' => Recovered(q) /\ QuietRows
  BY DEF SameProc, Recovered
<1>2. DownIsBare(q)' /\ PassStarted(q)'
  BY DEF SameProc, OrderAt, DownIsBare, PassStarted
<1>3. WorksRecovered(q)'
  <2>1. CASE Owns(q)'
    BY <2>1 DEF SameProc, OrderAt, WorksRecovered, Recovered
  <2>2. CASE ~Owns(q)'
    BY <2>2 DEF LanesInv, IdleWithoutLock, WorksRecovered
  <2> QED BY <2>1, <2>2
<1>4. /\ snapshot[q] \subseteq Claims /\ queued[q] \subseteq Claims /\ active[q] \subseteq Claims
  BY DEF TypeInv, TypeOK
<1>5. Known(q)'
  BY <1>4, RowsLast DEF SameProc, OrderAt, Known
<1>6. ASSUME Calm' PROVE OwnerInOrder(q)' /\ ServesInOrder(q)'
  <2>1. OwnerInOrder(q) /\ ServesInOrder(q)
    BY <1>6, CalmLasts DEF OrderAt
  <2>2. ServesInOrder(q)'
    <3>1. \A c \in Claims : OlderDone(c) => OlderDone(c)'
      BY RowsLast DEF OlderDone, ClaimsOf
    <3> QED BY <1>4, <2>1, <3>1 DEF ServesInOrder, SameProc
  <2>3. ASSUME Recovered(q)' PROVE ActiveHeld(q)' /\ ReleasesFinished(q)' /\ SnapshotWhole(q)'
    <3>1. ActiveHeld(q) /\ ReleasesFinished(q) /\ SnapshotWhole(q) /\ QuietRows
      BY <1>1, <2>1, <2>3 DEF OwnerInOrder
    <3>2. ActiveHeld(q)'
      BY <3>1 DEF ActiveHeld, QuietRows, SameProc
    <3>3. ReleasesFinished(q)'
      BY <3>1, RowsLast DEF ReleasesFinished, SameProc, TypeInv, WorkersHold, Busy
    <3>4. SnapshotWhole(q)'
      <4> SUFFICES ASSUME pump'[q] \in {"scanned", "dispatching"}, NEW c \in snapshot'[q],
                          NEW d \in ClaimsOf(c[1]), d[2] < c[2], IsUnfinished(d)'
                   PROVE  d \in snapshot'[q] \/ Reserved(q, d)'
        BY DEF SnapshotWhole, ClaimsOf
      <4>1. c \in Claims /\ d \in Claims /\ c \in snapshot[q] /\ c \in ClaimsOf(d[1])
            /\ c[2] \in Int /\ d[2] \in Int
        BY <1>4 DEF SameProc, ClaimsOf, Claims
      <4>2. ~IsNewest(d)
        BY <4>1 DEF IsNewest, OrderAt, Known
      <4>3. IsUnfinished(d)
        BY <3>1, <4>1, <4>2 DEF QuietRows
      <4> QED BY <3>1, <4>1, <4>3 DEF SnapshotWhole, SameProc, Reserved
    <3> QED BY <3>2, <3>3, <3>4
  <2> QED BY <2>2, <2>3 DEF OwnerInOrder
<1> QED BY <1>2, <1>3, <1>5, <1>6 DEF OrderAt

\* A fire inserts the newest claim of its timer and finishes others at most.
LEMMA FireIsQuiet == ASSUME TypeInv, InOrder, NEW t \in Timers, Fire(t) PROVE QuietRows
<1>1. PICK c \in ClaimsOf(t) :
         /\ IsNextClaim(c)
         /\ \A d \in Claims \ {c} : status'[d] \in {status[d], "finished"}
         /\ status'[c] \in {"pending", "finished"}
  <2>1. CASE FireAdmitted(t)
    BY <2>1 DEF FireAdmitted, ClaimsOf, TypeInv, TypeOK
  <2>2. CASE FireSkipped(t)
    BY <2>2 DEF FireSkipped, ClaimsOf, TypeInv, TypeOK
  <2>3. CASE FireReplacing(t)
    BY <2>3 DEF FireReplacing, ClaimsOf
  <2> QED BY <2>1, <2>2, <2>3 DEF Fire
<1>2. IsNewest(c)
  BY <1>1, NewClaimIsNewest DEF IsNewest, IsNextClaim, ClaimsOf
<1> QED BY <1>1, <1>2 DEF QuietRows, IsUnfinished

\* The acting process keeps its own order: main thread, crash and shutdown ...
LEMMA MainKeepsOrder ==
    ASSUME TypeInv, TypeInv', LanesInv, LanesInv', [Next]_vars, NEW p \in Procs, OrderAt(p),
           Spawn(p) \/ MainStep(p) \/ ShutdownBegin(p) \/ Crash(p)
    PROVE  OrderAt(p)'
<1> USE DEF ledger, lanes, pumpVars, workerVars, procVars
<1>1. CASE SameProc(p) /\ UNCHANGED <<status, lock>>
  BY <1>1, OrderStands DEF Owns, QuietRows, IsUnfinished
\* Whatever loses the lock or closes its channel has nothing to keep but the
\* order of its lane.
<1>2. ASSUME DownIsBare(p)', PassStarted(p)', p \in closed' \/ ~Owns(p)', snapshot'[p] \subseteq snapshot[p],
             queued'[p] \subseteq queued[p], active'[p] \subseteq active[p]
      PROVE  OrderAt(p)'
  <2>1. ~Recovered(p)' /\ WorksRecovered(p)'
    BY <1>2 DEF Recovered, WorksRecovered, LanesInv, IdleWithoutLock
  <2>2. /\ snapshot[p] \subseteq Claims /\ queued[p] \subseteq Claims /\ active[p] \subseteq Claims
    BY DEF TypeInv, TypeOK
  <2>3. Known(p)'
    BY <1>2, <2>2, RowsLast DEF OrderAt, Known
  <2>4. \A c \in Claims : OlderDone(c) => OlderDone(c)'
    BY RowsLast DEF OlderDone, ClaimsOf
  <2>5. Calm' => ServesInOrder(p)'
    BY <1>2, <2>2, <2>4, CalmLasts DEF OrderAt, ServesInOrder
  <2> QED BY <1>2, <2>1, <2>3, <2>5 DEF OrderAt, OwnerInOrder
<1>3. CASE Forget(p)
  BY <1>2, <1>3, ProcsAssumption DEF Forget, DownIsBare, PassStarted, Owns, TypeInv, TypeOK
<1>4. CASE ShutdownBegin(p)
  BY <1>2, <1>4 DEF ShutdownBegin, DownIsBare, PassStarted, TypeInv, TypeOK
<1>5. CASE ShutdownRelease(p)
  BY <1>2, <1>5, ProcsAssumption DEF ShutdownRelease, ThreadsJoined, DownIsBare, PassStarted, Owns, TypeInv, TypeOK
<1>6. CASE Spawn(p)
  <2>1. /\ mode'[p] = "primed" /\ main'[p] = "booting" /\ p \notin closed /\ ~Owns(p)
        /\ UNCHANGED <<status, spent, closed, pump, snapshot, hints, queued, active, wpc, wrun>>
    BY <1>6 DEF Spawn, OrderAt, DownIsBare, TypeInv, TypeOK
  <2>2. /\ pump[p] \in {"idle", "exited"}
        /\ hints[p] = <<>>
        /\ \A w \in Workers : ~Busy(wpc[p][w])
    BY <2>1 DEF LanesInv, IdleWithoutLock
  <2>3. ~Recovered(p)' /\ WorksRecovered(p)' /\ DownIsBare(p)' /\ PassStarted(p)'
    BY <2>1, <2>2 DEF Recovered, WorksRecovered, DownIsBare, PassStarted
  <2>4. Known(p)' /\ (Calm' => ServesInOrder(p)')
    BY <2>1 DEF OrderAt, Known, Calm, ServesInOrder, OlderDone
  <2> QED BY <2>3, <2>4 DEF OrderAt, OwnerInOrder
<1>7. CASE BootScan(p) \/ CliFollows(p) \/ StayFollower(p)
  <2>1. /\ main[p] # "down" /\ main'[p] # "down"
        /\ UNCHANGED <<status, spent, lock, closed, mode, pump, snapshot, hints, queued, active, wpc, wrun>>
    BY <1>7 DEF BootScan, CliFollows, StayFollower, TypeInv, TypeOK
  <2> QED BY <2>1 DEF OrderAt, DownIsBare, PassStarted, WorksRecovered, Recovered, Owns, Known, Calm, OwnerInOrder,
             ActiveHeld, ReleasesFinished, SnapshotWhole, IsUnfinished, Reserved, ServesInOrder, OlderDone
<1>8. CASE BeginStartup(p)
  <2>1. /\ main'[p] = "running" /\ mode'[p] = "started" /\ lock' = p
        /\ UNCHANGED <<closed, pump, snapshot, hints, queued, active, wpc, wrun>>
        /\ RecoverClaims
    BY <1>8 DEF BeginStartup, TypeInv, TypeOK
  <2>2. DownIsBare(p)' /\ PassStarted(p)'
    BY <2>1 DEF DownIsBare, PassStarted
  <2>3. Recovered(p) => Recovered(p)'
    BY <2>1 DEF Recovered, Owns
  <2>4. WorksRecovered(p)'
    BY <2>1, <2>3 DEF OrderAt, WorksRecovered
  <2>5. /\ snapshot[p] \subseteq Claims /\ queued[p] \subseteq Claims /\ active[p] \subseteq Claims
    BY DEF TypeInv, TypeOK
  <2>6. Known(p)'
    BY <2>1, <2>5, RowsLast DEF OrderAt, Known
  <2>7. ASSUME Calm' PROVE OwnerInOrder(p)' /\ ServesInOrder(p)'
    <3>1. OwnerInOrder(p) /\ ServesInOrder(p)
      BY <2>7, CalmLasts DEF OrderAt
    <3>2. \A c \in Claims : /\ status'[c] # "active"
                            /\ IsUnfinished(c)' <=> IsUnfinished(c)
      BY <2>1, <2>7, CalmSpendsNothing DEF RecoverClaims, RependAll, IsUnfinished
    <3>3. \A c \in Claims : OlderDone(c) => OlderDone(c)'
      BY RowsLast DEF OlderDone, ClaimsOf
    <3>4. ServesInOrder(p)'
      BY <2>1, <2>5, <3>1, <3>3 DEF ServesInOrder
    <3>5. ASSUME Recovered(p)' PROVE ReleasesFinished(p)' /\ SnapshotWhole(p)'
      <4>1. CASE Recovered(p)
        <5>1. ReleasesFinished(p)'
          BY <2>1, <3>1, <4>1, RowsLast DEF OwnerInOrder, ReleasesFinished, TypeInv, WorkersHold, Busy
        <5>2. SnapshotWhole(p)'
          BY <2>1, <3>1, <3>2, <4>1 DEF OwnerInOrder, SnapshotWhole, ClaimsOf, Reserved
        <5> QED BY <5>1, <5>2
      <4>2. CASE ~Recovered(p)
        <5>1. \A w \in Workers : ~Busy(wpc[p][w])
          BY <2>1, <3>5, <4>2 DEF OrderAt, WorksRecovered, Recovered
        <5>2. pump[p] \notin {"scanned", "dispatching"}
          BY <2>1, <3>5, <4>2 DEF Recovered, LanesInv, IdleWithoutLock
        <5> QED BY <2>1, <5>1, <5>2 DEF ReleasesFinished, SnapshotWhole, Busy
      <4> QED BY <4>1, <4>2
    <3> QED BY <3>2, <3>4, <3>5 DEF OwnerInOrder, ActiveHeld
  <2> QED BY <2>2, <2>4, <2>6, <2>7 DEF OrderAt
<1> QED BY <1>3, <1>4, <1>5, <1>6, <1>7, <1>8 DEF MainStep, Exit, Crash

\* A serial timer's lane with room is empty.
LEMMA EmptyLane ==
    ASSUME TypeInv, NEW p \in Procs, NEW t \in Timers, Policy[t] # "parallel", LaneHasRoom(p, t)
    PROVE  InLane(p, t) = {}
<1>1. Cardinality(InLane(p, t)) < 1
  BY DEF LaneHasRoom, Limit
<1>2. IsFiniteSet(InLane(p, t))
  BY ClaimsFinite DEF InLane, TypeInv, TypeOK
<1> QED BY <1>1, <1>2, FS_EmptySet, FS_CardinalityType

\* ... its pump ...
LEMMA PumpKeepsOrder ==
    ASSUME TypeInv, TypeInv', LanesInv, LanesInv', InOrder, [Next]_vars, NEW p \in Procs, OrderAt(p),
           PumpStep(p)
    PROVE  OrderAt(p)'
<1> USE DEF PumpUnchanged, ledger, workerVars
<1>1. pump[p] \notin {"idle", "exited"} => Owns(p)
  BY DEF LanesInv, IdleWithoutLock
<1>2. /\ snapshot[p] \subseteq Claims /\ queued[p] \subseteq Claims /\ active[p] \subseteq Claims
  BY DEF TypeInv, TypeOK
<1>3. \A c \in Claims : OlderDone(c) => OlderDone(c)'
  BY RowsLast DEF OlderDone, ClaimsOf
<1>4. UNCHANGED <<main, closed, wpc, wrun, active>>
  BY DEF PumpStep, PumpTakeLock, PumpRecover, PumpMarkStarted, PumpExit, PumpSignal, PumpScan,
     PumpLockLanes, PumpSkipReserved, PumpCloseOrphan, PumpLaneBusy, PumpSend, PumpEndPass
\* A step after which the process is not, or not yet, recovered.
<1>5. ASSUME UNCHANGED <<mode, hints, queued>>, DownIsBare(p)' /\ PassStarted(p)', snapshot'[p] = snapshot[p],
             ~Recovered(p)', ~Recovered(p) \/ ~Owns(p)'
      PROVE  OrderAt(p)'
  <2>1. WorksRecovered(p)'
    <3>1. CASE ~Owns(p)'
      BY <3>1 DEF LanesInv, IdleWithoutLock, WorksRecovered
    <3>2. CASE ~Recovered(p)
      BY <1>4, <1>5, <3>2 DEF OrderAt, WorksRecovered
    <3> QED BY <1>5, <3>1, <3>2
  <2>2. Known(p)'
    BY <1>2, <1>4, <1>5, RowsLast DEF OrderAt, Known
  <2>3. Calm' => ServesInOrder(p)'
    BY <1>2, <1>3, <1>4, <1>5, CalmLasts DEF OrderAt, ServesInOrder
  <2> QED BY <1>5, <2>1, <2>2, <2>3 DEF OrderAt, OwnerInOrder
\* A step of a recovered process that leaves the rows, the lane and the workers.
<1>6. ASSUME UNCHANGED <<lock, status, hints, queued>>, DownIsBare(p)' /\ PassStarted(p)', Known(p)',
             Recovered(p)' <=> Recovered(p),
             Calm' /\ Recovered(p) /\ ActiveHeld(p) /\ SnapshotWhole(p) => SnapshotWhole(p)'
      PROVE  OrderAt(p)'
  <2>1. WorksRecovered(p)'
    BY <1>4, <1>6 DEF OrderAt, WorksRecovered
  <2>2. Calm' => ServesInOrder(p)'
    BY <1>4, <1>6, CalmLasts DEF OrderAt, ServesInOrder, OlderDone
  <2>3. Calm' => OwnerInOrder(p)'
    BY <1>4, <1>6, CalmLasts DEF OrderAt, OwnerInOrder, ActiveHeld, ReleasesFinished
  <2> QED BY <1>6, <2>1, <2>2, <2>3 DEF OrderAt
<1>7. CASE PumpTakeLock(p)
  <2>1. /\ UNCHANGED <<mode, hints, queued, snapshot>>
        /\ ~Recovered(p) /\ ~Recovered(p)' /\ mode[p] # "down" /\ pump'[p] = "recovering"
    BY <1>7, ProcsAssumption DEF PumpTakeLock, Recovered, Owns, TypeInv, TypeOK
  <2>2. DownIsBare(p)' /\ PassStarted(p)'
    BY <1>4, <2>1 DEF OrderAt, DownIsBare, PassStarted
  <2> QED BY <1>5, <2>1, <2>2
<1>8. CASE PumpRecover(p)
  <2>1. /\ UNCHANGED <<lock, mode, hints, queued, snapshot>>
        /\ ~Recovered(p) /\ pump[p] = "recovering" /\ pump'[p] \in {"idle", "marking"}
    BY <1>8 DEF PumpRecover, Recovered, TypeInv, TypeOK
  <2>2. DownIsBare(p)' /\ PassStarted(p)'
    BY <1>4, <2>1 DEF OrderAt, DownIsBare, PassStarted, Owns
  <2>3. CASE mode[p] = "stopping"
    BY <1>5, <1>8, <2>1, <2>2, <2>3 DEF PumpRecover, Recovered, TypeInv, TypeOK
  <2>4. CASE mode[p] # "stopping"
    <3>1. pump'[p] = "marking" /\ RecoverClaims
      BY <1>8, <2>4 DEF PumpRecover, TypeInv, TypeOK
    <3>2. Known(p)'
      BY <1>2, <1>4, <2>1, RowsLast DEF OrderAt, Known
    <3>3. Calm' => ServesInOrder(p)'
      BY <1>2, <1>3, <1>4, <2>1, CalmLasts DEF OrderAt, ServesInOrder
    <3>4. p \notin closed => hints[p] = <<>> /\ \A w \in Workers : ~Busy(wpc[p][w])
      BY <2>1 DEF OrderAt, WorksRecovered
    <3>5. WorksRecovered(p)'
      BY <1>4, <2>1, <3>4 DEF WorksRecovered
    <3>6. ASSUME Calm', Recovered(p)' PROVE ActiveHeld(p)' /\ ReleasesFinished(p)' /\ SnapshotWhole(p)'
      <4>1. \A c \in Claims : status'[c] # "active"
        BY <3>1, <3>6, CalmSpendsNothing DEF RecoverClaims, RependAll
      <4>2. \A w \in Workers : ~Busy(wpc'[p][w])
        BY <1>4, <3>4, <3>6 DEF Recovered
      <4> QED BY <3>1, <4>1, <4>2 DEF ActiveHeld, ReleasesFinished, SnapshotWhole, Busy
    <3> QED BY <2>2, <3>2, <3>3, <3>5, <3>6 DEF OrderAt, OwnerInOrder
  <2> QED BY <2>3, <2>4
<1>9. CASE PumpMarkStarted(p)
  <2>1. /\ UNCHANGED <<lock, status, hints, queued, snapshot>>
        /\ pump[p] = "marking" /\ pump'[p] = "idle" /\ mode'[p] = "started"
    BY <1>9 DEF PumpMarkStarted, TypeInv, TypeOK
  <2>2. DownIsBare(p)' /\ PassStarted(p)'
    BY <1>1, <1>4, <2>1 DEF OrderAt, DownIsBare, PassStarted, Owns
  <2>3. Recovered(p)' <=> Recovered(p)
    BY <1>4, <2>1 DEF Recovered, Owns
  <2>4. Known(p)'
    BY <1>4, <2>1 DEF OrderAt, Known
  <2> QED BY <1>6, <2>1, <2>2, <2>3, <2>4 DEF SnapshotWhole
<1>10. CASE PumpExit(p)
  <2>1. /\ UNCHANGED <<lock, mode, hints, queued, snapshot>>
        /\ ~Recovered(p) /\ ~Recovered(p)' /\ pump'[p] = "exited"
    BY <1>10 DEF PumpExit, Recovered, TypeInv, TypeOK
  <2>2. DownIsBare(p)' /\ PassStarted(p)'
    BY <1>4, <2>1 DEF OrderAt, DownIsBare, PassStarted, Owns
  <2> QED BY <1>5, <2>1, <2>2
<1>11. CASE PumpSignal(p) \/ PumpScan(p) \/ PumpLockLanes(p) \/ PumpEndPass(p)
  <2>1. /\ UNCHANGED <<lock, status, mode, hints, queued>>
        /\ pump[p] \in {"idle", "signalled", "scanned", "dispatching"}
        /\ pump'[p] \in {"idle", "signalled", "scanned", "dispatching"}
        /\ pump[p] = "idle" => mode[p] = "started" /\ Owns(p)
    <3>1. CASE PumpSignal(p)
      BY <3>1 DEF PumpSignal, TypeInv, TypeOK
    <3>2. CASE PumpScan(p) \/ PumpLockLanes(p)
      BY <3>2 DEF PumpScan, PumpLockLanes, TypeInv, TypeOK
    <3>3. CASE PumpEndPass(p)
      BY <3>3 DEF PumpEndPass, TypeInv, TypeOK
    <3> QED BY <1>11, <3>1, <3>2, <3>3
  <2>2. Owns(p) /\ (mode[p] = "started" \/ p \in closed)
    BY <1>1, <2>1 DEF OrderAt, PassStarted
  <2>3. Recovered(p)' <=> Recovered(p)
    BY <1>4, <2>1, <2>2 DEF Recovered, Owns
  <2>4. DownIsBare(p)' /\ PassStarted(p)'
    BY <1>4, <2>1, <2>2 DEF OrderAt, DownIsBare, PassStarted, Owns
  <2>5. Known(p)' /\ (Calm' /\ Recovered(p) /\ ActiveHeld(p) /\ SnapshotWhole(p) => SnapshotWhole(p)')
    <3>1. CASE PumpSignal(p)
      BY <1>4, <2>1, <3>1 DEF PumpSignal, OrderAt, Known, SnapshotWhole, TypeInv, TypeOK
    <3>2. CASE PumpScan(p)
      <4>1. snapshot'[p] = {c \in Claims : status[c] = "pending"}
        BY <3>2 DEF PumpScan, TypeInv, TypeOK
      <4>2. ASSUME ActiveHeld(p), NEW d \in Claims, IsUnfinished(d)'
            PROVE  d \in snapshot'[p] \/ Reserved(p, d)'
        <5>1. status[d] = "pending" \/ status[d] = "active"
          BY <2>1, <4>2 DEF IsUnfinished
        <5>2. CASE status[d] = "pending"
          BY <4>1, <5>2
        <5>3. CASE status[d] = "active"
          <6>1. Reserved(p, d)
            BY <4>2, <5>3 DEF ActiveHeld, LanesInv, HeldReserved, Reserved
          <6> QED BY <1>4, <2>1, <6>1 DEF Reserved
        <5> QED BY <5>1, <5>2, <5>3
      <4>3. Known(p)'
        BY <1>4, <2>1, <4>1 DEF OrderAt, Known
      <4> QED BY <4>2, <4>3 DEF SnapshotWhole, ClaimsOf
    <3>3. CASE PumpLockLanes(p)
      BY <1>4, <2>1, <3>3 DEF PumpLockLanes, OrderAt, Known, SnapshotWhole, IsUnfinished, Reserved, TypeInv, TypeOK
    <3>4. CASE PumpEndPass(p)
      BY <1>4, <2>1, <3>4 DEF PumpEndPass, OrderAt, Known, SnapshotWhole, TypeInv, TypeOK
    <3> QED BY <1>11, <3>1, <3>2, <3>3, <3>4
  <2> QED BY <1>6, <2>1, <2>3, <2>4, <2>5
\* The claims of a pass, one by one.
<1>12. CASE PumpSkipReserved(p) \/ PumpCloseOrphan(p) \/ PumpLaneBusy(p) \/ PumpSend(p)
  <2>1. UNCHANGED <<lock, mode, pump>> /\ pump[p] = "dispatching" /\ Owns(p)
    BY <1>1, <1>12 DEF PumpSkipReserved, PumpCloseOrphan, PumpLaneBusy, PumpSend, IsEligible, IsNextInSnapshot
  <2>2. DownIsBare(p)' /\ PassStarted(p)' /\ (Recovered(p)' <=> Recovered(p))
    BY <1>4, <2>1 DEF OrderAt, DownIsBare, PassStarted, Recovered, Owns
  <2>3. Recovered(p) <=> p \notin closed
    BY <2>1 DEF Recovered
  <2>4. CASE PumpSkipReserved(p)
    <3>1. PICK c \in Claims : Reserved(p, c) /\ snapshot' = [snapshot EXCEPT ![p] = @ \ {c}]
      BY <2>4 DEF PumpSkipReserved
    <3>2. UNCHANGED <<lock, status, hints, queued>> /\ snapshot'[p] = snapshot[p] \ {c}
      BY <2>4, <3>1 DEF PumpSkipReserved, TypeInv, TypeOK
    <3>3. Known(p)'
      BY <1>4, <3>2 DEF OrderAt, Known
    <3>4. SnapshotWhole(p) => SnapshotWhole(p)'
      BY <1>4, <2>1, <3>1, <3>2 DEF SnapshotWhole, IsUnfinished, Reserved
    <3> QED BY <1>6, <2>2, <3>2, <3>3, <3>4
  <2>5. CASE PumpLaneBusy(p)
    <3>1. PICK b \in Claims : snapshot' = [snapshot EXCEPT ![p] = @ \ ClaimsOf(b[1])]
      BY <2>5 DEF PumpLaneBusy
    <3>2. UNCHANGED <<lock, status, hints, queued>> /\ snapshot'[p] = snapshot[p] \ ClaimsOf(b[1])
      BY <2>5, <3>1 DEF PumpLaneBusy, TypeInv, TypeOK
    <3>3. Known(p)'
      BY <1>4, <3>2 DEF OrderAt, Known
    <3>4. SnapshotWhole(p) => SnapshotWhole(p)'
      BY <1>2, <1>4, <2>1, <3>2 DEF SnapshotWhole, IsUnfinished, Reserved, ClaimsOf
    <3> QED BY <1>6, <2>2, <3>2, <3>3, <3>4
  <2>6. CASE PumpCloseOrphan(p)
    <3>1. PICK c \in Claims : /\ snapshot' = [snapshot EXCEPT ![p] = @ \ {c}]
                              /\ c \in snapshot[p]
                              /\ IF IsUnfinished(c) THEN status' = [status EXCEPT ![c] = "finished"]
                                 ELSE UNCHANGED status
      BY <2>6 DEF PumpCloseOrphan, IsNextInSnapshot
    <3>2. UNCHANGED <<lock, hints, queued, spent>> /\ snapshot'[p] = snapshot[p] \ {c}
      BY <2>6, <3>1 DEF PumpCloseOrphan, TypeInv, TypeOK
    <3>3. Known(p)'
      BY <1>2, <1>4, <3>2, RowsLast DEF OrderAt, Known
    <3>4. /\ ~IsUnfinished(c)'
          /\ \A d \in Claims : /\ IsUnfinished(d)' => IsUnfinished(d)
                               /\ status'[d] = "active" => status[d] = "active"
      BY <3>1 DEF IsUnfinished, TypeInv, TypeOK
    <3>5. SnapshotWhole(p) => SnapshotWhole(p)'
      BY <1>2, <1>4, <2>1, <3>2, <3>4 DEF SnapshotWhole, Reserved, ClaimsOf, IsUnfinished
    <3>6. ActiveHeld(p) => ActiveHeld(p)'
      BY <1>4, <3>4 DEF ActiveHeld, IsUnfinished
    <3>7. ReleasesFinished(p) => ReleasesFinished(p)'
      BY <1>4, RowsLast DEF ReleasesFinished, TypeInv, WorkersHold, Busy
    <3>8. ServesInOrder(p) => ServesInOrder(p)'
      BY <1>2, <1>3, <1>4, <3>2 DEF ServesInOrder
    <3>9. WorksRecovered(p)'
      BY <1>4, <2>2, <3>2 DEF OrderAt, WorksRecovered
    <3> QED BY <2>2, <3>3, <3>5, <3>6, <3>7, <3>8, <3>9, CalmLasts DEF OrderAt, OwnerInOrder
  <2>7. CASE PumpSend(p)
    <3>1. PICK c \in Claims : /\ IsEligible(p, c)
                              /\ p \notin closed
                              /\ queued' = [queued EXCEPT ![p] = @ \union {c}]
                              /\ snapshot' = [snapshot EXCEPT ![p] = @ \ {c}]
      BY <2>7 DEF PumpSend
    <3>2. /\ UNCHANGED <<status, spent>>
          /\ snapshot'[p] = snapshot[p] \ {c}
          /\ queued'[p] = queued[p] \union {c}
          /\ active'[p] = active[p]
      BY <1>4, <2>7, <3>1 DEF PumpSend, TypeInv, TypeOK
    <3>3. /\ c \in snapshot[p]
          /\ \A d \in snapshot[p] : d[1] = c[1] => c[2] <= d[2]
          /\ LaneHasRoom(p, c[1])
      BY <3>1 DEF IsEligible, IsNextInSnapshot
    <3>4. Known(p)'
      BY <3>2, <3>3 DEF OrderAt, Known
    <3>5. SnapshotWhole(p) => SnapshotWhole(p)'
      BY <2>1, <3>2 DEF SnapshotWhole, Reserved, IsUnfinished
    <3>6. ActiveHeld(p) => ActiveHeld(p)'
      BY <1>4, <3>2 DEF ActiveHeld
    <3>7. ReleasesFinished(p) => ReleasesFinished(p)'
      BY <1>4, <3>2 DEF ReleasesFinished
    <3>8. WorksRecovered(p)'
      BY <2>2, <2>3, <3>1 DEF WorksRecovered
    <3>9. ASSUME SnapshotWhole(p), Policy[c[1]] # "parallel" PROVE OlderDone(c)
      <4>1. InLane(p, c[1]) = {}
        BY <3>3, <3>9, EmptyLane DEF Claims
      <4>2. ASSUME NEW d \in ClaimsOf(c[1]), d[2] < c[2] PROVE status[d] = "finished"
        <5>1. /\ d \in Claims /\ d[1] = c[1] /\ d[2] \in Int /\ c[2] \in Int
          BY DEF ClaimsOf, Claims
        <5>2. d \notin snapshot[p] /\ ~Reserved(p, d)
          BY <3>3, <4>1, <4>2, <5>1 DEF InLane, Reserved
        <5>3. ~IsUnfinished(d)
          BY <2>1, <3>3, <3>9, <4>2, <5>2 DEF SnapshotWhole
        <5>4. status[d] # "absent"
          BY <3>3, <4>2 DEF OrderAt, Known, InOrder
        <5> QED BY <5>1, <5>3, <5>4 DEF IsUnfinished, TypeInv, TypeOK, Statuses
      <4> QED BY <4>2 DEF OlderDone
    <3>10. SnapshotWhole(p) /\ ServesInOrder(p) => ServesInOrder(p)'
      BY <3>2, <3>9 DEF ServesInOrder, OlderDone
    <3>11. Recovered(p)
      BY <2>3, <3>1
    <3> QED BY <2>2, <3>4, <3>5, <3>6, <3>7, <3>8, <3>10, <3>11, CalmLasts DEF OrderAt, OwnerInOrder
  <2> QED BY <1>12, <2>4, <2>5, <2>6, <2>7
<1> QED BY <1>7, <1>8, <1>9, <1>10, <1>11, <1>12 DEF PumpStep

\* ... and its workers.
LEMMA WorkersKeepOrder ==
    ASSUME TypeInv, TypeInv', LanesInv, LanesInv', [Next]_vars, NEW p \in Procs, OrderAt(p),
           NEW w \in Workers, WorkerStep(p, w)
    PROVE  OrderAt(p)'
<1> DEFINE c == wrun[p][w]
<1> USE DEF WorkerUnchanged, Goto, procVars, pumpVars, ledger, lanes
<1>1. UNCHANGED <<lock, main, mode, closed, pump, snapshot>>
  BY DEF WorkerStep, WorkerRecv, WorkerExit, WorkerActivate, WorkerLose, WorkerStart, WorkerFinish,
     WorkerPanic, WorkerRelease
<1>2. /\ DownIsBare(p)' /\ PassStarted(p)'
      /\ Recovered(p)' <=> Recovered(p)
  BY <1>1 DEF OrderAt, DownIsBare, PassStarted, Recovered, Owns
<1>3. /\ snapshot[p] \subseteq Claims /\ queued[p] \subseteq Claims /\ active[p] \subseteq Claims
  BY DEF TypeInv, TypeOK
<1>4. hints[p] # <<>> \/ Busy(wpc[p][w]) \/ p \in closed
  BY DEF WorkerStep, WorkerRecv, WorkerExit, WorkerActivate, WorkerLose, WorkerStart, WorkerFinish,
     WorkerPanic, WorkerRelease, Busy
<1>5. WorksRecovered(p)'
  BY <1>1, <1>2, <1>4 DEF OrderAt, WorksRecovered
<1>6. ASSUME queued'[p] \union active'[p] \subseteq queued[p] \union active[p]
      PROVE  Known(p)' /\ (Calm' => ServesInOrder(p)')
  <2>1. Known(p)'
    BY <1>1, <1>3, <1>6, RowsLast DEF OrderAt, Known
  <2>2. \A d \in Claims : OlderDone(d) => OlderDone(d)'
    BY RowsLast DEF OlderDone, ClaimsOf
  <2> QED BY <1>3, <1>6, <2>1, <2>2, CalmLasts DEF OrderAt, ServesInOrder
\* It suffices to see that the three facts about a recovered owner are kept.
<1>7. ASSUME queued'[p] \union active'[p] \subseteq queued[p] \union active[p],
             Calm' /\ Recovered(p) /\ ActiveHeld(p) /\ ReleasesFinished(p) /\ SnapshotWhole(p)
                => ActiveHeld(p)' /\ ReleasesFinished(p)' /\ SnapshotWhole(p)'
      PROVE  OrderAt(p)'
  <2>1. Known(p)' /\ (Calm' => ServesInOrder(p)')
    BY <1>6, <1>7
  <2>2. Calm' => OwnerInOrder(p)'
    BY <1>2, <1>7, CalmLasts DEF OrderAt, OwnerInOrder
  <2> QED BY <1>2, <1>5, <2>1, <2>2 DEF OrderAt
\* The other workers stay as they are.
<1>8. \A v \in Workers \ {w} : wpc'[p][v] = wpc[p][v] /\ wrun'[p][v] = wrun[p][v]
  BY DEF WorkerStep, WorkerRecv, WorkerExit, WorkerActivate, WorkerLose, WorkerStart, WorkerFinish,
     WorkerPanic, WorkerRelease, TypeInv, TypeOK
<1>9. Busy(wpc[p][w]) => c \in Claims /\ \A v \in Workers \ {w} : Busy(wpc[p][v]) => wrun[p][v] # c
  BY DEF TypeInv, WorkersHold, LanesInv, HeldOnce
<1>10. CASE WorkerRecv(p, w) \/ WorkerExit(p, w)
  <2>1. /\ UNCHANGED <<status, queued, active>>
        /\ wpc[p][w] = "idle" /\ wpc'[p][w] \in {"got", "exited"}
    BY <1>10 DEF WorkerRecv, WorkerExit, TypeInv, TypeOK
  <2>2. ActiveHeld(p) => ActiveHeld(p)'
    BY <1>8, <2>1 DEF ActiveHeld
  <2>3. ReleasesFinished(p) => ReleasesFinished(p)'
    BY <1>8, <2>1 DEF ReleasesFinished
  <2>4. SnapshotWhole(p) => SnapshotWhole(p)'
    BY <1>1, <2>1 DEF SnapshotWhole, IsUnfinished, Reserved
  <2> QED BY <1>7, <2>1, <2>2, <2>3, <2>4
<1>11. CASE WorkerActivate(p, w)
  <2>1. /\ UNCHANGED <<queued, active, wrun>>
        /\ wpc[p][w] = "got" /\ wpc'[p][w] = "activated"
        /\ status[c] = "pending" /\ status' = [status EXCEPT ![c] = "active"]
    BY <1>11 DEF WorkerActivate, SwapWins, TypeInv, TypeOK
  <2>2. ActiveHeld(p) => ActiveHeld(p)'
    <3> SUFFICES ASSUME ActiveHeld(p), NEW d \in Claims, status'[d] = "active"
                 PROVE  \E v \in Workers : /\ wrun'[p][v] = d
                                           /\ wpc'[p][v] \in {"activated", "orphaned", "executing"}
      BY DEF ActiveHeld
    <3>1. CASE d = c
      BY <2>1, <3>1
    <3>2. CASE d # c
      <4>1. status[d] = "active"
        BY <2>1, <3>2 DEF TypeInv, TypeOK
      <4>2. PICK v \in Workers : wrun[p][v] = d /\ wpc[p][v] \in {"activated", "orphaned", "executing"}
        BY <4>1 DEF ActiveHeld
      <4> QED BY <1>8, <2>1, <4>2
    <3> QED BY <3>1, <3>2
  <2>3. ReleasesFinished(p) => ReleasesFinished(p)'
    BY <1>8, <2>1, RowsLast DEF ReleasesFinished, TypeInv, WorkersHold, Busy
  <2>4. \A d \in Claims : IsUnfinished(d)' => IsUnfinished(d)
    BY <2>1 DEF IsUnfinished, TypeInv, TypeOK
  <2>5. SnapshotWhole(p) => SnapshotWhole(p)'
    BY <1>1, <1>3, <2>1, <2>4 DEF SnapshotWhole, Reserved, ClaimsOf
  <2> QED BY <1>7, <2>1, <2>2, <2>3, <2>5
<1>12. CASE WorkerLose(p, w)
  <2>1. /\ UNCHANGED <<status, queued, active, wrun>>
        /\ wpc[p][w] = "got" /\ wpc'[p][w] = "releasing_queued"
        /\ Calm' => status[c] # "pending"
    BY <1>12, CalmSpendsNothing DEF WorkerLose, SwapWins, TypeInv, TypeOK
  <2>2. ActiveHeld(p) => ActiveHeld(p)'
    BY <1>8, <2>1 DEF ActiveHeld
  <2>3. Calm' /\ ActiveHeld(p) => status[c] = "finished"
    <3>1. c \in queued[p] /\ c \in Claims
      BY <1>9, <2>1 DEF LanesInv, HeldReserved, Busy
    <3>2. status[c] # "absent"
      BY <3>1 DEF OrderAt, Known
    <3>3. ActiveHeld(p) => status[c] # "active"
      BY <1>9, <2>1, <3>1 DEF ActiveHeld, Busy
    <3> QED BY <2>1, <3>1, <3>2, <3>3 DEF TypeInv, TypeOK, Statuses
  <2>4. Calm' /\ ActiveHeld(p) /\ ReleasesFinished(p) => ReleasesFinished(p)'
    BY <1>8, <2>1, <2>3 DEF ReleasesFinished
  <2>5. SnapshotWhole(p) => SnapshotWhole(p)'
    BY <1>1, <2>1 DEF SnapshotWhole, IsUnfinished, Reserved
  <2> QED BY <1>7, <2>1, <2>2, <2>4, <2>5
<1>13. CASE WorkerStart(p, w)
  <2>1. /\ UNCHANGED wrun
        /\ wpc[p][w] = "activated"
        /\ c \in queued[p]
        /\ queued'[p] = queued[p] \ {c}
        /\ active'[p] = active[p] \union {c}
    BY <1>13 DEF WorkerStart, LanesInv, HeldReserved, TypeInv, TypeOK
  <2>2. queued'[p] \union active'[p] = queued[p] \union active[p]
    BY <2>1
  <2>3. Calm' => UNCHANGED status /\ wpc'[p][w] \in {"executing", "orphaned"}
    BY <1>13, CalmSpendsNothing DEF WorkerStart, TypeInv, TypeOK
  <2>4. Calm' /\ ActiveHeld(p) => ActiveHeld(p)'
    BY <1>8, <2>1, <2>3 DEF ActiveHeld
  <2>5. Calm' /\ ReleasesFinished(p) => ReleasesFinished(p)'
    BY <1>8, <2>3 DEF ReleasesFinished
  <2>6. Calm' /\ SnapshotWhole(p) => SnapshotWhole(p)'
    BY <1>1, <2>2, <2>3 DEF SnapshotWhole, IsUnfinished, Reserved
  <2> QED BY <1>7, <2>2, <2>4, <2>5, <2>6
<1>14. CASE WorkerFinish(p, w)
  <2>1. /\ UNCHANGED <<queued, active, wrun>>
        /\ wpc[p][w] \in {"executing", "orphaned"} /\ wpc'[p][w] = "releasing_lane"
    BY <1>14 DEF WorkerFinish, TypeInv, TypeOK
  <2>2. c \in active[p] /\ c \in Claims /\ status[c] \in {"pending", "active", "finished"}
    <3>1. c \in active[p] /\ c \in Claims
      BY <1>9, <2>1 DEF LanesInv, HeldReserved, Busy
    <3>2. status[c] # "absent"
      BY <3>1 DEF OrderAt, Known
    <3> QED BY <3>1, <3>2 DEF TypeInv, TypeOK, Statuses
  <2>3. Calm' => status' = [status EXCEPT ![c] = "finished"]
    <3>1. ASSUME NEW o, FinishWithEvent(c, o) PROVE status' = [status EXCEPT ![c] = "finished"]
      BY <2>2, <3>1 DEF FinishWithEvent, IsUnfinished, TypeInv, TypeOK
    <3> QED BY <1>14, <3>1, CalmSpendsNothing DEF WorkerFinish
  <2>4. Calm' => /\ status'[c] = "finished"
                 /\ \A d \in Claims \ {c} : status'[d] = status[d]
    BY <2>2, <2>3 DEF TypeInv, TypeOK
  <2>5. Calm' /\ ActiveHeld(p) => ActiveHeld(p)'
    BY <1>8, <2>1, <2>2, <2>4 DEF ActiveHeld
  <2>6. Calm' /\ ReleasesFinished(p) => ReleasesFinished(p)'
    BY <1>8, <2>1, <2>4, RowsLast DEF ReleasesFinished, TypeInv, WorkersHold, Busy
  <2>7. \A d \in Claims : Calm' /\ IsUnfinished(d)' => IsUnfinished(d)
    BY <2>4 DEF IsUnfinished
  <2>8. Calm' /\ SnapshotWhole(p) => SnapshotWhole(p)'
    BY <1>1, <1>3, <2>1, <2>7 DEF SnapshotWhole, Reserved, ClaimsOf, IsUnfinished
  <2> QED BY <1>7, <2>1, <2>5, <2>6, <2>8
<1>15. CASE WorkerPanic(p, w)
  <2>1. ~Calm' /\ UNCHANGED <<queued, active>>
    BY <1>15, CalmSpendsNothing DEF WorkerPanic
  <2> QED BY <1>7, <2>1
<1>16. CASE WorkerRelease(p, w)
  <2>1. /\ UNCHANGED status
        /\ wpc[p][w] \in {"releasing_queued", "releasing_lane"} /\ wpc'[p][w] = "idle"
        /\ queued'[p] = queued[p] \ {c}
        /\ active'[p] \in {active[p], active[p] \ {c}}
    BY <1>16 DEF WorkerRelease, TypeInv, TypeOK
  <2>2. ReleasesFinished(p) => status[c] = "finished"
    BY <2>1 DEF ReleasesFinished
  <2>3. ActiveHeld(p) => ActiveHeld(p)'
    BY <1>8, <2>1 DEF ActiveHeld
  <2>4. ReleasesFinished(p) => ReleasesFinished(p)'
    BY <1>8, <2>1 DEF ReleasesFinished
  <2>5. \A d \in Claims \ {c} : Reserved(p, d)' <=> Reserved(p, d)
    BY <2>1 DEF Reserved
  <2>6. ReleasesFinished(p) /\ SnapshotWhole(p) => SnapshotWhole(p)'
    BY <1>1, <2>1, <2>2, <2>5 DEF SnapshotWhole, IsUnfinished, ClaimsOf
  <2> QED BY <1>7, <2>1, <2>3, <2>4, <2>6
<1> QED BY <1>10, <1>11, <1>12, <1>13, <1>14, <1>15, <1>16 DEF WorkerStep

\* Every step keeps the order of every process.
LEMMA OrderNext ==
    TypeInv /\ TypeInv' /\ LanesInv /\ LanesInv' /\ InOrder /\ OrderInv /\ [Next]_vars => OrderInv'
<1> SUFFICES ASSUME TypeInv, TypeInv', LanesInv, LanesInv', InOrder, OrderInv, [Next]_vars,
                    NEW q \in Procs
             PROVE  OrderAt(q)'
  BY DEF OrderInv
<1>1. OrderAt(q)
  BY DEF OrderInv
<1>2. ASSUME NEW p \in Procs, ProcessStep(p) PROVE OrderAt(q)'
  <2>1. CASE q # p
    <3>1. SameProc(q) /\ (Owns(q)' => Owns(q) /\ SameRows)
      BY <1>2, <2>1, OthersStandBy DEF StandsBy
    <3>2. SameRows => QuietRows
      BY DEF SameRows, QuietRows, IsUnfinished
    <3> QED BY <1>1, <3>1, <3>2, OrderStands
  <2>2. CASE q = p
    BY <1>1, <1>2, <2>2, MainKeepsOrder, PumpKeepsOrder, WorkersKeepOrder DEF ProcessStep
  <2> QED BY <2>1, <2>2
<1>3. ASSUME QuietRows, UNCHANGED <<lock, procVars, pumpVars, hints, lanes, workerVars>>
      PROVE  OrderAt(q)'
  <2>1. SameProc(q) /\ Owns(q)' = Owns(q)
    BY <1>3 DEF SameProc, Owns, procVars, pumpVars, lanes, workerVars
  <2> QED BY <1>1, <1>3, <2>1, OrderStands
<1>4. ASSUME NEW t \in Timers, Fire(t) PROVE OrderAt(q)'
  <2>1. UNCHANGED <<lock, procVars, pumpVars, hints, lanes, workerVars>>
    BY <1>4 DEF Fire, FireAdmitted, FireSkipped, FireReplacing, FireUnchanged
  <2> QED BY <1>3, <1>4, <2>1, FireIsQuiet
<1>5. UNCHANGED status => QuietRows
  BY DEF QuietRows, IsUnfinished
<1>6. ASSUME NEW t \in Timers, LoadTimer(t) \/ DeleteTimer(t) PROVE OrderAt(q)'
  BY <1>3, <1>5, <1>6 DEF LoadTimer, DeleteTimer, ledger
<1>7. CASE UNCHANGED vars
  BY <1>3, <1>5, <1>7 DEF vars, ledger
<1> QED BY <1>2, <1>4, <1>6, <1>7 DEF Next, Environment, ProcessStep

\* The claims of a serial timer are executed in their order, however processes
\* crash, take over and shut down, as long as no attempt panics and no store
\* call fails (pump_once reads the pending claims before it locks the lanes).
THEOREM SerialClaimsInOrder == Spec => []SerialOrder
<1>1. TypeInv /\ LanesInv /\ OrderInv => SerialOrder
  <2> SUFFICES ASSUME TypeInv, LanesInv, OrderInv, NEW p \in Procs, NEW w \in Workers,
                      Executing(p, w), Policy[wrun[p][w][1]] # "parallel",
                      NEW d \in ClaimsOf(wrun[p][w][1]), d[2] < wrun[p][w][2], Calm
               PROVE  status[d] = "finished"
    BY DEF SerialOrder, Calm, EnvEvents, TypeInv, TypeOK
  <2>1. wrun[p][w] \in active[p]
    BY DEF Executing, LanesInv, HeldReserved
  <2>2. OlderDone(wrun[p][w])
    BY <2>1 DEF OrderInv, OrderAt, ServesInOrder
  <2> QED BY <2>2 DEF OlderDone
<1>2. Spec => [](TypeInv /\ LanesInv /\ ReplaceInv /\ OrderInv)
  <2>1. ReplaceInv => InOrder
    BY DEF ReplaceInv
  <2> QED BY <2>1, TypeInit, TypeNext, LanesInit, LanesNext, ReplaceInit, ReplaceNext, OrderInit, OrderNext, PTL
             DEF Spec
<1> QED BY <1>1, <1>2, PTL

-----------------------------------------------------------------------------
(* The refinement of ClaimLedger: the lane book, the hints and the OS lock   *)
(* are an implementation of "started only from pending, by nobody else,      *)
(* while a slot is free".                                                    *)

HeldPCs == {"activated", "orphaned", "executing"}

\* The part of the dispatcher's invariant the refinement needs.
Book == TypeInv /\ LanesInv /\ LaneWithinLimit

\* A busy worker is alone with its claim, in its process and beside the others.
LEMMA HeldAlone ==
    ASSUME Book, NEW p \in Procs, NEW q \in Procs, NEW w \in Workers, NEW v \in Workers,
           Busy(wpc[p][w]), Busy(wpc[q][v]), wrun[p][w] = wrun[q][v]
    PROVE  p = q /\ w = v
<1>1. Owns(p) /\ Owns(q)
  BY DEF Book, LanesInv, IdleWithoutLock
<1>2. p = q
  BY <1>1 DEF Owns
<1> QED BY <1>2 DEF Book, LanesInv, HeldOnce

\* No status moves and no action begins: at most a process has died.
LEMMA NothingStarts ==
    ASSUME UNCHANGED status, Running' \subseteq Running
    PROVE  Ledger!Next
BY DEF Ledger!Next, Ledger!Vanish

\* The program counters of the workers are left alone.
LEMMA RunningSame ==
    ASSUME UNCHANGED <<wpc, wrun>>
    PROVE  Running' = Running
BY DEF Running

\* One worker moves and keeps its claim.
LEMMA OneWorker ==
    ASSUME Book, NEW p \in Procs, NEW w \in Workers, NEW pc, Busy(wpc[p][w]),
           wpc' = [wpc EXCEPT ![p][w] = pc], UNCHANGED wrun
    PROVE  /\ pc \in HeldPCs => Running' = Running \union {wrun[p][w]}
           /\ pc \notin HeldPCs => Running' = Running \ {wrun[p][w]}
           /\ wrun[p][w] \in Running <=> wpc[p][w] \in HeldPCs
<1> DEFINE c == wrun[p][w]
<1>1. c \in Claims
  BY DEF Book, TypeInv, WorkersHold
<1>2. \A q \in Procs, v \in Workers : wpc'[q][v] = IF q = p /\ v = w THEN pc ELSE wpc[q][v]
  BY DEF Book, TypeInv, TypeOK
<1>3. \A q \in Procs, v \in Workers : wrun[q][v] = c /\ wpc[q][v] \in HeldPCs => q = p /\ v = w
  BY HeldAlone DEF HeldPCs, Busy
<1>4. Running = {d \in Claims : \E q \in Procs, v \in Workers : wrun[q][v] = d /\ wpc[q][v] \in HeldPCs}
  BY DEF Running, HeldPCs
<1>5. Running' = {d \in Claims : \E q \in Procs, v \in Workers : wrun[q][v] = d /\ wpc'[q][v] \in HeldPCs}
  BY DEF Running, HeldPCs
<1>6. c \in Running <=> wpc[p][w] \in HeldPCs
  BY <1>1, <1>3, <1>4
<1>7. c \in Running' <=> pc \in HeldPCs
  BY <1>1, <1>2, <1>3, <1>5
<1>8. ASSUME NEW d \in Claims, d # c PROVE d \in Running' <=> d \in Running
  BY <1>2, <1>4, <1>5, <1>8
<1>9. Running \subseteq Claims /\ Running' \subseteq Claims
  BY <1>4, <1>5
<1> QED BY <1>1, <1>6, <1>7, <1>8, <1>9

\* Fires touch no worker.
LEMMA FireRefines ==
    ASSUME Book, NEW t \in Timers, Fire(t)
    PROVE  Ledger!Next
<1>0. Running' = Running
  BY RunningSame DEF Fire, FireAdmitted, FireSkipped, FireReplacing, FireUnchanged, workerVars
<1>1. CASE FireAdmitted(t)
  <2>1. PICK c \in ClaimsOf(t) : IsNextClaim(c) /\ status' = [status EXCEPT ![c] = "pending"]
    BY <1>1 DEF FireAdmitted
  <2>2. c \in Claims
    BY DEF ClaimsOf
  <2>3. status' = [d \in Claims |-> IF d = c THEN "pending" ELSE IF d \in {} THEN "finished"
                                    ELSE status[d]]
    BY <2>1 DEF Book, TypeInv, TypeOK
  <2>4. Ledger!IsNext(c)
    BY <2>1 DEF Ledger!IsNext, IsNextClaim, Ledger!ClaimsOf, ClaimsOf, Ledger!Claims, Claims
  <2>5. Ledger!Fire(c)
    BY <1>0, <2>3, <2>4 DEF Ledger!Fire, Ledger!Claims, Claims
  <2> QED BY <2>2, <2>5 DEF Ledger!Next, Ledger!Claims, Claims
<1>2. CASE FireSkipped(t)
  <2>1. PICK c \in ClaimsOf(t) : IsNextClaim(c) /\ status' = [status EXCEPT ![c] = "finished"]
    BY <1>2 DEF FireSkipped
  <2>2. c \in Claims
    BY DEF ClaimsOf
  <2>3. status' = [d \in Claims |-> IF d = c THEN "finished" ELSE IF d \in {} THEN "finished"
                                    ELSE status[d]]
    BY <2>1 DEF Book, TypeInv, TypeOK
  <2>4. Ledger!IsNext(c)
    BY <2>1 DEF Ledger!IsNext, IsNextClaim, Ledger!ClaimsOf, ClaimsOf, Ledger!Claims, Claims
  <2>5. Ledger!Fire(c)
    BY <1>0, <2>3, <2>4 DEF Ledger!Fire, Ledger!Claims, Claims
  <2> QED BY <2>2, <2>5 DEF Ledger!Next, Ledger!Claims, Claims
<1>3. CASE FireReplacing(t)
  <2>1. PICK c \in ClaimsOf(t) :
           /\ IsNextClaim(c)
           /\ status' = [d \in Claims |-> IF d = c THEN "pending"
                                          ELSE IF d \in WaitingClaims(t) THEN "finished"
                                          ELSE status[d]]
    BY <1>3 DEF FireReplacing
  <2>2. c \in Claims /\ c[1] = t
    BY DEF ClaimsOf
  <2>3. WaitingClaims(t) = {d \in Ledger!ClaimsOf(c[1]) : status[d] = "pending"}
    BY <2>2 DEF WaitingClaims, ClaimsOf, Ledger!ClaimsOf, Ledger!Claims, Claims
  <2>4. Ledger!IsNext(c)
    BY <2>1 DEF Ledger!IsNext, IsNextClaim, Ledger!ClaimsOf, ClaimsOf, Ledger!Claims, Claims
  <2>5. Ledger!Fire(c)
    BY <1>0, <2>1, <2>3, <2>4 DEF Ledger!Fire, Ledger!Claims, Claims
  <2> QED BY <2>2, <2>5 DEF Ledger!Next, Ledger!Claims, Claims
<1> QED BY <1>1, <1>2, <1>3 DEF Fire

\* The compare-and-swap starts an action: what else runs for the timer is in the
\* owner's lane beside it.
LEMMA ActivateRefines ==
    ASSUME Book, NEW p \in Procs, NEW w \in Workers, WorkerActivate(p, w)
    PROVE  Ledger!Next
<1> DEFINE c == wrun[p][w]  t == c[1]
<1>1. Busy(wpc[p][w]) /\ wpc[p][w] \notin HeldPCs
  BY DEF WorkerActivate, Busy, HeldPCs
<1>2. c \in Claims /\ t \in Timers
  BY <1>1 DEF Book, TypeInv, WorkersHold, Claims
<1>3. Running' = Running \union {c} /\ c \notin Running
  BY <1>1, OneWorker DEF WorkerActivate, Goto, HeldPCs
<1>4. Running \intersect ClaimsOf(t) \subseteq InLane(p, t) \ {c}
  <2> SUFFICES ASSUME NEW d \in Running, d[1] = t PROVE d \in InLane(p, t) \ {c}
    BY DEF ClaimsOf
  <2>1. PICK q \in Procs, v \in Workers : wrun[q][v] = d /\ wpc[q][v] \in HeldPCs
    BY DEF Running, HeldPCs
  <2>2. Owns(p) /\ Owns(q)
    BY <1>1, <2>1 DEF Book, LanesInv, IdleWithoutLock, HeldPCs, Busy
  <2>3. p = q
    BY <2>2 DEF Owns
  <2>4. d \in queued[p] \union active[p]
    BY <2>1, <2>3 DEF Book, LanesInv, HeldReserved, HeldPCs
  <2> QED BY <1>3, <2>4 DEF InLane
<1>5. c \in InLane(p, t)
  BY DEF Book, LanesInv, HeldReserved, InLane, WorkerActivate
<1>6. IsFiniteSet(InLane(p, t))
  BY ClaimsFinite DEF InLane, Book, TypeInv, TypeOK
<1>7. Cardinality(InLane(p, t) \ {c}) = Cardinality(InLane(p, t)) - 1 /\ IsFiniteSet(InLane(p, t) \ {c})
  BY <1>5, <1>6, FS_RemoveElement
<1>8. Cardinality(Running \intersect ClaimsOf(t)) <= Cardinality(InLane(p, t) \ {c})
  BY <1>4, <1>7, FS_Subset
<1>9. /\ Cardinality(Running \intersect ClaimsOf(t)) \in Nat
      /\ Cardinality(InLane(p, t)) \in Nat
  BY <1>4, <1>6, <1>7, FS_Subset, FS_CardinalityType
<1>10. Cardinality(InLane(p, t)) <= Limit(t) /\ Limit(t) \in Nat
  BY <1>2, LimitType DEF Book, LaneWithinLimit
<1>11. Cardinality(Running \intersect ClaimsOf(t)) < Limit(t)
  BY <1>7, <1>8, <1>9, <1>10
<1>12. Ledger!ClaimsOf(t) = ClaimsOf(t)
  BY DEF Ledger!ClaimsOf, ClaimsOf, Ledger!Claims, Claims
<1>13. status[c] = "pending" /\ status' = [status EXCEPT ![c] = "active"]
  BY DEF WorkerActivate, SwapWins
<1>14. Ledger!Start(c)
  <2>1. [u \in Timers |-> Limit(u)][t] = Limit(t)
    BY <1>2
  <2>2. Cardinality(Running \intersect Ledger!ClaimsOf(c[1])) < [u \in Timers |-> Limit(u)][c[1]]
    BY <1>11, <1>12, <2>1
  <2>3. \A S : Ledger!Cardinality(S) = Cardinality(S)
    BY DEF Ledger!Cardinality, Cardinality
  <2> QED BY <1>3, <1>13, <2>2, <2>3 DEF Ledger!Start
<1> QED BY <1>2, <1>14 DEF Ledger!Next, Ledger!Claims, Claims

\* A worker leaves its claim alone.
LEMMA WorkerLeaves ==
    ASSUME Book, NEW p \in Procs, NEW w \in Workers, Busy(wpc[p][w]),
           NEW pc \in {"releasing_queued", "releasing_lane"}, Goto(p, w, pc), UNCHANGED wrun
    PROVE  /\ Running' = Running \ {wrun[p][w]}
           /\ wrun[p][w] \in Running <=> wpc[p][w] \in HeldPCs
<1>1. wpc' = [wpc EXCEPT ![p][w] = pc] /\ pc \notin HeldPCs
  BY DEF Goto, HeldPCs
<1> QED BY <1>1, OneWorker

\* A claim goes back to pending with its action at an end.
LEMMA RetryRefines ==
    ASSUME NEW c \in Claims, c \in Running, Running' = Running \ {c}, Repend(c)
    PROVE  Ledger!Next
<1>1. Ledger!Retry(c)
  BY DEF Ledger!Retry, Repend
<1> QED BY <1>1 DEF Ledger!Next, Ledger!Claims, Claims

LEMMA WorkerRefines ==
    ASSUME Book, NEW p \in Procs, NEW w \in Workers, WorkerStep(p, w)
    PROVE  Ledger!Next
<1> DEFINE c == wrun[p][w]
<1>1. CASE WorkerRecv(p, w)
  <2>1. UNCHANGED status
    BY <1>1 DEF WorkerRecv, ledger
  <2>2. \A q \in Procs, v \in Workers :
           wpc'[q][v] \in HeldPCs => wpc'[q][v] = wpc[q][v] /\ wrun'[q][v] = wrun[q][v]
    BY <1>1 DEF WorkerRecv, Goto, Book, TypeInv, TypeOK, HeldPCs
  <2>3. Running' \subseteq Running
    BY <2>2 DEF Running, HeldPCs
  <2> QED BY <2>1, <2>3, NothingStarts
<1>2. CASE WorkerExit(p, w)
  <2>1. UNCHANGED <<status, wrun>>
    BY <1>2 DEF WorkerExit, ledger
  <2>2. \A q \in Procs, v \in Workers : wpc'[q][v] \in HeldPCs => wpc'[q][v] = wpc[q][v]
    BY <1>2 DEF WorkerExit, Goto, Book, TypeInv, TypeOK, HeldPCs
  <2>3. Running' \subseteq Running
    BY <2>1, <2>2 DEF Running, HeldPCs
  <2> QED BY <2>1, <2>3, NothingStarts
<1>3. CASE WorkerActivate(p, w)
  BY <1>3, ActivateRefines
<1>4. CASE WorkerLose(p, w)
  <2>1. UNCHANGED <<status, wrun>> /\ Busy(wpc[p][w])
    BY <1>4 DEF WorkerLose, ledger, Busy
  <2>2. Running' = Running \ {c}
    BY <1>4, <2>1, WorkerLeaves DEF WorkerLose
  <2> QED BY <2>1, <2>2, NothingStarts
<1>5. CASE WorkerStart(p, w)
  <2>1. Busy(wpc[p][w]) /\ wpc[p][w] \in HeldPCs /\ UNCHANGED wrun
    BY <1>5 DEF WorkerStart, Busy, HeldPCs
  <2>2. c \in Claims
    BY <2>1 DEF Book, TypeInv, WorkersHold
  <2>3. ASSUME NEW pc \in HeldPCs, Goto(p, w, pc), UNCHANGED status PROVE Ledger!Next
    <3>1. Running' = Running \union {c} /\ c \in Running
      BY <2>1, <2>3, OneWorker DEF Goto
    <3>2. Running' \subseteq Running
      BY <3>1
    <3> QED BY <2>3, <3>2, NothingStarts
  <2>4. ASSUME Repend(c), Goto(p, w, "releasing_lane") PROVE Ledger!Next
    <3>1. Running' = Running \ {c} /\ c \in Running
      BY <2>1, <2>4, WorkerLeaves
    <3> QED BY <2>2, <2>4, <3>1, RetryRefines
  <2> QED BY <1>5, <2>3, <2>4 DEF WorkerStart, ledger, HeldPCs
<1>6. CASE WorkerFinish(p, w)
  <2>1. Busy(wpc[p][w]) /\ wpc[p][w] \in HeldPCs /\ UNCHANGED wrun
    BY <1>6 DEF WorkerFinish, Busy, HeldPCs
  <2>2. c \in Claims
    BY <2>1 DEF Book, TypeInv, WorkersHold
  <2>3. Running' = Running \ {c} /\ c \in Running
    BY <1>6, <2>1, WorkerLeaves DEF WorkerFinish
  <2>4. CASE UNCHANGED status
    BY <2>3, <2>4, NothingStarts
  <2>5. CASE status' = [status EXCEPT ![c] = "finished"]
    <3>1. Ledger!Finish(c)
      BY <2>3, <2>5 DEF Ledger!Finish
    <3> QED BY <2>2, <3>1 DEF Ledger!Next, Ledger!Claims, Claims
  <2> QED BY <1>6, <2>4, <2>5 DEF WorkerFinish, FinishWithEvent, ledger
<1>7. CASE WorkerPanic(p, w)
  <2>1. Busy(wpc[p][w]) /\ wpc[p][w] \in HeldPCs /\ UNCHANGED wrun
    BY <1>7 DEF WorkerPanic, Busy, HeldPCs
  <2>2. c \in Claims
    BY <2>1 DEF Book, TypeInv, WorkersHold
  <2>3. Running' = Running \ {c} /\ c \in Running
    BY <1>7, <2>1, WorkerLeaves DEF WorkerPanic
  <2> QED BY <1>7, <2>2, <2>3, RetryRefines DEF WorkerPanic
<1>8. CASE WorkerRelease(p, w)
  <2>1. UNCHANGED status
    BY <1>8 DEF WorkerRelease, ledger
  <2>2. \A q \in Procs, v \in Workers :
           wpc'[q][v] \in HeldPCs => wpc'[q][v] = wpc[q][v] /\ wrun'[q][v] = wrun[q][v]
    BY <1>8 DEF WorkerRelease, Goto, Book, TypeInv, TypeOK, HeldPCs
  <2>3. Running' \subseteq Running
    BY <2>2 DEF Running, HeldPCs
  <2> QED BY <2>1, <2>3, NothingStarts
<1> QED BY <1>1, <1>2, <1>3, <1>4, <1>5, <1>6, <1>7, <1>8 DEF WorkerStep

\* A process that dies or ends takes its workers with it.
LEMMA ForgetRefines ==
    ASSUME Book, NEW p \in Procs, Forget(p), UNCHANGED status
    PROVE  Ledger!Next
<1>1. \A q \in Procs, v \in Workers :
         wpc'[q][v] \in HeldPCs => wpc'[q][v] = wpc[q][v] /\ wrun'[q][v] = wrun[q][v]
  BY DEF Forget, Book, TypeInv, TypeOK, HeldPCs
<1>2. Running' \subseteq Running
  BY <1>1 DEF Running, HeldPCs
<1> QED BY <1>2, NothingStarts

\* The recovery of a new owner touches no worker.
LEMMA RecoverRefines ==
    ASSUME RecoverClaims, UNCHANGED <<wpc, wrun>>
    PROVE  Ledger!Next
<1>1. Running' = Running
  BY RunningSame
<1>2. CASE RependAll
  <2>1. Ledger!Recover
    BY <1>1, <1>2 DEF RependAll, Ledger!Recover, Ledger!Claims, Claims
  <2> QED BY <2>1 DEF Ledger!Next
<1>3. CASE UNCHANGED status
  BY <1>1, <1>3, NothingStarts
<1> QED BY <1>2, <1>3 DEF RecoverClaims, ledger

\* The pump closes a claim of a deleted timer only when no lane of the owner holds it.
LEMMA CloseRefines ==
    ASSUME Book, NEW p \in Procs, PumpCloseOrphan(p)
    PROVE  Ledger!Next
<1>0. Running' = Running
  BY RunningSame DEF PumpCloseOrphan, PumpUnchanged, workerVars
<1>1. PICK c \in Claims :
         /\ IsNextInSnapshot(p, c) /\ ~Reserved(p, c)
         /\ IF IsUnfinished(c) THEN status' = [status EXCEPT ![c] = "finished"]
            ELSE UNCHANGED status
  BY DEF PumpCloseOrphan
<1>2. Owns(p)
  BY <1>1 DEF IsNextInSnapshot, Book, LanesInv, IdleWithoutLock
<1>3. c \notin Running
  <2> SUFFICES ASSUME NEW q \in Procs, NEW v \in Workers, wrun[q][v] = c, wpc[q][v] \in HeldPCs
               PROVE  FALSE
    BY DEF Running, HeldPCs
  <2>1. Owns(q)
    BY DEF Book, LanesInv, IdleWithoutLock, HeldPCs, Busy
  <2>2. p = q
    BY <1>2, <2>1 DEF Owns
  <2> QED BY <1>1, <2>2 DEF Book, LanesInv, HeldReserved, HeldPCs, Reserved
<1>4. CASE IsUnfinished(c)
  <2>1. Ledger!Close(c)
    BY <1>0, <1>1, <1>3, <1>4 DEF Ledger!Close, IsUnfinished
  <2> QED BY <2>1 DEF Ledger!Next, Ledger!Claims, Claims
<1>5. CASE ~IsUnfinished(c)
  BY <1>0, <1>1, <1>5, NothingStarts
<1> QED BY <1>4, <1>5

\* Every step of the dispatcher is a step of the ledger, or none.
LEMMA NextRefines == Book /\ [Next]_vars => [Ledger!Next]_(Ledger!vars)
<1> SUFFICES ASSUME Book, [Next]_vars PROVE Ledger!Next
  OBVIOUS
<1>1. ASSUME NEW t \in Timers, Fire(t) PROVE Ledger!Next
  BY <1>1, FireRefines
<1>2. ASSUME NEW p \in Procs, NEW w \in Workers, WorkerStep(p, w) PROVE Ledger!Next
  BY <1>2, WorkerRefines
<1>3. ASSUME UNCHANGED <<status, wpc, wrun>> PROVE Ledger!Next
  BY <1>3, RunningSame, NothingStarts
<1>4. ASSUME NEW p \in Procs, PumpStep(p) PROVE Ledger!Next
  <2> USE DEF PumpUnchanged, workerVars, ledger
  <2>1. CASE PumpRecover(p)
    BY <1>3, <2>1, RecoverRefines DEF PumpRecover
  <2>2. CASE PumpCloseOrphan(p)
    BY <2>2, CloseRefines
  <2> QED BY <1>3, <1>4, <2>1, <2>2 DEF PumpStep, PumpTakeLock, PumpMarkStarted, PumpExit, PumpSignal,
            PumpScan, PumpLockLanes, PumpSkipReserved, PumpLaneBusy, PumpSend, PumpEndPass
<1>5. ASSUME NEW p \in Procs, MainStep(p) \/ Spawn(p) PROVE Ledger!Next
  <2> USE DEF workerVars, ledger
  <2>1. CASE BeginStartup(p)
    BY <2>1, RecoverRefines DEF BeginStartup
  <2>2. CASE Exit(p)
    BY <2>2, ForgetRefines DEF Exit
  <2> QED BY <1>3, <1>5, <2>1, <2>2 DEF MainStep, Spawn, BootScan, CliFollows, StayFollower,
            ShutdownRelease
<1>6. CASE Environment \/ UNCHANGED vars
  <2> USE DEF workerVars, ledger
  <2>1. ASSUME NEW p \in Procs, Crash(p) PROVE Ledger!Next
    BY <2>1, ForgetRefines DEF Crash
  <2> QED BY <1>3, <1>6, <2>1 DEF Environment, LoadTimer, DeleteTimer, ShutdownBegin, vars
<1> QED BY <1>1, <1>2, <1>4, <1>5, <1>6 DEF Next

\* The dispatcher implements the claim ledger: whatever the processes, their pumps and
\* workers do, a claim is admitted in order, started only from pending while nobody
\* runs it and its timer has a free slot, and finished for good.
THEOREM DispatcherImplementsLedger == Spec => ImplementsLedger
<1>1. Init => Ledger!Init
  BY NoClaimAssumption DEF Init, Ledger!Init, Ledger!Claims, Claims, Running
<1>2. Init => Book
  BY TypeInit, LanesInit, LaneInit DEF Book
<1>3. Book /\ [Next]_vars => Book'
  BY TypeNext, LanesNext, LaneNext DEF Book
<1> QED BY <1>1, <1>2, <1>3, NextRefines, PTL DEF Spec, ImplementsLedger, Ledger!Spec
=============================================================================
