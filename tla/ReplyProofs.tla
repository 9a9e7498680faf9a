----------------------------- MODULE ReplyProofs -----------------------------
(***************************************************************************)
(* What holds of ReplyLifecycle for any number of fires, replies, grace    *)
(* periods, clock steps and faults.                                        *)
(***************************************************************************)
EXTENDS ReplyLifecycle, FiniteSetTheorems, TLAPS

\* What a fire under way knows of the runs.
FireKnows ==
    /\ fire.pc = "read" => fired < MaxRuns /\ (fire.doc # NoDoc => fired > 0)
    /\ fire.pc = "committed" => fired > 0 /\ (fire.doc # NoDoc => fired > 1)

\* Nobody writes a reply for a run that has not been fired.
FilesOfFired == \A r \in Runs : r > fired => file[r] = NoFile

\* The gate: the watcher's pass and a fire exclude each other.
GateHeldOnce == ~(watcher = "polling" /\ fire.pc # "idle")

\* What a fire read still lies in the file, unless the app wrote in between.
ReadIsCurrent ==
    fire.pc = "read" /\ fired > 0 /\ fired \notin overtaken => fire.doc = BarrierDoc

TypeInv == TypeOK /\ FireKnows /\ FilesOfFired

-----------------------------------------------------------------------------
(* Types.                                                                  *)

\* Counting an environment event keeps the counters natural numbers.
LEMMA SpendType ==
    ASSUME spent \in [EnvEvents -> Nat], NEW e \in EnvEvents, Spend(e)
    PROVE  spent' \in [EnvEvents -> Nat]
BY DEF Spend

\* Enqueued events are counted.
LEMMA ToldType ==
    ASSUME lines \in [Runs -> [LineKinds -> Nat]], NEW r \in Runs, NEW K
    PROVE  Told(r, K) \in [LineKinds -> Nat]
BY DEF Told

\* Accepting a reply leaves a well-typed row.
LEMMA FoldedType ==
    ASSUME NEW r \in Runs, row[r] \in Rows, NEW d \in Docs, d \in Replies,
           d.state \in AppStates
    PROVE  Folded(r, d) \in Rows
<1> DEFINE w == row[r]
           acked == w.acked \/ d.ack \/ d.state = "acknowledged"
           secs == w.secs \/ d.secs
           detect == IF d.detect = "keep" THEN w.detect ELSE d.detect
           kind == CASE d.state = "completed" -> "none"
                     [] d.state = "failed" -> "reported"
                     [] OTHER -> w.kind
           watch == IF Arms(r, d) THEN Span
                    ELSE IF d.state \in Terminal \/ d.detect = "off" THEN NoTime ELSE w.watch
           ackLogged == w.ackLogged \/ "acknowledged" \in Says(r, d)
           runLogged == w.runLogged \/ d.state = "running"
<1>1. Span \in Times /\ NoTime \in Times /\ d.state \in States /\ w \in Rows
  BY TimesAssumption DEF Times, States
<1>2. /\ acked \in BOOLEAN /\ secs \in BOOLEAN
      /\ ackLogged \in BOOLEAN /\ runLogged \in BOOLEAN
  OBVIOUS
<1>3. /\ detect \in {"on", "off", "keep"}
      /\ kind \in {"none", "reported", "timed_out"}
      /\ watch \in Times
  BY <1>1 DEF Rows, Replies
<1> DEFINE v == [w EXCEPT !.state = d.state, !.acked = acked, !.secs = secs,
                          !.detect = detect, !.kind = kind]
<1>4. Folded(r, d) = [v EXCEPT !.pickup = NoTime, !.watch = watch, !.ackLogged = ackLogged,
                              !.runLogged = runLogged, !.digest = d]
  BY DEF Folded
<1> HIDE DEF w, acked, secs, detect, kind, watch, ackLogged, runLogged
<1>5. v \in Rows
  BY <1>1, <1>2, <1>3, ZenonT(30) DEF Rows
<1> HIDE DEF v
<1> QED BY <1>1, <1>2, <1>3, <1>4, <1>5, ZenonT(30) DEF Rows

\* A reply leaves a well-typed row, book and heap, whatever it says and
\* whichever run is current.
LEMMA IngestType ==
    ASSUME TypeOK, NEW r \in Runs, NEW d \in Docs, NEW c
    PROVE  /\ IngestRow(r, d, c) \in Rows
           /\ IngestBook(r, d, c) \in [Runs -> Entries \union {NoEntry}]
           /\ IngestHeap(r, d, c) \subseteq Runs \X DeadlineKinds
           /\ IngestQuiet(r, d, c) \in [Runs -> 0..Span]
<1>1. d \in Replies /\ row[r] \in Rows
  BY DocsAssumption DEF TypeOK
<1>2. ASSUME d.state # "invalid" PROVE Folded(r, d) \in Rows
  BY <1>1, <1>2, FoldedType DEF Replies
<1>3. IngestRow(r, d, c) \in Rows
  <2>1. CASE Outcome(r, d, c) = "applied"
    <3>1. d.state # "invalid"
      BY <2>1 DEF Outcome
    <3> QED BY <1>2, <2>1, <3>1 DEF IngestRow
  <2>2. CASE Outcome(r, d, c) = "stale"
    BY <1>1, <2>2 DEF IngestRow, Rows
  <2>3. CASE Outcome(r, d, c) \notin {"applied", "stale"}
    BY <1>1, <2>3 DEF IngestRow
  <2> QED BY <2>1, <2>2, <2>3
<1>4. IngestBook(r, d, c) \in [Runs -> Entries \union {NoEntry}]
  BY TimesAssumption DEF IngestBook, TypeOK, Entries, DeadlineKinds
<1>5. IngestHeap(r, d, c) \subseteq Runs \X DeadlineKinds
  BY DEF IngestHeap, TypeOK, DeadlineKinds
<1>6. IngestQuiet(r, d, c) \in [Runs -> 0..Span]
  BY TimesAssumption DEF IngestQuiet, TypeOK
<1> QED BY <1>3, <1>4, <1>5, <1>6

\* The pickup by cursor and an expired deadline leave a well-typed row.
LEMMA LapseType ==
    ASSUME TypeOK, NEW r \in Runs
    PROVE  AckedRow(r) \in Rows /\ \A k : ExpiredRow(r, k) \in Rows
<1>1. row[r] \in Rows
  BY DEF TypeOK
<1>2. AckedRow(r) \in Rows
  BY <1>1 DEF AckedRow, Rows, Times, States, AppStates
<1>3. ASSUME NEW k PROVE ExpiredRow(r, k) \in Rows
  <2>1. [row[r] EXCEPT !.state = "no_ack", !.pickup = NoTime] \in Rows
    BY <1>1 DEF Rows, Times, States, Terminal
  <2>2. [row[r] EXCEPT !.state = "failed", !.kind = "timed_out", !.watch = NoTime] \in Rows
    BY <1>1 DEF Rows, Times, States, Terminal
  <2>3. cursor \in Int /\ r \in Int
    BY BoundsAssumption DEF TypeOK, Runs
  <2> QED BY <1>2, <2>1, <2>2, <2>3 DEF ExpiredRow
<1> QED BY <1>2, <1>3

\* So does a set of them.
LEMMA ExpireType ==
    ASSUME TypeOK, NEW S \in SUBSET (Runs \X DeadlineKinds), Expire(S)
    PROVE  /\ row' \in [Runs -> Rows]
           /\ lines' \in [Runs -> [LineKinds -> Nat]]
           /\ hasty' \subseteq Runs
<1>1. row' \in [Runs -> Rows]
  BY LapseType DEF Expire, TypeOK
<1>2. lines' \in [Runs -> [LineKinds -> Nat]]
  BY ToldType DEF Expire, TypeOK
<1>3. hasty' \subseteq Runs
  BY DEF Expire, TypeOK
<1> QED BY <1>1, <1>2, <1>3

\* The book is rebuilt with countdowns that are not negative.
LEMMA SyncedType ==
    ASSUME TypeOK, NEW r \in Runs
    PROVE  Synced(r) \in Entries \union {NoEntry}
<1>1. row[r] \in Rows /\ book[r] \in Entries \union {NoEntry}
  BY DEF TypeOK
<1>2. \A t \in Int : Remaining(t) \in Nat
  BY DEF Remaining
<1>3. FromWall(r) \in Entries \union {NoEntry}
  BY <1>1, <1>2 DEF FromWall, Entries, DeadlineKinds, Rows, Times
<1> QED BY <1>1, <1>3 DEF Synced

\* Initially everything has its type.
LEMMA TypeInit == Init => TypeInv
<1> SUFFICES ASSUME Init PROVE TypeInv
  OBVIOUS
<1>1. NewRow("none", NoTime) \in Rows
  BY DEF NewRow, Rows, Times, States
<1>2. Cardinality({}) = 0
  BY FS_EmptySet
<1>3. TypeOK
  BY <1>1, <1>2, TimesAssumption, BoundsAssumption
     DEF Init, TypeOK, WatcherPCs, Fires, NoFire, Runs
<1> QED BY <1>3 DEF TypeInv, Init, FireKnows, FilesOfFired, NoFire

\* A transport leaves the types alone, whether its transaction commits or not.
LEMMA TransportType ==
    ASSUME TypeOK, NEW r \in Runs, NEW d \in Docs, NEW isNew,
           Ingest(r, d, isNew) \/ IngestFails(r, d)
    PROVE  /\ row' \in [Runs -> Rows]
           /\ lines' \in [Runs -> [LineKinds -> Nat]]
           /\ book' \in [Runs -> Entries \union {NoEntry}]
           /\ heap' \subseteq Runs \X DeadlineKinds
           /\ quiet' \in [Runs -> 0..Span]
           /\ exact' \subseteq exact
<1>1. CASE Ingest(r, d, isNew)
  <2> DEFINE K == IngestLines(r, d, fired) \union
                  IF Outcome(r, d, fired) = "rejected" /\ isNew THEN {"rejected"} ELSE {}
  <2>1. lines' = [lines EXCEPT ![r] = Told(r, K)]
    BY <1>1 DEF Ingest
  <2>2. Told(r, K) \in [LineKinds -> Nat]
    BY ToldType DEF TypeOK
  <2>3. lines' \in [Runs -> [LineKinds -> Nat]]
    BY <2>1, <2>2 DEF TypeOK
  <2> QED BY <1>1, <2>3, IngestType DEF Ingest, TypeOK
<1>2. CASE IngestFails(r, d)
  BY <1>2, IngestType DEF IngestFails, MovedAlone, TypeOK
<1> QED BY <1>1, <1>2

\* Time moves deadlines only.
LEMMA AgedType ==
    ASSUME TypeOK, NEW by \in Int, AgeRows(by)
    PROVE  row' \in [Runs -> Rows]
<1>1. ASSUME NEW r \in Runs
      PROVE  [row[r] EXCEPT !.pickup = Older(@, by), !.watch = Older(@, by)] \in Rows
  <2>1. row[r] \in Rows
    BY DEF TypeOK
  <2>2. \A t \in Times : Older(t, by) \in Times
    BY DEF Older, Times
  <2>3. Older(row[r].pickup, by) \in Times /\ Older(row[r].watch, by) \in Times
    BY <2>1, <2>2 DEF Rows
  <2> QED BY <2>1, <2>3 DEF Rows
<1> QED BY <1>1 DEF AgeRows

\* Every step leaves everything its type.
LEMMA TypeStep == TypeInv /\ [Next]_vars => TypeOK'
<1> SUFFICES ASSUME TypeInv, [Next]_vars PROVE TypeOK'
  OBVIOUS
<1> USE DEF TypeInv, ledger, folder, appVars, watchVars, history
<1>1. ASSUME NEW r \in Runs, NEW d \in Docs, AppWrites(r, d) PROVE TypeOK'
  BY <1>1, SpendType DEF AppWrites, TypeOK, EnvEvents
<1>2. ASSUME NEW r \in Runs, NEW d \in Docs, AppSends(r, d) PROVE TypeOK'
  <2>1. Ingest(r, d, TRUE) \/ IngestFails(r, d)
    BY <1>2 DEF AppSends
  <2> QED BY <1>2, <2>1, TransportType, SpendType DEF AppSends, TypeOK, EnvEvents
<1>3. ASSUME NEW s \in Runs, AppAcks(s) PROVE TypeOK'
  <2>1. request' \in 0..MaxRuns
    BY <1>3, BoundsAssumption DEF AppAcks, Runs
  <2>2. spent' \in [EnvEvents -> Nat]
    BY <1>3, SpendType DEF AppAcks, TypeOK, EnvEvents
  <2> QED BY <1>3, <2>1, <2>2 DEF AppAcks, TypeOK
<1>4. CASE SlotCommit
  BY <1>4 DEF SlotCommit, Loop, TypeOK, WatcherPCs
<1>5. CASE SlotHook
  <2>1. row' \in [Runs -> Rows] /\ lines' \in [Runs -> [LineKinds -> Nat]]
    <3>1. CASE UNCHANGED <<row, lines>>
      BY <3>1 DEF TypeOK
    <3>2. CASE /\ fired # 0
               /\ row' = [row EXCEPT ![fired] = AckedRow(fired)]
               /\ lines' = [lines EXCEPT ![fired] = Told(fired, AckLines(fired))]
      <4>1. fired \in Runs
        BY <3>2, BoundsAssumption DEF TypeOK, Runs
      <4> QED BY <3>2, <4>1, LapseType, ToldType DEF TypeOK
    <3> QED BY <1>5, <3>1, <3>2 DEF SlotHook
  <2> QED BY <1>5, <2>1, SpendType, BoundsAssumption
          DEF SlotHook, Loop, TypeOK, WatcherPCs, EnvEvents
<1>6. CASE SlotsDone
  BY <1>6, SpendType, BoundsAssumption DEF SlotsDone, Loop, TypeOK, WatcherPCs, EnvEvents
<1>7. CASE BeginPoll
  BY <1>7 DEF BeginPoll, TypeOK, WatcherPCs
<1>8. ASSUME NEW r \in Runs, PollFile(r) PROVE TypeOK'
  <2>1. CASE UNCHANGED <<row, lines, folder, book, heap, quiet, exact, spent>>
    BY <1>8, <2>1 DEF PollFile, TypeOK
  <2>2. CASE file[r] # NoFile /\ ~IsUntouchedStub(file[r])
    <3>1. file[r] \in Docs
      BY <2>2 DEF TypeOK, IsUntouchedStub
    <3>2. \/ /\ Ingest(r, file[r], <<r, file[r]>> \notin bad)
             /\ bad' \subseteq bad \union {<<r, file[r]>>}
             /\ file' \in {file, [file EXCEPT ![r] = NoFile]}
             /\ UNCHANGED spent
          \/ IngestFails(r, file[r]) /\ Spend("store") /\ UNCHANGED folder
      BY <1>8, <2>2 DEF PollFile, IsUntouchedStub
    <3>3. bad' \subseteq Runs \X Docs /\ file' \in [Runs -> Docs \union {Stub, NoFile}]
      BY <3>1, <3>2 DEF TypeOK
    <3>4. spent' \in [EnvEvents -> Nat]
      BY <3>2, SpendType DEF TypeOK, EnvEvents
    <3>5. Ingest(r, file[r], <<r, file[r]>> \notin bad) \/ IngestFails(r, file[r])
      BY <3>2
    <3>6. /\ row' \in [Runs -> Rows]
          /\ lines' \in [Runs -> [LineKinds -> Nat]]
          /\ book' \in [Runs -> Entries \union {NoEntry}]
          /\ heap' \subseteq Runs \X DeadlineKinds
          /\ quiet' \in [Runs -> 0..Span]
          /\ exact' \subseteq Runs
      BY <3>1, <3>5, TransportType DEF TypeOK
    <3> QED BY <1>8, <3>3, <3>4, <3>6 DEF PollFile, TypeOK
  <2> QED BY <1>8, <2>1, <2>2 DEF PollFile
<1>9. CASE EndPoll
  BY <1>9 DEF EndPoll, Loop, TypeOK, WatcherPCs
<1>10. CASE WatcherDue
  <2>1. book' \in [Runs -> Entries \union {NoEntry}]
    BY <1>10, SyncedType DEF WatcherDue
  <2>2. due' \subseteq Runs \X DeadlineKinds /\ watcher' \in WatcherPCs /\ exact' \subseteq exact
    BY <1>10 DEF WatcherDue, WatcherPCs, AfterPass
  <2> QED BY <1>10, <2>1, <2>2 DEF WatcherDue, TypeOK
<1>11. CASE WatcherExpire
  <2>1. /\ row' \in [Runs -> Rows]
        /\ lines' \in [Runs -> [LineKinds -> Nat]]
        /\ hasty' \subseteq Runs
    BY <1>11, ExpireType DEF WatcherExpire, TypeOK
  <2>2. watcher' \in WatcherPCs
    BY <1>11 DEF WatcherExpire, WatcherPCs, AfterPass
  <2>3. book' \in [Runs -> Entries \union {NoEntry}]
    BY <1>11 DEF WatcherExpire, TypeOK
  <2>4. spent' \in [EnvEvents -> Nat]
    BY <1>11, SpendType DEF WatcherExpire, TypeOK, EnvEvents
  <2> QED BY <1>11, <2>1, <2>2, <2>3, <2>4 DEF WatcherExpire, TypeOK
<1>12. CASE Reconcile
  BY <1>12, BoundsAssumption DEF Reconcile, Loop, TypeOK, WatcherPCs, Runs
<1>13. ASSUME NEW r \in Runs, NEW k \in DeadlineKinds, SchedPop(r, k) PROVE TypeOK'
  <2>1. popped' \subseteq Runs \X DeadlineKinds /\ Cardinality(popped') <= 1
    <3>1. Cardinality({}) = 0 /\ Cardinality({<<r, k>>}) = 1
      BY FS_EmptySet, FS_Singleton
    <3> QED BY <1>13, <3>1 DEF SchedPop
  <2> QED BY <1>13, <2>1 DEF SchedPop, TypeOK
<1>14. CASE SchedExpire
  <2>1. /\ row' \in [Runs -> Rows]
        /\ lines' \in [Runs -> [LineKinds -> Nat]]
        /\ hasty' \subseteq Runs
    BY <1>14, ExpireType DEF SchedExpire, TypeOK
  <2>2. book' \in [Runs -> Entries \union {NoEntry}]
    BY <1>14 DEF SchedExpire, TypeOK
  <2>3. popped' \subseteq Runs \X DeadlineKinds /\ Cardinality(popped') <= 1
    BY <1>14, FS_EmptySet DEF SchedExpire
  <2> QED BY <1>14, <2>1, <2>2, <2>3 DEF SchedExpire, TypeOK
<1>15. ASSUME NEW by \in {"app", "cli"}, FireBegin(by) PROVE TypeOK'
  BY <1>15, BoundsAssumption DEF FireBegin, TypeOK, Fires, BarrierDoc
<1>16. CASE FireCommit
  <2> USE <1>16
  <2>1. fired' \in 0..MaxRuns /\ fired + 1 \in Runs
    BY BoundsAssumption DEF FireCommit, TypeOK, FireKnows, Runs
  <2>2. fire.doc = NoDoc \/ (fire.doc \in Docs /\ fired \in Runs)
    BY BoundsAssumption DEF FireCommit, TypeOK, Fires, FireKnows, Runs
  <2>3. fired \in Runs => BarrierRow \in Rows
    BY <2>2, IngestType DEF BarrierRow, TypeOK
  <2>4. NewRow("fired", Grace) \in Rows
    BY TimesAssumption DEF NewRow, Rows, Times, States
  <2>5. \A w \in Rows : Superseded(w) \in Rows
    BY DEF Superseded, Rows, Times, States, Terminal
  <2>6. row' \in [Runs -> Rows]
    BY <2>3, <2>4, <2>5 DEF FireCommit, TypeOK
  <2>7. lines' \in [Runs -> [LineKinds -> Nat]]
    BY ToldType DEF FireCommit, TypeOK
  <2>8. fire' \in Fires
    <3>1. \E doc \in {fire.doc, NoDoc}, n \in {fired, 0} :
             fire' = [fire EXCEPT !.pc = "committed", !.doc = doc, !.closes = n]
      BY DEF FireCommit
    <3>2. fire \in Fires /\ fired \in 0..MaxRuns /\ 0 \in 0..MaxRuns
      BY BoundsAssumption DEF TypeOK
    <3> QED BY <3>1, <3>2 DEF Fires
  <2>9. book' \in [Runs -> Entries \union {NoEntry}] /\ heap' \subseteq Runs \X DeadlineKinds
    BY <2>2, IngestType DEF FireCommit, BarrierBook, TypeOK
  <2>10. quiet' \in [Runs -> 0..Span]
    BY <2>2, IngestType DEF FireCommit, TypeOK
  <2>11. exact' \subseteq Runs
    BY <2>1 DEF FireCommit, TypeOK
  <2> QED BY <2>1, <2>6, <2>7, <2>8, <2>9, <2>10, <2>11 DEF FireCommit, TypeOK
<1>17. CASE FireAbort
  <2>1. fire.doc = NoDoc \/ (fire.doc \in Docs /\ fired \in Runs)
    BY <1>17, BoundsAssumption DEF FireAbort, TypeOK, Fires, FireKnows, Runs
  <2>2. book' \in [Runs -> Entries \union {NoEntry}] /\ heap' \subseteq Runs \X DeadlineKinds
    BY <1>17, <2>1, IngestType DEF FireAbort, BarrierBook, TypeOK
  <2>3. spent' \in [EnvEvents -> Nat]
    BY <1>17, SpendType DEF FireAbort, TypeOK, EnvEvents
  <2>4. fire' \in Fires
    BY <1>17, BoundsAssumption DEF FireAbort, NoFire, Fires
  <2>5. exact' \subseteq Runs
    BY <1>17 DEF FireAbort, MovedAlone, TypeOK
  <2> QED BY <1>17, <2>2, <2>3, <2>4, <2>5 DEF FireAbort, TypeOK
<1>18. CASE FireProject
  <2> USE <1>18
  <2>1. fired \in Runs /\ (fire.doc # NoDoc => fire.doc \in Docs /\ fired - 1 \in Runs)
    BY BoundsAssumption DEF FireProject, TypeOK, Fires, FireKnows, Runs
  <2>2. bad' \subseteq Runs \X Docs
    BY <2>1 DEF FireProject, TypeOK
  <2>3. book' \in [Runs -> Entries \union {NoEntry}] /\ heap' \subseteq Runs \X DeadlineKinds
    BY <2>1, TimesAssumption DEF FireProject, TypeOK, Entries, DeadlineKinds
  <2>4. file' \in [Runs -> Docs \union {Stub, NoFile}]
    BY DEF FireProject, TypeOK
  <2>5. spent' \in [EnvEvents -> Nat]
    BY SpendType DEF FireProject, TypeOK, EnvEvents
  <2>6. fire' \in Fires
    BY BoundsAssumption DEF FireProject, NoFire, Fires
  <2> QED BY <2>2, <2>3, <2>4, <2>5, <2>6 DEF FireProject, TypeOK
<1>19. CASE Delete
  <2>1. \A w \in Rows :
           [w EXCEPT !.state = "cancelled", !.pickup = NoTime, !.watch = NoTime] \in Rows
    BY DEF Rows, Times, States, Terminal
  <2>2. row' \in [Runs -> Rows]
    BY <1>19, <2>1 DEF Delete, TypeOK
  <2>3. lines' \in [Runs -> [LineKinds -> Nat]]
    BY <1>19, ToldType DEF Delete, TypeOK
  <2>4. spent' \in [EnvEvents -> Nat]
    BY <1>19, SpendType DEF Delete, TypeOK, EnvEvents
  <2>5. /\ live' \in BOOLEAN /\ cursor' \in 0..MaxRuns
        /\ file' \in [Runs -> Docs \union {Stub, NoFile}]
    <3>1. live' = FALSE /\ cursor' = 0 /\ file' = [r \in Runs |-> NoFile]
      BY <1>19 DEF Delete
    <3>2. live' \in BOOLEAN
      BY <3>1
    <3>3. cursor' \in 0..MaxRuns
      BY <3>1, BoundsAssumption
    <3>4. file' \in [Runs -> Docs \union {Stub, NoFile}]
      BY <3>1
    <3> QED BY <3>2, <3>3, <3>4
  <2> QED BY <1>19, <2>2, <2>3, <2>4, <2>5 DEF Delete, TypeOK
<1>20. CASE Tick
  <2>1. row' \in [Runs -> Rows]
    BY <1>20, AgedType DEF Tick
  <2>2. book' \in [Runs -> Entries \union {NoEntry}]
    <3>1. \A e \in Entries : [e EXCEPT !.left = Remaining(@ - 1)] \in Entries
      BY DEF Entries, Remaining
    <3> QED BY <1>20, <3>1 DEF Tick, TypeOK
  <2>3. age' \in [Runs -> 0..Grace] /\ quiet' \in [Runs -> 0..Span]
    BY <1>20, TimesAssumption DEF Tick, TypeOK, Min2
  <2> QED BY <1>20, <2>1, <2>2, <2>3 DEF Tick, TypeOK
<1>21. CASE JumpWall(Jump) \/ JumpWall(-Jump)
  <2>1. row' \in [Runs -> Rows]
    BY <1>21, AgedType, TimesAssumption DEF JumpWall
  <2>2. spent' \in [EnvEvents -> Nat]
    BY <1>21, SpendType DEF JumpWall, TypeOK, EnvEvents
  <2> QED BY <1>21, <2>1, <2>2 DEF JumpWall, TypeOK
<1>22. CASE CrashApp
  BY <1>22, SpendType, FS_EmptySet, BoundsAssumption
     DEF CrashApp, TypeOK, EnvEvents, WatcherPCs, Fires, NoFire
<1>23. CASE CrashCli
  BY <1>23, SpendType, BoundsAssumption DEF CrashCli, TypeOK, EnvEvents, Fires, NoFire
<1>24. CASE Boot
  BY <1>24 DEF Boot, TypeOK
<1>25. CASE UNCHANGED vars
  BY <1>25 DEF vars, TypeOK
<1> QED BY <1>1, <1>2, <1>3, <1>4, <1>5, <1>6, <1>7, <1>8, <1>9, <1>10, <1>11, <1>12, <1>13,
           <1>14, <1>15, <1>16, <1>17, <1>18, <1>19, <1>20, <1>21, <1>22, <1>23, <1>24, <1>25
        DEF Next, Watch, Fire, App, Fail

-----------------------------------------------------------------------------
(* The gate and the fire.                                                  *)

FireInv == FireKnows /\ FilesOfFired /\ GateHeldOnce /\ ReadIsCurrent

\* A step keeps what the fire knows, the exclusion by the gate, and the reply
\* that the fire has read.
LEMMA FireStep == TypeOK /\ FireInv /\ [Next]_vars => FireInv'
<1> SUFFICES ASSUME TypeOK, FireInv, [Next]_vars PROVE FireInv'
  OBVIOUS
<1> USE DEF FireInv, FireKnows, FilesOfFired, GateHeldOnce, ReadIsCurrent, BarrierDoc, GateFree,
            ledger, folder, appVars, watchVars, history
<1>0. fired \in Int /\ Runs \subseteq Int /\ MaxRuns \in Nat
  BY BoundsAssumption DEF TypeOK, Runs
<1>1. ASSUME NEW r \in Runs, NEW d \in Docs, AppWrites(r, d) PROVE FireInv'
  BY <1>0, <1>1 DEF AppWrites, TypeOK
<1>2. ASSUME NEW r \in Runs, NEW d \in Docs, AppSends(r, d) PROVE FireInv'
  BY <1>2 DEF AppSends
<1>3. ASSUME NEW s \in Runs, AppAcks(s) PROVE FireInv'
  BY <1>3 DEF AppAcks
<1>4. CASE SlotCommit
  BY <1>4 DEF SlotCommit, Loop
<1>5. CASE SlotHook
  BY <1>5 DEF SlotHook, Loop
<1>6. CASE SlotsDone
  BY <1>6 DEF SlotsDone, Loop
<1>7. CASE BeginPoll
  BY <1>7 DEF BeginPoll
<1>8. ASSUME NEW r \in Runs, PollFile(r) PROVE FireInv'
  <2>1. file' \in {file, [file EXCEPT ![r] = NoFile]}
    BY <1>8 DEF PollFile
  <2> QED BY <1>8, <2>1 DEF PollFile, TypeOK
<1>9. CASE EndPoll
  BY <1>9 DEF EndPoll, Loop
<1>10. CASE WatcherDue
  BY <1>10 DEF WatcherDue, AfterPass
<1>11. CASE WatcherExpire
  BY <1>11 DEF WatcherExpire, AfterPass
<1>12. CASE Reconcile
  BY <1>0, <1>12 DEF Reconcile, Loop, TypeOK
<1>13. ASSUME NEW r \in Runs, NEW k \in DeadlineKinds, SchedPop(r, k) PROVE FireInv'
  BY <1>13 DEF SchedPop
<1>14. CASE SchedExpire
  BY <1>14 DEF SchedExpire
<1>15. ASSUME NEW by \in {"app", "cli"}, FireBegin(by) PROVE FireInv'
  BY <1>15, <1>0 DEF FireBegin, TypeOK
<1>16. CASE FireCommit
  <2>1. /\ fire.pc = "read" /\ fire'.pc = "committed" /\ fired' = fired + 1
        /\ fire'.doc \in {fire.doc, NoDoc}
        /\ UNCHANGED <<file, watcher>>
    BY <1>16 DEF FireCommit, TypeOK, Fires
  <2> QED BY <1>0, <2>1 DEF TypeOK
<1>17. CASE FireAbort
  BY <1>17 DEF FireAbort, NoFire
<1>18. CASE FireProject
  BY <1>0, <1>18 DEF FireProject, NoFire, TypeOK
<1>19. CASE Delete
  <2>1. /\ UNCHANGED <<fired, watcher, fire>> /\ file' = [r \in Runs |-> NoFile]
        /\ fire.pc = "idle"
    BY <1>19 DEF Delete
  <2> QED BY <2>1
<1>20. CASE Tick
  BY <1>20 DEF Tick
<1>21. CASE JumpWall(Jump) \/ JumpWall(-Jump)
  BY <1>21 DEF JumpWall
<1>22. CASE CrashApp
  BY <1>22 DEF CrashApp, NoFire
<1>23. CASE CrashCli
  BY <1>23 DEF CrashCli, NoFire
<1>24. CASE Boot
  BY <1>24 DEF Boot
<1>25. CASE UNCHANGED vars
  BY <1>25 DEF vars
<1> QED BY <1>1, <1>2, <1>3, <1>4, <1>5, <1>6, <1>7, <1>8, <1>9, <1>10, <1>11, <1>12, <1>13,
           <1>14, <1>15, <1>16, <1>17, <1>18, <1>19, <1>20, <1>21, <1>22, <1>23, <1>24, <1>25
        DEF Next, Watch, Fire, App, Fail

-----------------------------------------------------------------------------
(* What a step can do to one run.                                          *)

Counted == LineKinds \ {"late", "rejected"}
Counts(r, K) == \A k \in Counted : lines[r][k]' = Told(r, K)[k]

Kept(r) ==
    /\ row[r].state' = row[r].state /\ row[r].kind' = row[r].kind
    /\ row[r].ackLogged' = row[r].ackLogged /\ row[r].runLogged' = row[r].runLogged
    /\ row[r].pickup = NoTime => row[r].pickup' = NoTime
    /\ row[r].watch = NoTime => row[r].watch' = NoTime
    /\ Counts(r, {})
Hears(r) ==
    /\ r = fired
    /\ \E d \in Docs : /\ Outcome(r, d, r) = "applied"
                       /\ row[r]' = Folded(r, d) /\ Counts(r, Says(r, d))
Closes(r) ==
    /\ r = fired /\ fired' = fired + 1 /\ fire.pc = "read"
    /\ Unresolved(BarrierRow)
    /\ row[r]' = Superseded(BarrierRow) /\ Counts(r, BarrierLines \union {"superseded"})
Picked(r) ==
    /\ r = fired /\ row[r].state \in {"fired", "no_ack"}
    /\ row[r]' = AckedRow(r) /\ Counts(r, AckLines(r))
Lapses(r) ==
    /\ r = fired /\ row[r].state = "fired" /\ row[r].pickup # NoTime
    /\ <<r, "pickup">> \in due \union popped
    /\ row[r]' = [row[r] EXCEPT !.state = "no_ack", !.pickup = NoTime]
    /\ Counts(r, {"no_ack"})
TimesOut(r) ==
    /\ r = fired /\ Unresolved(row[r]) /\ row[r].watch # NoTime
    /\ row[r]' = [row[r] EXCEPT !.state = "failed", !.kind = "timed_out", !.watch = NoTime]
    /\ Counts(r, {"failed"})
Cancelled(r) ==
    /\ r = fired /\ Unresolved(row[r]) /\ live /\ ~live'
    /\ row[r]' = [row[r] EXCEPT !.state = "cancelled", !.pickup = NoTime, !.watch = NoTime]
    /\ Counts(r, {"cancelled"})
Starts(r) ==
    /\ r = fired + 1 /\ fired' = fired + 1
    /\ row[r]' = NewRow("fired", Grace) /\ Counts(r, {})

RowStep(r) ==
    Kept(r) \/ Hears(r) \/ Closes(r) \/ Picked(r) \/ Lapses(r) \/ TimesOut(r)
        \/ Cancelled(r) \/ Starts(r)

\* Nothing was told and the row stayed: the run is kept.
LEMMA KeptSame ==
    ASSUME TypeOK, NEW r \in Runs, row[r]' = row[r], lines[r]' = lines[r]
    PROVE  Kept(r)
<1>1. lines[r] \in [LineKinds -> Nat]
  BY DEF TypeOK
<1>2. Counts(r, {})
  BY <1>1 DEF Counts, Counted, Told
<1> QED BY <1>2 DEF Kept

\* A reply that enters through a transport is heard by the current run or by
\* none.
LEMMA TransportRows ==
    ASSUME TypeOK, NEW r \in Runs, NEW d \in Docs, NEW isNew, Ingest(r, d, isNew),
           NEW s \in Runs
    PROVE  RowStep(s)
<1> DEFINE K == IngestLines(r, d, fired) \union
                IF Outcome(r, d, fired) = "rejected" /\ isNew THEN {"rejected"} ELSE {}
<1>1. /\ row' = [row EXCEPT ![r] = IngestRow(r, d, fired)]
      /\ lines' = [lines EXCEPT ![r] = Told(r, K)]
  BY DEF Ingest
<1>2. CASE s # r
  <2>1. row[s]' = row[s] /\ lines[s]' = lines[s]
    BY <1>1, <1>2 DEF TypeOK
  <2> QED BY <2>1, KeptSame DEF RowStep
<1>3. CASE s = r
  <2>1. row[r]' = IngestRow(r, d, fired) /\ lines[r]' = Told(r, K)
    BY <1>1 DEF TypeOK
  <2>2. CASE Outcome(r, d, fired) = "applied"
    <3>1. r = fired
      BY <2>2 DEF Outcome
    <3>2. K = Says(r, d)
      BY <2>2 DEF IngestLines
    <3>3. row[r]' = Folded(r, d)
      BY <2>1, <2>2 DEF IngestRow
    <3> QED BY <1>3, <2>1, <2>2, <3>1, <3>2, <3>3 DEF RowStep, Hears, Counts
  <2>3. CASE Outcome(r, d, fired) # "applied"
    <3>1. K \subseteq {"late", "rejected"}
      BY <2>3 DEF IngestLines
    <3>2. Counts(r, {})
      BY <2>1, <3>1 DEF Counts, Counted, Told
    <3>3. row[r]' = row[r] \/ row[r]' = [row[r] EXCEPT !.digest = d]
      BY <2>1, <2>3 DEF IngestRow
    <3>4. row[r] \in Rows
      BY DEF TypeOK
    <3>5. /\ row[r].state' = row[r].state /\ row[r].kind' = row[r].kind
          /\ row[r].ackLogged' = row[r].ackLogged /\ row[r].runLogged' = row[r].runLogged
          /\ row[r].pickup' = row[r].pickup /\ row[r].watch' = row[r].watch
      BY <3>3, <3>4 DEF Rows
    <3> QED BY <1>3, <3>2, <3>5 DEF RowStep, Kept
  <2> QED BY <2>2, <2>3
<1> QED BY <1>2, <1>3

\* A lapsed deadline concerns the current run only, and only while it waits.
LEMMA ExpireRows ==
    ASSUME TypeOK, NEW S \in SUBSET (Runs \X DeadlineKinds), Expire(S), NEW r \in Runs,
           S \subseteq due \union popped
    PROVE  RowStep(r)
<1> DEFINE Hit(k) == k \in DeadlineKinds /\ <<r, k>> \in {x \in S : Expires(x[1], x[2])}
<1>1. CASE \E k \in DeadlineKinds : Hit(k)
  <2>1. PICK k \in DeadlineKinds : /\ Expires(r, k) /\ <<r, k>> \in due \union popped
                                   /\ row[r]' = ExpiredRow(r, k)
                                   /\ lines[r]' = Told(r, ExpiredLines(r, k))
    <3> DEFINE k == CHOOSE k \in DeadlineKinds : <<r, k>> \in {x \in S : Expires(x[1], x[2])}
    <3>1. Hit(k)
      BY <1>1
    <3>2. Expires(r, k)
      BY <3>1
    <3>3. row[r]' = ExpiredRow(r, k) /\ lines[r]' = Told(r, ExpiredLines(r, k))
      BY <1>1 DEF Expire
    <3>4. <<r, k>> \in due \union popped
      BY <3>1
    <3> QED BY <3>1, <3>2, <3>3, <3>4
  <2>2. cursor \in Int /\ r \in Int
    BY BoundsAssumption DEF TypeOK, Runs
  <2>3. CASE k = "pickup" /\ cursor >= r
    <3>1. r = fired /\ row[r].state = "fired"
      BY <2>1, <2>3 DEF Expires, PickupLapses
    <3>2. ExpiredRow(r, k) = AckedRow(r) /\ ExpiredLines(r, k) = AckLines(r)
      BY <2>2, <2>3 DEF ExpiredRow, ExpiredLines
    <3> QED BY <2>1, <3>1, <3>2 DEF RowStep, Picked, Counts
  <2>4. CASE k = "pickup" /\ cursor < r
    <3>1. ~(cursor >= r)
      BY <2>2, <2>4
    <3> QED BY <2>1, <2>4, <3>1
            DEF Expires, PickupLapses, ExpiredRow, ExpiredLines, RowStep, Lapses, Counts
  <2>5. CASE k # "pickup"
    BY <2>1, <2>5
       DEF Expires, WatchdogLapses, ExpiredRow, ExpiredLines, RowStep, TimesOut, Counts, Unresolved
  <2> QED BY <2>2, <2>3, <2>4, <2>5
<1>2. CASE ~\E k \in DeadlineKinds : Hit(k)
  <2>1. row[r]' = row[r] /\ lines[r]' = lines[r]
    BY <1>2 DEF Expire
  <2> QED BY <2>1, KeptSame DEF RowStep
<1> QED BY <1>1, <1>2

\* Time moves deadlines only.
LEMMA AgedRows ==
    ASSUME TypeOK, NEW by, AgeRows(by), UNCHANGED lines, NEW r \in Runs
    PROVE  Kept(r)
<1>1. row[r]' = [row[r] EXCEPT !.pickup = Older(@, by), !.watch = Older(@, by)]
  BY DEF AgeRows
<1>2. row[r] \in Rows /\ lines[r] \in [LineKinds -> Nat]
  BY DEF TypeOK
<1>3. /\ row[r].state' = row[r].state /\ row[r].kind' = row[r].kind
      /\ row[r].ackLogged' = row[r].ackLogged /\ row[r].runLogged' = row[r].runLogged
      /\ row[r].pickup' = Older(row[r].pickup, by) /\ row[r].watch' = Older(row[r].watch, by)
  BY <1>1, <1>2 DEF Rows
<1>4. Counts(r, {})
  BY <1>2 DEF Counts, Counted, Told
<1> QED BY <1>3, <1>4 DEF Kept, Older

\* What the barrier makes of the current run: it hears the waiting reply, or it
\* stays what it was.
LEMMA BarrierHears ==
    ASSUME TypeOK, fired \in Runs
    PROVE  \/ /\ fire.doc \in Docs /\ Outcome(fired, fire.doc, fired) = "applied"
              /\ BarrierRow = Folded(fired, fire.doc) /\ BarrierLines = Says(fired, fire.doc)
           \/ /\ fire.doc # NoDoc => Outcome(fired, fire.doc, fired) # "applied"
              /\ BarrierLines \subseteq {"late", "rejected"}
              /\ BarrierRow.state = row[fired].state /\ BarrierRow.kind = row[fired].kind
              /\ BarrierRow.ackLogged = row[fired].ackLogged
              /\ BarrierRow.runLogged = row[fired].runLogged
              /\ BarrierRow.pickup = row[fired].pickup /\ BarrierRow.watch = row[fired].watch
<1>1. CASE BarrierOutcome = "applied"
  BY <1>1 DEF TypeOK, Fires, BarrierOutcome, BarrierRow, BarrierLines, IngestRow, IngestLines
<1>2. CASE BarrierOutcome # "applied"
  <2>1. BarrierLines \subseteq {"late", "rejected"}
    BY <1>2 DEF BarrierOutcome, BarrierLines, IngestLines
  <2>2. BarrierRow = row[fired] \/ BarrierRow = [row[fired] EXCEPT !.digest = fire.doc]
    BY <1>2 DEF BarrierRow, BarrierOutcome, IngestRow
  <2>3. row[fired] \in Rows
    BY DEF TypeOK
  <2>4. /\ BarrierRow.state = row[fired].state /\ BarrierRow.kind = row[fired].kind
        /\ BarrierRow.ackLogged = row[fired].ackLogged
        /\ BarrierRow.runLogged = row[fired].runLogged
        /\ BarrierRow.pickup = row[fired].pickup /\ BarrierRow.watch = row[fired].watch
    BY <2>2, <2>3 DEF Rows
  <2> QED BY <1>2, <2>1, <2>4 DEF BarrierOutcome
<1> QED BY <1>1, <1>2

\* Every step of the system is one of these for every run.
LEMMA RowSteps == TypeOK /\ FireInv /\ [Next]_vars => \A r \in Runs : RowStep(r)
<1> SUFFICES ASSUME TypeOK, FireInv, [Next]_vars, NEW s \in Runs PROVE RowStep(s)
  OBVIOUS
<1> USE DEF ledger, folder, appVars, watchVars, history
<1>0. ASSUME UNCHANGED <<row, lines>> PROVE RowStep(s)
  BY <1>0, KeptSame DEF RowStep
<1>1. ASSUME NEW r \in Runs, NEW d \in Docs, AppWrites(r, d) PROVE RowStep(s)
  BY <1>0, <1>1 DEF AppWrites
<1>2. ASSUME NEW r \in Runs, NEW d \in Docs, AppSends(r, d) PROVE RowStep(s)
  <2>1. CASE Ingest(r, d, TRUE)
    BY <2>1, TransportRows
  <2>2. CASE IngestFails(r, d)
    BY <1>0, <2>2 DEF IngestFails
  <2> QED BY <1>2, <2>1, <2>2 DEF AppSends
<1>3. ASSUME NEW r \in Runs, AppAcks(r) PROVE RowStep(s)
  BY <1>0, <1>3 DEF AppAcks
<1>4. CASE SlotCommit \/ SlotsDone \/ BeginPoll \/ EndPoll \/ WatcherDue \/ Reconcile
  BY <1>0, <1>4 DEF SlotCommit, SlotsDone, BeginPoll, EndPoll, WatcherDue, Reconcile
<1>5. CASE SlotHook
  <2>1. CASE UNCHANGED <<row, lines>>
    BY <1>0, <2>1
  <2>2. CASE /\ fired # 0 /\ row[fired].state \in {"fired", "no_ack"}
             /\ row' = [row EXCEPT ![fired] = AckedRow(fired)]
             /\ lines' = [lines EXCEPT ![fired] = Told(fired, AckLines(fired))]
    <3>1. CASE s = fired
      BY <2>2, <3>1 DEF TypeOK, RowStep, Picked, Counts
    <3>2. CASE s # fired
      <4>1. row[s]' = row[s] /\ lines[s]' = lines[s]
        BY <2>2, <3>2 DEF TypeOK
      <4> QED BY <4>1, KeptSame DEF RowStep
    <3> QED BY <3>1, <3>2
  <2> QED BY <1>5, <2>1, <2>2 DEF SlotHook
<1>6. ASSUME NEW r \in Runs, PollFile(r) PROVE RowStep(s)
  <2>1. CASE UNCHANGED <<row, lines, folder, book, heap, quiet, exact, spent>>
    BY <1>0, <2>1
  <2>2. CASE file[r] # NoFile /\ ~IsUntouchedStub(file[r])
    <3>1. file[r] \in Docs
      BY <2>2 DEF TypeOK, IsUntouchedStub
    <3>2. Ingest(r, file[r], <<r, file[r]>> \notin bad) \/ IngestFails(r, file[r])
      BY <1>6, <2>2 DEF PollFile, IsUntouchedStub
    <3>3. CASE Ingest(r, file[r], <<r, file[r]>> \notin bad)
      BY <3>1, <3>3, TransportRows
    <3>4. CASE IngestFails(r, file[r])
      BY <1>0, <3>4 DEF IngestFails
    <3> QED BY <3>2, <3>3, <3>4
  <2> QED BY <1>6, <2>1, <2>2 DEF PollFile
<1>7. CASE WatcherExpire
  <2>1. UNCHANGED <<row, lines>> \/ Expire(due)
    BY <1>7 DEF WatcherExpire
  <2> QED BY <1>0, <2>1, ExpireRows DEF TypeOK
<1>8. ASSUME NEW r \in Runs, NEW k \in DeadlineKinds, SchedPop(r, k) PROVE RowStep(s)
  BY <1>0, <1>8 DEF SchedPop
<1>9. CASE SchedExpire
  <2>1. UNCHANGED <<row, lines>> \/ Expire(popped)
    BY <1>9 DEF SchedExpire
  <2> QED BY <1>0, <2>1, ExpireRows DEF TypeOK
<1>10. ASSUME NEW by \in {"app", "cli"}, FireBegin(by) PROVE RowStep(s)
  BY <1>0, <1>10 DEF FireBegin
<1>11. CASE FireCommit
  <2> DEFINE closes == fired > 0 /\ Unresolved(BarrierRow)
  <2>1. /\ fire.pc = "read" /\ fired' = fired + 1
        /\ row' = [r \in Runs |->
              CASE r = fired -> IF closes THEN Superseded(BarrierRow) ELSE BarrierRow
                [] r = fired + 1 -> NewRow("fired", Grace)
                [] OTHER -> row[r]]
        /\ lines' = [r \in Runs |->
              IF r = fired
              THEN Told(r, BarrierLines \union IF closes THEN {"superseded"} ELSE {})
              ELSE lines[r]]
    BY <1>11 DEF FireCommit
  <2>2. fired \in Int /\ s \in Int /\ s > 0
    BY BoundsAssumption DEF TypeOK, Runs
  <2>3. CASE s = fired /\ closes
    BY <2>1, <2>2, <2>3 DEF RowStep, Closes, Counts
  <2>4. CASE s = fired /\ ~closes
    <3>1. row[s]' = BarrierRow /\ lines[s]' = Told(s, BarrierLines)
      <4>1. row[s]' = BarrierRow
        <5>1. row[s]' = CASE s = fired -> IF closes THEN Superseded(BarrierRow) ELSE BarrierRow
                          [] s = fired + 1 -> NewRow("fired", Grace)
                          [] OTHER -> row[s]
          BY <2>1
        <5> HIDE DEF closes
        <5>2. s # fired + 1
          BY <2>2, <2>4
        <5> QED BY <2>4, <5>1, <5>2
      <4>2. lines[s]' = Told(s, BarrierLines \union IF closes THEN {"superseded"} ELSE {})
        BY <2>1, <2>4
      <4>3. BarrierLines \union (IF closes THEN {"superseded"} ELSE {}) = BarrierLines
        BY <2>4
      <4> QED BY <4>1, <4>2, <4>3
    <3>2. CASE /\ fire.doc \in Docs /\ Outcome(s, fire.doc, s) = "applied"
               /\ BarrierRow = Folded(s, fire.doc) /\ BarrierLines = Says(s, fire.doc)
      BY <2>4, <3>1, <3>2 DEF RowStep, Hears, Counts
    <3>3. CASE /\ BarrierLines \subseteq {"late", "rejected"}
               /\ BarrierRow.state = row[s].state /\ BarrierRow.kind = row[s].kind
               /\ BarrierRow.ackLogged = row[s].ackLogged
               /\ BarrierRow.runLogged = row[s].runLogged
               /\ BarrierRow.pickup = row[s].pickup /\ BarrierRow.watch = row[s].watch
      <4>1. Counts(s, {})
        BY <3>1, <3>3 DEF Counts, Counted, Told
      <4> QED BY <3>1, <3>3, <4>1 DEF RowStep, Kept
    <3> QED BY <2>4, <3>2, <3>3, BarrierHears
  <2>5. CASE s = fired + 1
    <3>1. row[s]' = NewRow("fired", Grace) /\ lines[s]' = lines[s]
      BY <2>1, <2>2, <2>5
    <3>2. lines[s] \in [LineKinds -> Nat]
      BY DEF TypeOK
    <3>3. Counts(s, {})
      BY <3>1, <3>2 DEF Counts, Counted, Told
    <3> QED BY <2>1, <2>5, <3>1, <3>3 DEF RowStep, Starts
  <2>6. CASE s # fired /\ s # fired + 1
    <3>1. row[s]' = row[s] /\ lines[s]' = lines[s]
      BY <2>1, <2>6
    <3> QED BY <3>1, KeptSame DEF RowStep
  <2> QED BY <2>3, <2>4, <2>5, <2>6
<1>12. CASE FireAbort \/ FireProject
  BY <1>0, <1>12 DEF FireAbort, FireProject
<1>13. CASE Delete
  <2> DEFINE closes == {r \in {fired} \intersect Runs : Unresolved(row[r])}
  <2>1. /\ live /\ live' = FALSE
        /\ row' = [r \in Runs |->
              IF r \in closes
              THEN [row[r] EXCEPT !.state = "cancelled", !.pickup = NoTime, !.watch = NoTime]
              ELSE row[r]]
        /\ lines' = [r \in Runs |-> IF r \in closes THEN Told(r, {"cancelled"}) ELSE lines[r]]
    BY <1>13 DEF Delete
  <2>2. CASE s \in closes
    BY <2>1, <2>2 DEF RowStep, Cancelled, Counts
  <2>3. CASE s \notin closes
    <3>1. row[s]' = row[s] /\ lines[s]' = lines[s]
      BY <2>1, <2>3
    <3> QED BY <3>1, KeptSame DEF RowStep
  <2> QED BY <2>2, <2>3
<1>14. CASE Tick
  BY <1>14, AgedRows DEF Tick, RowStep
<1>15. CASE JumpWall(Jump) \/ JumpWall(-Jump)
  BY <1>15, AgedRows DEF JumpWall, RowStep
<1>16. CASE CrashApp \/ CrashCli \/ Boot \/ UNCHANGED vars
  BY <1>0, <1>16 DEF CrashApp, CrashCli, Boot, vars
<1> QED BY <1>1, <1>2, <1>3, <1>4, <1>5, <1>6, <1>7, <1>8, <1>9, <1>10, <1>11, <1>12, <1>13,
           <1>14, <1>15, <1>16
        DEF Next, Watch, Fire, App, Fail

\* Only a fire makes another run the current one, and only a deletion ends the timer.
LEMMA OnlyFires ==
    ASSUME [Next]_vars
    PROVE  FireCommit \/ Delete \/ UNCHANGED <<live, fired>>
<1> USE DEF ledger, vars
<1>1. Watch => UNCHANGED <<live, fired>>
  BY DEF Watch, SlotCommit, SlotHook, SlotsDone, BeginPoll, PollFile, EndPoll, WatcherDue,
         WatcherExpire, Reconcile
<1>2. FireAbort \/ FireProject \/ App => UNCHANGED <<live, fired>>
  BY DEF FireAbort, FireProject, App, AppWrites, AppSends, AppAcks
<1>3. /\ CrashApp \/ CrashCli \/ JumpWall(Jump) \/ JumpWall(-Jump) => UNCHANGED <<live, fired>>
      /\ Tick \/ Boot => UNCHANGED <<live, fired>>
  BY DEF CrashApp, CrashCli, JumpWall, Tick, Boot
<1>4. /\ \A by : FireBegin(by) => UNCHANGED <<live, fired>>
      /\ \A r, k : SchedPop(r, k) => UNCHANGED <<live, fired>>
      /\ SchedExpire \/ UNCHANGED vars => UNCHANGED <<live, fired>>
  BY DEF FireBegin, SchedPop, SchedExpire
<1> QED BY <1>1, <1>2, <1>3, <1>4 DEF Next, Fire, Fail

\* The run that is current changes by a fire, and no timer comes back.
LEMMA CurrentMoves ==
    ASSUME [Next]_vars
    PROVE  fired' \in {fired, fired + 1} /\ (live' => live)
<1>1. CASE FireCommit
  BY <1>1 DEF FireCommit
<1>2. CASE Delete
  <2>1. live' = FALSE /\ fired' = fired
    BY <1>2, Zenon DEF Delete
  <2> QED BY <2>1
<1>3. CASE UNCHANGED <<live, fired>>
  BY <1>3
<1> QED BY <1>1, <1>2, <1>3, OnlyFires

-----------------------------------------------------------------------------
(* The log.                                                                *)

\* A run that was not fired yet has no state and no lines.
Unheard ==
    \A r \in Runs : r > fired =>
        /\ row[r].state = "none" /\ ~row[r].ackLogged /\ ~row[r].runLogged
        /\ \A k \in Counted : lines[r][k] = 0

\* The flags of the row say what the log has.
FlagsTell ==
    \A r \in Runs :
        /\ lines[r]["acknowledged"] = IF row[r].ackLogged THEN 1 ELSE 0
        /\ lines[r]["running"] = IF row[r].runLogged THEN 1 ELSE 0

\* The lines without a flag: each ends what only a fire begins.
EndsOnce ==
    \A r \in Runs :
        /\ lines[r]["no_ack"] <= 1
        /\ row[r].state \in {"none", "fired"} => lines[r]["no_ack"] = 0
        /\ lines[r]["superseded"] <= 1
        /\ r >= fired => lines[r]["superseded"] = 0
        /\ lines[r]["cancelled"] <= 1
        /\ live => lines[r]["cancelled"] = 0

LogInv == Unheard /\ FlagsTell /\ EndsOnce /\ VerdictLogged

\* A reply that is applied does not say what the flags know already, and says
\* the verdict it brings.
LEMMA SaysOnce ==
    ASSUME TypeOK, NEW r \in Runs, NEW d \in Docs, Outcome(r, d, r) = "applied"
    PROVE  LET w == Folded(r, d) IN
           /\ w.state = d.state /\ d.state \in AppStates
           /\ ~(AppTerminal(row[r]) /\ d.state \in {"acknowledged", "running"})
           /\ d.state = "completed" => w.kind = "none"
           /\ d.state = "failed" => w.kind = "reported"
           /\ Says(r, d) \subseteq AppStates
           /\ "acknowledged" \in Says(r, d) => ~row[r].ackLogged
           /\ w.ackLogged <=> (row[r].ackLogged \/ "acknowledged" \in Says(r, d))
           /\ "running" \in Says(r, d) => ~row[r].runLogged
           /\ w.runLogged <=> (row[r].runLogged \/ "running" \in Says(r, d))
           /\ d.state \in Terminal => d.state \in Says(r, d) \/ row[r].state = d.state
<1>1. row[r] \in Rows /\ d \in Replies
  BY DocsAssumption DEF TypeOK
<1>2. d.state # "invalid" /\ ~Regresses(r, d)
  BY DEF Outcome
<1>3. d.state \in AppStates
  BY <1>1, <1>2 DEF Replies
<1>4. LET w == Folded(r, d) IN
      /\ w.state = d.state
      /\ w.ackLogged = (row[r].ackLogged \/ "acknowledged" \in Says(r, d))
      /\ w.runLogged = (row[r].runLogged \/ d.state = "running")
      /\ d.state = "completed" => w.kind = "none"
      /\ d.state = "failed" => w.kind = "reported"
  BY <1>1 DEF Folded, Rows
<1>5. /\ Says(r, d) \subseteq AppStates
      /\ "acknowledged" \in Says(r, d) => ~row[r].ackLogged
      /\ "running" \in Says(r, d) <=> d.state = "running" /\ ~row[r].runLogged
      /\ d.state \in Terminal => d.state \in Says(r, d) \/ row[r].state = d.state
  BY <1>3 DEF Says, SaysAcknowledged, SaysRunning, SaysVerdict, AppStates, Terminal
<1> QED BY <1>2, <1>3, <1>4, <1>5 DEF Regresses

\* Initially nothing was told.
LEMMA LogInit == Init => LogInv
BY BoundsAssumption
   DEF Init, LogInv, Unheard, FlagsTell, EndsOnce, VerdictLogged, NewRow, Terminal, Counted,
       LineKinds, AppStates, Runs

\* What the events K that a step logs of run r have to do with the change of its
\* row: why no event is told twice.
AckOnce(r, K) ==
    /\ "acknowledged" \in K => ~row[r].ackLogged
    /\ row[r].ackLogged' <=> (row[r].ackLogged \/ "acknowledged" \in K)
RunOnce(r, K) ==
    /\ "running" \in K => ~row[r].runLogged
    /\ row[r].runLogged' <=> (row[r].runLogged \/ "running" \in K)
LapseOnce(r, K) ==
    /\ "no_ack" \in K => row[r].state = "fired"
    /\ row[r].state' \in {"none", "fired"} =>
          row[r].state \in {"none", "fired"} /\ "no_ack" \notin K
CloseOnce(r, K) ==
    /\ "superseded" \in K => r = fired /\ fired' = fired + 1
    /\ "cancelled" \in K => live /\ ~live'
VerdictTold(r, K) ==
    row[r].state' \in Terminal => row[r].state' \in K \/ row[r].state' = row[r].state
Untouched(r, K) == r > fired' => r > fired /\ row[r].state' = row[r].state /\ K = {}

\* Of every step and every run, some set of events does all of this.
LEMMA StepTells ==
    ASSUME TypeOK, FireInv, Unheard, [Next]_vars, NEW r \in Runs
    PROVE  \E K : /\ Counts(r, K)
                  /\ AckOnce(r, K) /\ RunOnce(r, K) /\ LapseOnce(r, K) /\ CloseOnce(r, K)
                  /\ VerdictTold(r, K) /\ Untouched(r, K)
<1> USE DEF Counts, AckOnce, RunOnce, LapseOnce, CloseOnce, VerdictTold, Untouched
<1>1. /\ row[r] \in Rows /\ fired \in Int /\ r \in Int /\ fired' \in {fired, fired + 1}
  <2>1. row[r] \in Rows /\ fired \in 0..MaxRuns /\ r \in 1..MaxRuns /\ MaxRuns \in Nat
    <3>1. row \in [Runs -> Rows] /\ fired \in 0..MaxRuns
      BY Zenon DEF TypeOK
    <3>2. MaxRuns \in Nat
      BY BoundsAssumption
    <3> QED BY <3>1, <3>2, Zenon DEF Runs
  <2>2. fired \in Int /\ r \in Int
    <3> HIDE DEF Counts, AckOnce, RunOnce, LapseOnce, CloseOnce, VerdictTold, Untouched
    <3> QED BY <2>1
  <2> QED BY <2>1, <2>2, CurrentMoves
<1>2. RowStep(r)
  BY RowSteps
<1>3. CASE Kept(r)
  <2> WITNESS {}
  <2> QED BY <1>1, <1>3 DEF Kept
<1>4. CASE Hears(r)
  <2>1. PICK d \in Docs : /\ Outcome(r, d, r) = "applied"
                          /\ row[r]' = Folded(r, d) /\ Counts(r, Says(r, d))
    BY <1>4 DEF Hears
  <2> WITNESS Says(r, d)
  <2>2. r = fired
    BY <1>4 DEF Hears
  <2> QED BY <1>1, <2>1, <2>2, SaysOnce DEF AppStates
<1>5. CASE Closes(r)
  <2> DEFINE K == BarrierLines \union {"superseded"}
  <2>1. /\ r = fired /\ fired' = fired + 1 /\ row[r]' = Superseded(BarrierRow)
        /\ Counts(r, K)
    BY <1>5 DEF Closes
  <2>2. BarrierRow \in Rows
    BY <1>1, <2>1, IngestType DEF TypeOK, Fires, BarrierRow
  <2>3. /\ row[r].state' = "superseded"
        /\ row[r].ackLogged' = BarrierRow.ackLogged /\ row[r].runLogged' = BarrierRow.runLogged
    BY <2>1, <2>2 DEF Superseded, Rows
  <2>4. CASE /\ fire.doc \in Docs /\ Outcome(r, fire.doc, r) = "applied"
             /\ BarrierRow = Folded(r, fire.doc) /\ BarrierLines = Says(r, fire.doc)
    <3>1. /\ "acknowledged" \in K => ~row[r].ackLogged
          /\ row[r].ackLogged' <=> (row[r].ackLogged \/ "acknowledged" \in K)
          /\ "running" \in K => ~row[r].runLogged
          /\ row[r].runLogged' <=> (row[r].runLogged \/ "running" \in K)
      BY <2>1, <2>3, <2>4, SaysOnce
    <3>2. "no_ack" \notin K /\ "cancelled" \notin K
      BY <2>1, <2>4, SaysOnce DEF AppStates
    <3> WITNESS K
    <3>3. "superseded" \in K
      OBVIOUS
    <3> HIDE DEF K
    <3> QED BY <1>1, <2>1, <2>3, <3>1, <3>2, <3>3
  <2>5. CASE /\ BarrierLines \subseteq {"late", "rejected"}
             /\ BarrierRow.ackLogged = row[r].ackLogged
             /\ BarrierRow.runLogged = row[r].runLogged
    <3>1. "acknowledged" \notin K /\ "running" \notin K /\ "no_ack" \notin K /\ "cancelled" \notin K
      BY <2>5
    <3>2. /\ row[r].ackLogged' <=> row[r].ackLogged
          /\ row[r].runLogged' <=> row[r].runLogged
      BY <2>3, <2>5
    <3> WITNESS K
    <3>3. "superseded" \in K
      OBVIOUS
    <3> HIDE DEF K
    <3> QED BY <1>1, <2>1, <2>3, <3>1, <3>2, <3>3
  <2> QED BY <2>1, <2>4, <2>5, BarrierHears
<1>6. CASE Picked(r)
  <2>1. /\ row[r].state' = "acknowledged" /\ row[r].ackLogged' = TRUE
        /\ row[r].runLogged' = row[r].runLogged
    BY <1>1, <1>6 DEF Picked, AckedRow, Rows
  <2>2. AckLines(r) = IF row[r].ackLogged THEN {} ELSE {"acknowledged"}
    BY DEF AckLines
  <2> WITNESS AckLines(r)
  <2> QED BY <1>1, <1>6, <2>1, <2>2 DEF Picked, Terminal
<1>7. CASE Lapses(r)
  <2>1. /\ row[r].state' = "no_ack" /\ row[r].ackLogged' = row[r].ackLogged
        /\ row[r].runLogged' = row[r].runLogged
    BY <1>1, <1>7 DEF Lapses, Rows
  <2> WITNESS {"no_ack"}
  <2> QED BY <1>1, <1>7, <2>1 DEF Lapses
<1>8. CASE TimesOut(r)
  <2>1. /\ row[r].state' = "failed" /\ row[r].ackLogged' = row[r].ackLogged
        /\ row[r].runLogged' = row[r].runLogged
    BY <1>1, <1>8 DEF TimesOut, Rows
  <2> WITNESS {"failed"}
  <2> QED BY <1>1, <1>8, <2>1 DEF TimesOut
<1>9. CASE Cancelled(r)
  <2>1. /\ row[r].state' = "cancelled" /\ row[r].ackLogged' = row[r].ackLogged
        /\ row[r].runLogged' = row[r].runLogged
    BY <1>1, <1>9 DEF Cancelled, Rows
  <2> WITNESS {"cancelled"}
  <2> QED BY <1>1, <1>9, <2>1 DEF Cancelled
<1>10. CASE Starts(r)
  <2>1. /\ row[r].state' = "fired" /\ row[r].ackLogged' = FALSE /\ row[r].runLogged' = FALSE
    BY <1>10 DEF Starts, NewRow
  <2>2. row[r].state = "none" /\ ~row[r].ackLogged /\ ~row[r].runLogged
    BY <1>1, <1>10 DEF Starts, Unheard
  <2> WITNESS {}
  <2> QED BY <1>1, <1>10, <2>1, <2>2 DEF Starts, Terminal
<1> QED BY <1>2, <1>3, <1>4, <1>5, <1>6, <1>7, <1>8, <1>9, <1>10 DEF RowStep

\* A step keeps each run's lines in agreement with its row.
LEMMA LogStep ==
    ASSUME TypeOK, FireInv, LogInv, [Next]_vars
    PROVE  LogInv'
<1> USE DEF LogInv
<1>1. fired' \in {fired, fired + 1} /\ fired \in Int /\ Runs \subseteq Int
  <2>1. fired \in Int /\ Runs \subseteq Int
    BY BoundsAssumption DEF TypeOK, Runs
  <2> QED BY <2>1, CurrentMoves
<1>2. live' => live
  BY CurrentMoves
<1>3. ASSUME NEW r \in Runs, NEW K, Counts(r, K)
      PROVE  \A k \in Counted : /\ lines[r][k] \in Nat
                                /\ k \in K => lines[r][k]' = lines[r][k] + 1
                                /\ k \notin K => lines[r][k]' = lines[r][k]
  <2>1. lines[r] \in [LineKinds -> Nat]
    BY DEF TypeOK
  <2> QED BY <1>3, <2>1 DEF Counts, Counted, Told
<1>4. Counted = {"acknowledged", "running", "completed", "failed", "no_ack", "superseded",
                 "cancelled"}
  BY DEF Counted, LineKinds, AppStates, Terminal
<1>5. Unheard'
  <2> SUFFICES ASSUME NEW r \in Runs, r > fired'
               PROVE  /\ row[r].state' = "none" /\ ~row[r].ackLogged' /\ ~row[r].runLogged'
                      /\ \A k \in Counted : lines[r][k]' = 0
    BY DEF Unheard
  <2>1. PICK K : /\ Counts(r, K) /\ AckOnce(r, K) /\ RunOnce(r, K) /\ Untouched(r, K)
    BY StepTells
  <2> QED BY <1>3, <2>1 DEF Unheard, AckOnce, RunOnce, Untouched
<1>6. FlagsTell'
  <2> SUFFICES ASSUME NEW r \in Runs
               PROVE  /\ lines[r]["acknowledged"]' = IF row[r].ackLogged' THEN 1 ELSE 0
                      /\ lines[r]["running"]' = IF row[r].runLogged' THEN 1 ELSE 0
    BY DEF FlagsTell
  <2>1. PICK K : Counts(r, K) /\ AckOnce(r, K) /\ RunOnce(r, K)
    BY StepTells
  <2>2. /\ lines[r]["acknowledged"] = IF row[r].ackLogged THEN 1 ELSE 0
        /\ lines[r]["running"] = IF row[r].runLogged THEN 1 ELSE 0
    BY DEF FlagsTell
  <2>3. lines[r]["acknowledged"]' = IF row[r].ackLogged' THEN 1 ELSE 0
    BY <1>3, <1>4, <2>1, <2>2 DEF AckOnce
  <2>4. lines[r]["running"]' = IF row[r].runLogged' THEN 1 ELSE 0
    BY <1>3, <1>4, <2>1, <2>2 DEF RunOnce
  <2> QED BY <2>3, <2>4
<1>7. EndsOnce'
  <2> SUFFICES ASSUME NEW r \in Runs
               PROVE  /\ lines[r]["no_ack"]' <= 1
                      /\ row[r].state' \in {"none", "fired"} => lines[r]["no_ack"]' = 0
                      /\ lines[r]["superseded"]' <= 1
                      /\ r >= fired' => lines[r]["superseded"]' = 0
                      /\ lines[r]["cancelled"]' <= 1
                      /\ live' => lines[r]["cancelled"]' = 0
    BY DEF EndsOnce
  <2>1. PICK K : Counts(r, K) /\ LapseOnce(r, K) /\ CloseOnce(r, K)
    BY StepTells
  <2>2. lines[r]["no_ack"]' <= 1 /\ (row[r].state' \in {"none", "fired"} => lines[r]["no_ack"]' = 0)
    BY <1>3, <1>4, <2>1 DEF LapseOnce, EndsOnce
  <2>3. lines[r]["superseded"]' <= 1 /\ (r >= fired' => lines[r]["superseded"]' = 0)
    <3>1. r >= fired' => r >= fired
      BY <1>1
    <3> QED BY <1>1, <1>3, <1>4, <2>1, <3>1 DEF CloseOnce, EndsOnce
  <2>4. lines[r]["cancelled"]' <= 1 /\ (live' => lines[r]["cancelled"]' = 0)
    BY <1>2, <1>3, <1>4, <2>1 DEF CloseOnce, EndsOnce
  <2> QED BY <2>2, <2>3, <2>4
<1>8. VerdictLogged'
  <2> SUFFICES ASSUME NEW r \in Runs, row[r].state' \in Terminal
               PROVE  lines[r][row[r].state]' > 0
    BY DEF VerdictLogged
  <2>1. PICK K : Counts(r, K) /\ VerdictTold(r, K)
    BY StepTells
  <2>2. row[r].state' \in Counted
    BY <1>4 DEF Terminal
  <2>3. row[r].state' = row[r].state => lines[r][row[r].state'] > 0
    BY DEF VerdictLogged
  <2> QED BY <1>3, <2>1, <2>2, <2>3 DEF VerdictTold
<1> QED BY <1>5, <1>6, <1>7, <1>8

-----------------------------------------------------------------------------
(* The pickup countdown.                                                   *)

\* Nothing counts for a run that was not fired yet.
NotStarted ==
    \A r \in Runs : r > fired =>
        /\ row[r].pickup = NoTime /\ row[r].watch = NoTime
        /\ book[r] = NoEntry /\ r \notin exact
        /\ \A k \in DeadlineKinds : <<r, k>> \notin due \union popped

Waiting(r) == row[r].state = "fired" /\ row[r].pickup # NoTime

\* What the countdown has left and what has passed make up the grace; a pickup
\* found lapsed has had all of it.
InTime ==
    \A r \in exact :
        /\ Waiting(r) /\ book[r] # NoEntry => book[r].left + age[r] >= Grace
        /\ Waiting(r) /\ <<r, "pickup">> \in due \union popped => age[r] = Grace
        /\ row[r].state = "no_ack" => age[r] = Grace

ClockInv == NotStarted /\ InTime

\* What a step does to the countdown of a run.
Aged(r) ==
    /\ book[r] # NoEntry /\ r <= fired /\ row'[r].state = row[r].state
    /\ book'[r] # NoEntry /\ book'[r].left = Remaining(book[r].left - 1)
    /\ age'[r] = Min2(age[r] + 1, Grace)
Begun(r) == r <= fired /\ book'[r] # NoEntry /\ book'[r].left = Grace /\ UNCHANGED age
Untrusted(r) == r <= fired /\ (~Waiting(r)' \/ r \notin exact')
BookStep(r) ==
    \/ book'[r] = book[r] \/ book'[r] = NoEntry
    \/ Aged(r) \/ Begun(r) \/ Untrusted(r)

\* How a lapsed deadline is found.
Found(r) ==
    \/ book[r] # NoEntry /\ book[r].left = 0 /\ UNCHANGED <<row, age>>
    \/ r <= fired /\ r \notin exact'
DueStep(r) ==
    \A k \in DeadlineKinds : <<r, k>> \in (due \union popped)' => <<r, k>> \in due \union popped \/ Found(r)

LEMMA ClockInit == Init => ClockInv
BY BoundsAssumption DEF Init, ClockInv, NotStarted, InTime, NewRow, Runs, DeadlineKinds

\* A reply moves the countdown of the current run, when it is accepted, and
\* then pickup is no longer waited for.
LEMMA IngestMoves ==
    ASSUME TypeOK, NEW r \in Runs, NEW d \in Docs, NEW s \in Runs,
           book' = IngestBook(r, d, fired)
    PROVE  book'[s] = book[s] \/ (s = r /\ r = fired /\ IngestRow(r, d, fired).pickup = NoTime)
<1>1. CASE Outcome(r, d, fired) # "applied"
  BY <1>1 DEF IngestBook
<1>2. CASE Outcome(r, d, fired) = "applied"
  <2>1. r = fired
    BY <1>2 DEF Outcome
  <2>2. s # r => book'[s] = book[s]
    BY <1>2 DEF IngestBook, TypeOK
  <2>3. IngestRow(r, d, fired) = Folded(r, d) /\ row[r] \in Rows
    BY <1>2 DEF IngestRow, TypeOK
  <2>4. Folded(r, d).pickup = NoTime
    BY <2>3 DEF Folded, Rows
  <2> QED BY <2>1, <2>2, <2>3, <2>4
<1> QED BY <1>1, <1>2

\* Whether its transaction commits or not.
LEMMA TransportMoves ==
    ASSUME TypeOK, NEW r \in Runs, NEW d \in Docs, NEW isNew, NEW s \in Runs,
           Ingest(r, d, isNew) \/ IngestFails(r, d)
    PROVE  BookStep(s)
<1>0. fired \in Int /\ (s = fired => s <= fired)
  BY BoundsAssumption DEF TypeOK
<1>1. CASE Ingest(r, d, isNew)
  <2>1. book' = IngestBook(r, d, fired) /\ row'[r] = IngestRow(r, d, fired)
    BY <1>1 DEF Ingest, TypeOK
  <2>2. book'[s] = book[s] \/ (s = r /\ r = fired /\ row'[r].pickup = NoTime)
    BY <2>1, IngestMoves
  <2> QED BY <1>0, <2>2 DEF BookStep, Untrusted, Waiting
<1>2. CASE IngestFails(r, d)
  <2>1. book' = IngestBook(r, d, fired) /\ exact' = {q \in exact : book'[q] = book[q]}
    BY <1>2 DEF IngestFails, MovedAlone
  <2>2. book'[s] = book[s] \/ (s = fired /\ s \notin exact')
    BY <2>1, IngestMoves
  <2> QED BY <1>0, <2>2 DEF BookStep, Untrusted
<1> QED BY <1>1, <1>2

\* So does the reply that a fire has read.
LEMMA BarrierMoves ==
    ASSUME TypeOK, FireInv, NEW s \in Runs, fire.pc = "read", BarrierBook
    PROVE  book'[s] = book[s] \/ (s = fired /\ BarrierRow.pickup = NoTime)
<1>1. CASE fire.by = "app" /\ fire.doc # NoDoc
  <2>1. fired \in Runs /\ fire.doc \in Docs /\ BarrierRow = IngestRow(fired, fire.doc, fired)
    BY <1>1, BoundsAssumption DEF TypeOK, FireInv, FireKnows, Fires, Runs, BarrierRow
  <2>2. book' = IngestBook(fired, fire.doc, fired)
    BY <1>1 DEF BarrierBook
  <2> QED BY <2>1, <2>2, IngestMoves
<1>2. CASE ~(fire.by = "app" /\ fire.doc # NoDoc)
  BY <1>2 DEF BarrierBook
<1> QED BY <1>1, <1>2

\* The watcher rebuilds from the row what the book does not have.
LEMMA DueMoves ==
    ASSUME TypeOK, NotStarted, WatcherDue, NEW s \in Runs
    PROVE  BookStep(s) /\ DueStep(s)
<1>0. fired \in Int /\ s \in Int
  BY BoundsAssumption DEF TypeOK, Runs
<1>1. /\ book'[s] = Synced(s) /\ UNCHANGED <<row, age, popped>>
      /\ s \in exact' => book[s] # NoEntry \/ Synced(s) = NoEntry
  BY DEF WatcherDue, ledger
<1>2. due' \subseteq {e \in Runs \X DeadlineKinds : Lapsed(Synced(e[1]))}
  BY DEF WatcherDue
<1>3. CASE book[s] # NoEntry
  <2>1. Synced(s) = book[s]
    BY <1>3 DEF Synced
  <2> QED BY <1>1, <1>2, <1>3, <2>1 DEF BookStep, DueStep, Found, Lapsed
<1>4. CASE book[s] = NoEntry /\ Synced(s) = NoEntry
  BY <1>1, <1>2, <1>4 DEF BookStep, DueStep, Lapsed
<1>5. CASE book[s] = NoEntry /\ Synced(s) # NoEntry
  <2>1. s <= fired
    BY <1>0, <1>5 DEF Synced, FromWall, NotStarted
  <2> QED BY <1>1, <1>5, <2>1 DEF BookStep, Untrusted, DueStep, Found
<1> QED BY <1>3, <1>4, <1>5

\* Every step does one of these.
LEMMA ClockMoves ==
    ASSUME TypeOK, FireInv, NotStarted, [Next]_vars, NEW s \in Runs
    PROVE  BookStep(s) /\ DueStep(s)
<1> USE DEF ledger, folder, appVars, watchVars, history
<1>0. fired \in Int /\ s \in Int /\ (s = fired => s <= fired)
  BY BoundsAssumption DEF TypeOK, Runs
<1>1. ASSUME due' \subseteq due, popped' \subseteq popped PROVE DueStep(s)
  BY <1>1 DEF DueStep
<1>2. ASSUME UNCHANGED <<book, due, popped>> PROVE BookStep(s) /\ DueStep(s)
  BY <1>1, <1>2 DEF BookStep
<1>3. ASSUME NEW r \in Runs, AppAcks(r) \/ \E d \in Docs : AppWrites(r, d)
      PROVE  BookStep(s) /\ DueStep(s)
  BY <1>2, <1>3 DEF AppWrites, AppAcks
<1>4. ASSUME NEW r \in Runs, NEW d \in Docs, AppSends(r, d) PROVE BookStep(s) /\ DueStep(s)
  <2>1. UNCHANGED <<due, popped>> /\ (Ingest(r, d, TRUE) \/ IngestFails(r, d))
    BY <1>4 DEF AppSends
  <2> QED BY <1>1, <2>1, TransportMoves
<1>5. ASSUME NEW r \in Runs, PollFile(r) PROVE BookStep(s) /\ DueStep(s)
  <2>1. UNCHANGED <<due, popped>>
    BY <1>5 DEF PollFile
  <2>2. CASE UNCHANGED book
    BY <1>2, <2>1, <2>2
  <2>3. CASE file[r] # NoFile /\ ~IsUntouchedStub(file[r])
    <3>1. file[r] \in Docs
      BY <2>3 DEF TypeOK, IsUntouchedStub
    <3>2. Ingest(r, file[r], <<r, file[r]>> \notin bad) \/ IngestFails(r, file[r])
      BY <1>5, <2>3 DEF PollFile, IsUntouchedStub
    <3> QED BY <1>1, <2>1, <3>1, <3>2, TransportMoves
  <2> QED BY <1>5, <2>2, <2>3 DEF PollFile
<1>6. CASE SlotCommit \/ SlotHook \/ SlotsDone \/ BeginPoll \/ EndPoll \/ Reconcile \/ Boot \/ UNCHANGED vars
  BY <1>2, <1>6 DEF SlotCommit, SlotHook, SlotsDone, Loop, BeginPoll, EndPoll, Reconcile, Boot, vars
<1>7. CASE WatcherDue
  BY <1>7, DueMoves
<1>8. CASE WatcherExpire
  <2>1. due' = {} /\ popped' = popped /\ book'[s] \in {book[s], NoEntry}
    BY <1>8 DEF WatcherExpire
  <2> QED BY <1>1, <2>1 DEF BookStep
<1>9. ASSUME NEW r \in Runs, NEW k \in DeadlineKinds, SchedPop(r, k)
      PROVE  BookStep(s) /\ DueStep(s)
  <2>1. UNCHANGED <<book, due, row, age>> /\ (book[r] = NoEntry \/ Lapsed(book[r]))
    BY <1>9 DEF SchedPop
  <2>2. popped' = IF book[r] = NoEntry THEN {} ELSE {<<r, k>>}
    BY <1>9 DEF SchedPop
  <2>3. DueStep(s)
    BY <2>1, <2>2 DEF DueStep, Found, Lapsed
  <2> QED BY <2>1, <2>3 DEF BookStep
<1>10. CASE SchedExpire
  <2>1. popped' = {} /\ due' = due /\ book'[s] \in {book[s], NoEntry}
    BY <1>10 DEF SchedExpire
  <2> QED BY <1>1, <2>1 DEF BookStep
<1>11. ASSUME NEW by \in {"app", "cli"}, FireBegin(by) PROVE BookStep(s) /\ DueStep(s)
  BY <1>2, <1>11 DEF FireBegin
<1>12. CASE FireCommit
  <2>1. fire.pc = "read" /\ BarrierBook /\ UNCHANGED <<due, popped>>
    BY <1>12 DEF FireCommit
  <2>2. s = fired => row'[s] \in {BarrierRow, Superseded(BarrierRow)}
    BY <1>0, <1>12 DEF FireCommit
  <2>3. s = fired => BarrierRow \in Rows
    <3>1. s = fired /\ fire.doc # NoDoc => fire.doc \in Docs
      BY DEF TypeOK, Fires
    <3> QED BY <3>1, IngestType DEF BarrierRow, TypeOK
  <2>4. s = fired /\ BarrierRow.pickup = NoTime => row'[s].pickup = NoTime
    BY <2>2, <2>3 DEF Superseded, Rows
  <2> QED BY <1>0, <1>1, <2>1, <2>4, BarrierMoves DEF BookStep, Untrusted, Waiting
<1>13. CASE FireAbort
  <2>1. fire.pc = "read" /\ BarrierBook /\ UNCHANGED <<due, popped>>
    BY <1>13 DEF FireAbort
  <2>2. exact' = {q \in exact : book'[q] = book[q]}
    BY <1>13 DEF FireAbort, MovedAlone
  <2> QED BY <1>0, <1>1, <2>1, <2>2, BarrierMoves DEF BookStep, Untrusted
<1>14. CASE FireProject
  <2>1. UNCHANGED <<due, popped, age>>
    BY <1>14 DEF FireProject
  <2>2. \/ book'[s] = book[s] \/ book'[s] = NoEntry
        \/ s = fired /\ book'[s] = [kind |-> "pickup", left |-> Grace]
    BY <1>14 DEF FireProject
  <2>3. NoEntry # [kind |-> "pickup", left |-> Grace]
    BY EntryAssumption, TimesAssumption DEF DeadlineKinds
  <2> QED BY <1>0, <1>1, <2>1, <2>2, <2>3 DEF BookStep, Begun
<1>15. CASE Delete \/ JumpWall(Jump) \/ JumpWall(-Jump) \/ CrashCli
  BY <1>2, <1>15 DEF Delete, JumpWall, CrashCli
<1>16. CASE CrashApp
  <2>1. due' = {} /\ popped' = {} /\ book'[s] = NoEntry
    BY <1>16 DEF CrashApp
  <2> QED BY <1>1, <2>1 DEF BookStep
<1>17. CASE Tick
  <2>1. UNCHANGED <<due, popped, fired>>
    BY <1>17 DEF Tick
  <2>2. CASE book[s] = NoEntry
    BY <1>1, <1>17, <2>1, <2>2 DEF Tick, BookStep
  <2>3. CASE book[s] # NoEntry
    <3>1. s <= fired /\ age'[s] = Min2(age[s] + 1, Grace)
      BY <1>0, <1>17, <2>3 DEF Tick, NotStarted
    <3>2. book[s] \in Entries /\ book'[s] = [book[s] EXCEPT !.left = Remaining(@ - 1)]
      BY <1>17, <2>3 DEF Tick, TypeOK
    <3>3. book'[s].left = Remaining(book[s].left - 1) /\ book'[s] \in Entries
      BY <3>2 DEF Entries, Remaining
    <3>4. book'[s] # NoEntry
      BY <3>3, EntryAssumption DEF Entries
    <3>5. row'[s].state = row[s].state
      <4>1. row[s] \in Rows /\ row'[s] = [row[s] EXCEPT !.pickup = Older(@, 1), !.watch = Older(@, 1)]
        BY <1>17 DEF Tick, AgeRows, TypeOK
      <4> QED BY <4>1 DEF Rows
    <3> QED BY <1>1, <2>1, <2>3, <3>1, <3>3, <3>4, <3>5 DEF BookStep, Aged
  <2> QED BY <2>2, <2>3
<1> QED BY <1>3, <1>4, <1>5, <1>6, <1>7, <1>8, <1>9, <1>10, <1>11, <1>12, <1>13, <1>14, <1>15,
           <1>16, <1>17
        DEF Next, Watch, Fire, App, Fail

\* Time only passes; a run is trusted from its fire on or never.
LEMMA AgeGrows ==
    ASSUME TypeOK, [Next]_vars, NEW r \in Runs
    PROVE  /\ r <= fired => age'[r] >= age[r]
           /\ r \in exact' => r \in exact \/ (r = fired + 1 /\ fired' = fired + 1)
<1> USE DEF ledger, folder, appVars, watchVars, history
<1>0. age[r] \in 0..Grace
  BY DEF TypeOK
<1>1. ASSUME UNCHANGED age, exact' \subseteq exact
      PROVE  /\ r <= fired => age'[r] >= age[r]
             /\ r \in exact' => r \in exact \/ (r = fired + 1 /\ fired' = fired + 1)
  BY <1>0, <1>1
<1>2. ASSUME NEW s \in Runs,
             AppAcks(s) \/ \E d \in Docs : AppWrites(s, d) \/ AppSends(s, d)
      PROVE  UNCHANGED age /\ exact' \subseteq exact
  BY <1>2 DEF AppWrites, AppSends, AppAcks, Ingest, IngestFails, MovedAlone
<1>3. ASSUME NEW s \in Runs, PollFile(s) PROVE UNCHANGED age /\ exact' \subseteq exact
  BY <1>3 DEF PollFile, Ingest, IngestFails, MovedAlone
<1>4. CASE SlotCommit \/ SlotHook \/ SlotsDone \/ BeginPoll \/ EndPoll \/ Reconcile \/ Boot \/ UNCHANGED vars
  BY <1>1, <1>4 DEF SlotCommit, SlotHook, SlotsDone, BeginPoll, EndPoll, Reconcile, Boot, vars
<1>5. CASE WatcherDue \/ WatcherExpire \/ SchedExpire
  <2>1. UNCHANGED age /\ exact' \subseteq exact
    BY <1>5 DEF WatcherDue, WatcherExpire, SchedExpire
  <2> QED BY <1>1, <2>1
<1>6. ASSUME NEW s \in Runs, NEW k \in DeadlineKinds, SchedPop(s, k)
      PROVE  UNCHANGED age /\ exact' \subseteq exact
  BY <1>6 DEF SchedPop
<1>7. ASSUME NEW by \in {"app", "cli"}, FireBegin(by) PROVE UNCHANGED age /\ exact' \subseteq exact
  BY <1>7 DEF FireBegin
<1>8. CASE FireCommit
  BY <1>0, <1>8 DEF FireCommit
<1>9. CASE FireAbort \/ FireProject
  <2>1. UNCHANGED age /\ exact' \subseteq exact
    BY <1>9 DEF FireAbort, FireProject, MovedAlone
  <2> QED BY <1>1, <2>1
<1>10. CASE Delete \/ JumpWall(Jump) \/ JumpWall(-Jump) \/ CrashApp \/ CrashCli
  BY <1>1, <1>10 DEF Delete, JumpWall, CrashApp, CrashCli
<1>11. CASE Tick
  <2>1. exact' = exact /\ (r <= fired => age'[r] = Min2(age[r] + 1, Grace))
    BY <1>11 DEF Tick
  <2> QED BY <1>0, <2>1, TimesAssumption DEF Min2
<1> QED BY <1>1, <1>2, <1>3, <1>4, <1>5, <1>6, <1>7, <1>8, <1>9, <1>10, <1>11
        DEF Next, Watch, Fire, App, Fail

\* What a run that waits for pickup has been before the step, and what has
\* become of one that is declared no_ack.
LEMMA Waited ==
    ASSUME TypeOK, NEW r \in Runs, RowStep(r)
    PROVE  /\ Waiting(r)' => Waiting(r) \/ r = fired + 1
           /\ row'[r].state = "no_ack" => row[r].state = "no_ack" \/ Lapses(r)
<1>1. row[r] \in Rows
  BY DEF TypeOK
<1>2. CASE Kept(r)
  BY <1>2 DEF Kept, Waiting
<1>3. CASE Hears(r)
  <2>1. PICK d \in Docs : Outcome(r, d, r) = "applied" /\ row'[r] = Folded(r, d)
    BY <1>3 DEF Hears
  <2>2. row'[r].state \in AppStates
    BY <2>1, SaysOnce
  <2>3. row'[r].pickup = NoTime
    BY <1>1, <2>1 DEF Folded, Rows
  <2> QED BY <2>2, <2>3 DEF Waiting, AppStates
<1>4. CASE Closes(r)
  <2>1. row'[r] = Superseded(BarrierRow) /\ BarrierRow \in Rows
    <3>1. fire.doc # NoDoc => fire.doc \in Docs
      BY DEF TypeOK, Fires
    <3> QED BY <1>4, <3>1, IngestType DEF Closes, BarrierRow, TypeOK
  <2> QED BY <2>1 DEF Superseded, Rows, Waiting
<1>5. CASE Picked(r) \/ Lapses(r) \/ TimesOut(r) \/ Cancelled(r)
  BY <1>1, <1>5 DEF Picked, Lapses, TimesOut, Cancelled, AckedRow, Rows, Waiting
<1>6. CASE Starts(r)
  BY <1>6 DEF Starts, NewRow
<1> QED BY <1>2, <1>3, <1>4, <1>5, <1>6 DEF RowStep

\* A run that is not fired stays untouched.
LEMMA NotStartedStep ==
    ASSUME TypeOK, FireInv, NotStarted, [Next]_vars, NEW r \in Runs, r > fired
    PROVE  /\ book'[r] = NoEntry
           /\ \A k \in DeadlineKinds : <<r, k>> \notin (due \union popped)'
           /\ r > fired' =>
                 row'[r].pickup = NoTime /\ row'[r].watch = NoTime /\ r \notin exact'
<1>0. fired \in Int /\ r \in Int /\ fired' \in {fired, fired + 1}
  <2>1. fired \in Int /\ r \in Int
    BY BoundsAssumption DEF TypeOK, Runs
  <2> QED BY <2>1, CurrentMoves
<1>1. BookStep(r) /\ DueStep(r)
  BY ClockMoves
<1>2. book[r] = NoEntry /\ r \notin exact /\ \A k \in DeadlineKinds : <<r, k>> \notin due \union popped
  BY DEF NotStarted
<1>3. book'[r] = NoEntry /\ \A k \in DeadlineKinds : <<r, k>> \notin (due \union popped)'
  BY <1>0, <1>1, <1>2 DEF BookStep, Aged, Begun, Untrusted, DueStep, Found
<1>4. ASSUME r > fired' PROVE row'[r].pickup = NoTime /\ row'[r].watch = NoTime /\ r \notin exact'
  <2>1. Kept(r)
    <3>1. RowStep(r)
      BY RowSteps
    <3>2. r # fired /\ ~(r = fired + 1 /\ fired' = fired + 1)
      BY <1>0, <1>4
    <3> QED BY <3>1, <3>2 DEF RowStep, Hears, Closes, Picked, Lapses, TimesOut, Cancelled, Starts
  <2>2. row'[r].pickup = NoTime /\ row'[r].watch = NoTime
    BY <2>1 DEF Kept, NotStarted
  <2> QED BY <1>0, <1>2, <1>4, <2>2, AgeGrows
<1> QED BY <1>3, <1>4

\* The countdown of a trusted run stays in time.
LEMMA InTimeStep ==
    ASSUME TypeOK, FireInv, ClockInv, [Next]_vars, TypeOK', NEW r \in exact, r \in exact'
    PROVE  /\ Waiting(r)' /\ book'[r] # NoEntry => book'[r].left + age'[r] >= Grace
           /\ Waiting(r)' /\ <<r, "pickup">> \in (due \union popped)' => age'[r] = Grace
           /\ row'[r].state = "no_ack" => age'[r] = Grace
<1>0. r \in Runs /\ fired \in Int /\ r \in Int /\ r <= fired
  <2>1. r \in Runs
    BY DEF TypeOK
  <2>2. fired \in Int /\ r \in Int
    BY <2>1, BoundsAssumption DEF TypeOK, Runs
  <2>3. ~(r > fired)
    BY <2>1 DEF ClockInv, NotStarted
  <2> QED BY <2>1, <2>2, <2>3
<1>1. /\ age[r] \in 0..Grace /\ age'[r] \in 0..Grace /\ age'[r] >= age[r] /\ Grace \in Nat
      /\ book[r] # NoEntry => book[r].left \in Nat
      /\ book'[r] # NoEntry => book'[r].left \in Nat
  BY <1>0, AgeGrows, TimesAssumption DEF TypeOK, Entries
<1>2. BookStep(r) /\ DueStep(r)
  BY <1>0, ClockMoves DEF ClockInv
<1>3. RowStep(r)
  BY <1>0, RowSteps
<1>4. /\ Waiting(r)' => Waiting(r)
      /\ row'[r].state = "no_ack" => row[r].state = "no_ack" \/ Lapses(r)
  BY <1>0, <1>3, Waited
<1>5. /\ Waiting(r) /\ book[r] # NoEntry => book[r].left + age[r] >= Grace
      /\ Waiting(r) /\ <<r, "pickup">> \in due \union popped => age[r] = Grace
      /\ row[r].state = "no_ack" => age[r] = Grace
  BY DEF ClockInv, InTime
<1>6. ASSUME Waiting(r)', book'[r] # NoEntry PROVE book'[r].left + age'[r] >= Grace
  <2>1. CASE book'[r] = book[r]
    BY <1>1, <1>4, <1>5, <1>6, <2>1
  <2>2. CASE Aged(r)
    BY <1>1, <1>4, <1>5, <1>6, <2>2 DEF Aged, Remaining, Min2
  <2>3. CASE Begun(r)
    BY <1>1, <2>3 DEF Begun
  <2> QED BY <1>2, <1>6, <2>1, <2>2, <2>3 DEF BookStep, Untrusted
<1>7. ASSUME Waiting(r)', <<r, "pickup">> \in (due \union popped)' PROVE age'[r] = Grace
  <2>1. CASE <<r, "pickup">> \in due \union popped
    BY <1>1, <1>4, <1>5, <1>7, <2>1
  <2>2. CASE Found(r)
    BY <1>1, <1>4, <1>5, <1>7, <2>2 DEF Found
  <2> QED BY <1>2, <1>7, <2>1, <2>2 DEF DueStep, DeadlineKinds
<1>8. ASSUME row'[r].state = "no_ack" PROVE age'[r] = Grace
  <2>1. Lapses(r) => age[r] = Grace
    BY <1>5 DEF Lapses, Waiting
  <2> QED BY <1>1, <1>4, <1>5, <1>8, <2>1
<1> QED BY <1>6, <1>7, <1>8

LEMMA ClockStep ==
    ASSUME TypeOK, FireInv, LogInv, ClockInv, [Next]_vars, TypeOK'
    PROVE  ClockInv'
<1>0. fired \in Int /\ Runs \subseteq Int /\ fired' \in {fired, fired + 1}
  <2>1. fired \in Int /\ Runs \subseteq Int
    BY BoundsAssumption DEF TypeOK, Runs
  <2> QED BY <2>1, CurrentMoves
<1>1. NotStarted'
  <2>1. ASSUME NEW r \in Runs, r > fired'
        PROVE  /\ row'[r].pickup = NoTime /\ row'[r].watch = NoTime
               /\ book'[r] = NoEntry /\ r \notin exact'
               /\ \A k \in DeadlineKinds : <<r, k>> \notin (due \union popped)'
    <3>1. r > fired
      BY <1>0, <2>1
    <3> QED BY <2>1, <3>1, NotStartedStep DEF ClockInv
  <2> QED BY <2>1 DEF NotStarted
<1>2. ASSUME NEW r \in exact'
      PROVE  /\ Waiting(r)' /\ book'[r] # NoEntry => book'[r].left + age'[r] >= Grace
             /\ Waiting(r)' /\ <<r, "pickup">> \in (due \union popped)' => age'[r] = Grace
             /\ row'[r].state = "no_ack" => age'[r] = Grace
  <2>1. r \in Runs
    BY <1>2 DEF TypeOK
  <2>2. CASE r \in exact
    BY <1>2, <2>2, InTimeStep
  <2>3. CASE r \notin exact
    <3>1. r > fired
      BY <1>0, <1>2, <2>1, <2>3, AgeGrows
    <3>2. book'[r] = NoEntry /\ <<r, "pickup">> \notin (due \union popped)'
      BY <2>1, <3>1, NotStartedStep DEF ClockInv, DeadlineKinds
    <3>3. row'[r].state # "no_ack"
      <4>1. row[r].state = "none" /\ r # fired
        BY <1>0, <2>1, <3>1 DEF LogInv, Unheard
      <4> QED BY <2>1, <4>1, RowSteps, Waited DEF Lapses
    <3> QED BY <3>2, <3>3
  <2> QED BY <2>2, <2>3
<1>3. InTime'
  BY <1>2 DEF InTime, Waiting
<1> QED BY <1>1, <1>3 DEF ClockInv

-----------------------------------------------------------------------------
(* Theorems.                                                               *)

IInv == TypeOK /\ FireInv /\ LogInv /\ ClockInv

\* The invariant holds of every reachable state.
LEMMA Invariant == Spec => []IInv
<1>1. Init => IInv
  BY TypeInit, LogInit, ClockInit
     DEF IInv, TypeInv, FireInv, GateHeldOnce, ReadIsCurrent, Init, NoFire
<1>2. IInv /\ [Next]_vars => IInv'
  BY TypeStep, FireStep, LogStep, ClockStep DEF IInv, TypeInv, FireInv
<1> QED BY <1>1, <1>2, PTL DEF Spec

\* Whatever is written into the reply files, sent over IPC or acknowledged
\* through slots, and whatever fails, every part of the state keeps its type.
THEOREM ReplyTypes == Spec => []TypeOK
BY Invariant, PTL DEF IInv

\* The log tells pickup, start, lapse, supersession and cancellation of a run
\* at most once (engine.rs, ack_event and run_event; tree/mod.rs, project_fire).
THEOREM ToldOnce == Spec => []LineOnce
<1>1. IInv => LineOnce
  BY DEF IInv, LogInv, FlagsTell, EndsOnce, LineOnce
<1> QED BY <1>1, Invariant, PTL

\* A verdict a run stands at has been logged (R10).
THEOREM ToldVerdict == Spec => []VerdictLogged
<1>1. IInv => VerdictLogged
  BY DEF IInv, LogInv
<1> QED BY <1>1, Invariant, PTL

\* The app's verdict on a run is replaced by nothing but another verdict of the
\* app (engine.rs, TerminalRegression; expire_*_one; tree/mod.rs).
THEOREM VerdictIsKept == Spec => VerdictStands
<1>1. ASSUME IInv, [Next]_vars, NEW r \in Runs, AppTerminal(row[r])
      PROVE  AppTerminal(row[r]')
  <2>1. RowStep(r)
    BY <1>1, RowSteps DEF IInv
  <2>2. row[r] \in Rows
    BY <1>1 DEF IInv, TypeOK
  <2>3. CASE Hears(r)
    BY <1>1, <2>3, SaysOnce DEF IInv, Hears, AppTerminal, AppStates
  <2>4. ~Closes(r)
    <3>1. ASSUME Closes(r) PROVE FALSE
      <4>1. r = fired /\ Unresolved(BarrierRow)
        BY <3>1 DEF Closes
      <4>2. CASE /\ fire.doc \in Docs /\ Outcome(r, fire.doc, r) = "applied"
                 /\ BarrierRow = Folded(r, fire.doc)
        BY <1>1, <4>1, <4>2, SaysOnce DEF IInv, AppTerminal, AppStates, Unresolved, Terminal
      <4>3. CASE BarrierRow.state = row[r].state
        BY <1>1, <4>1, <4>3 DEF AppTerminal, Unresolved, Terminal
      <4> QED BY <1>1, <4>1, <4>2, <4>3, BarrierHears DEF IInv
    <3> QED BY <3>1
  <2>5. ~Starts(r)
    <3>1. fired \in Int
      BY <1>1, BoundsAssumption DEF IInv, TypeOK
    <3> QED BY <1>1, <3>1 DEF Starts, AppTerminal, IInv, LogInv, Unheard
  <2>6. ~(Picked(r) \/ Lapses(r) \/ TimesOut(r) \/ Cancelled(r))
    BY <1>1 DEF Picked, Lapses, TimesOut, Cancelled, AppTerminal, Unresolved, Terminal
  <2> QED BY <1>1, <2>1, <2>3, <2>4, <2>5, <2>6 DEF RowStep, Kept, AppTerminal
<1>2. IInv /\ [Next]_vars => \A r \in Runs : AppTerminal(row[r]) => AppTerminal(row[r]')
  BY <1>1
<1> QED BY <1>2, Invariant, PTL DEF Spec, VerdictStands

\* The state of a run is final once the timer has fired again.
THEOREM EarlierRunsAreFinal == Spec => RevisedOnlyWhileCurrent
<1>1. ASSUME IInv, [Next]_vars, NEW r \in Runs, r < fired
      PROVE  row[r].state' = row[r].state
  <2>1. r \in Int /\ fired \in Int
    BY <1>1, BoundsAssumption DEF IInv, TypeOK, Runs
  <2>2. RowStep(r)
    BY <1>1, RowSteps DEF IInv
  <2> QED BY <1>1, <2>1, <2>2
          DEF RowStep, Kept, Hears, Closes, Picked, Lapses, TimesOut, Cancelled, Starts
<1>2. IInv /\ [Next]_vars => \A r \in Runs : r < fired => row[r].state' = row[r].state
  BY <1>1
<1> QED BY <1>2, Invariant, PTL DEF Spec, RevisedOnlyWhileCurrent

\* A fire does not supersede a run whose verdict was waiting in its reply file
\* (tree/mod.rs, the pre-fire barrier).
THEOREM WaitingVerdictIsHeard == Spec => OutcomeNotDropped
<1>1. ASSUME IInv, [Next]_vars, NEW r \in Runs,
             Unresolved(row[r]), row[r].state' = "superseded",
             r \notin overtaken, file[r] \in Docs,
             IsVerdict(file[r]), Outcome(r, file[r], r) = "applied"
      PROVE  FALSE
  <2>1. RowStep(r)
    BY <1>1, RowSteps DEF IInv
  <2>2. row[r] \in Rows /\ \A d \in Docs : d \in Replies
    BY <1>1, DocsAssumption DEF IInv, TypeOK
  <2>3. ~Hears(r)
    BY <1>1, SaysOnce DEF IInv, Hears, AppStates
  <2>4. Closes(r)
    <3>1. ~Kept(r)
      BY <1>1 DEF Kept, Unresolved, Terminal
    <3>2. ~Picked(r) /\ ~Starts(r)
      <4>1. AckedRow(r).state = "acknowledged" /\ NewRow("fired", Grace).state = "fired"
        BY <2>2 DEF AckedRow, NewRow, Rows
      <4> QED BY <1>1, <4>1 DEF Picked, Starts
    <3>3. ~Lapses(r) /\ ~TimesOut(r)
      BY <1>1, <2>2 DEF Lapses, TimesOut, Rows
    <3>4. ~Cancelled(r)
      BY <1>1, <2>2 DEF Cancelled, Rows
    <3> QED BY <2>1, <2>3, <3>1, <3>2, <3>3, <3>4 DEF RowStep
  <2>5. r = fired /\ fired > 0 /\ fire.pc = "read" /\ Unresolved(BarrierRow)
    BY <2>4, BoundsAssumption DEF Closes, Runs
  <2>6. fire.doc = file[r] /\ fire.doc # NoDoc
    BY <1>1, <2>5, DocsAssumption DEF IInv, FireInv, ReadIsCurrent, BarrierDoc
  <2>7. BarrierRow = Folded(r, fire.doc)
    BY <1>1, <2>5, <2>6, BarrierHears DEF IInv
  <2>8. Folded(r, fire.doc).state = fire.doc.state
    BY <1>1, <2>6, SaysOnce DEF IInv
  <2> QED BY <1>1, <2>5, <2>6, <2>7, <2>8 DEF IsVerdict, Unresolved
<1>2. IInv /\ [Next]_vars =>
        \A r \in Runs :
          /\ Unresolved(row[r]) /\ row[r].state' = "superseded"
          /\ r \notin overtaken /\ file[r] \in Docs
          => ~(IsVerdict(file[r]) /\ Outcome(r, file[r], r) = "applied")
  BY <1>1
<1> QED BY <1>2, Invariant, PTL DEF Spec, OutcomeNotDropped

\* A run whose countdown ran on the monotonic clock is declared no_ack only when
\* its grace has passed, whatever the wall clock does (DeadlineBook, engine.rs,
\* expire_pickup_one; handle_due_deadline, scheduler/engine/misfire.rs).
THEOREM GraceIsGiven == Spec => []NoEarlyNoAck
<1>1. IInv => NoEarlyNoAck
  BY DEF IInv, ClockInv, InTime, NoEarlyNoAck
<1> QED BY <1>1, Invariant, PTL

-----------------------------------------------------------------------------
(* The abstract life cycle (RunLifecycle).                                 *)

\* The watcher has files to read, and a fire is to commit, only while the timer exists.
BusyWhileLive ==
    /\ watcher = "polling" /\ toPoll # {} => live
    /\ fire.pc = "read" => live

\* A run that was fired stands somewhere; no watchdog runs before the app has spoken; pickup and the
\* start of the work are noted when the run comes to them.
Standing ==
    \A r \in Runs :
        /\ r <= fired => row[r].state # "none"
        /\ row[r].state \in {"none", "fired"} => row[r].watch = NoTime
        /\ row[r].state = "acknowledged" => row[r].ackLogged
        /\ row[r].state = "running" => row[r].runLogged

LifeInv == BusyWhileLive /\ Standing

LEMMA LifeInit == Init => LifeInv
BY BoundsAssumption DEF Init, LifeInv, BusyWhileLive, Standing, NoFire, NewRow, Runs

LEMMA BusyStep == BusyWhileLive /\ [Next]_vars => BusyWhileLive'
<1> SUFFICES ASSUME BusyWhileLive, [Next]_vars PROVE BusyWhileLive'
  OBVIOUS
<1> USE DEF BusyWhileLive, ledger, folder, appVars, watchVars, history
<1>0. ASSUME UNCHANGED <<live, watcher, toPoll, fire>> PROVE BusyWhileLive'
  BY <1>0
<1>1. CASE App
  <2>1. PICK r \in Runs : (\E d \in Docs : AppWrites(r, d) \/ AppSends(r, d)) \/ AppAcks(r)
    BY <1>1 DEF App
  <2>2. UNCHANGED <<live, watcher, toPoll, fire>>
    BY <2>1, Zenon DEF AppWrites, AppSends, AppAcks
  <2> QED BY <1>0, <2>2
<1>2. CASE SlotCommit \/ SlotHook \/ SlotsDone \/ EndPoll \/ WatcherDue \/ Reconcile \/ UNCHANGED vars
  BY <1>2 DEF SlotCommit, SlotHook, SlotsDone, EndPoll, WatcherDue, AfterPass, Reconcile, Loop, vars
<1>3. CASE BeginPoll
  BY <1>3 DEF BeginPoll
<1>4. ASSUME NEW r \in Runs, PollFile(r) PROVE BusyWhileLive'
  <2>1. r \in toPoll /\ watcher = "polling" /\ live' = live /\ fire' = fire
    BY <1>4, Zenon DEF PollFile
  <2> QED BY <2>1
<1>5. CASE WatcherExpire \/ SchedExpire
  BY <1>5 DEF WatcherExpire, AfterPass, SchedExpire
<1>6. ASSUME NEW r, NEW k, SchedPop(r, k) PROVE BusyWhileLive'
  BY <1>6 DEF SchedPop
<1>7. ASSUME NEW by, FireBegin(by) PROVE BusyWhileLive'
  BY <1>7 DEF FireBegin
<1>8. CASE FireCommit
  <2>1. fire'.pc # "read" /\ UNCHANGED <<live, watcher, toPoll>>
    BY <1>8 DEF FireCommit
  <2> QED BY <2>1
<1>9. CASE FireAbort \/ FireProject
  BY <1>9 DEF FireAbort, FireProject, NoFire
<1>10. CASE Delete
  <2>1. GateFree /\ UNCHANGED <<watcher, fire>>
    BY <1>10, Zenon DEF Delete
  <2> QED BY <2>1 DEF GateFree
<1>11. CASE CrashApp \/ CrashCli \/ Boot \/ Tick \/ JumpWall(Jump) \/ JumpWall(-Jump)
  BY <1>11 DEF CrashApp, CrashCli, Boot, Tick, JumpWall, NoFire
<1> QED BY <1>1, <1>2, <1>3, <1>4, <1>5, <1>6, <1>7, <1>8, <1>9, <1>10, <1>11
        DEF Next, Watch, Fire, Fail

\* A reply that is applied leaves what it says noted.
LEMMA FoldedStands ==
    ASSUME TypeOK, NEW r \in Runs, NEW d \in Docs, Outcome(r, d, r) = "applied"
    PROVE  LET w == Folded(r, d) IN
           /\ w.state \in AppStates
           /\ w.state = "acknowledged" => w.ackLogged
           /\ w.state = "running" => w.runLogged
<1>1. row[r] \in Rows /\ d.state \in AppStates /\ Folded(r, d).state = d.state
  BY SaysOnce DEF TypeOK
<1>2. /\ Folded(r, d).ackLogged = (row[r].ackLogged \/ "acknowledged" \in Says(r, d))
      /\ Folded(r, d).runLogged = (row[r].runLogged \/ d.state = "running")
  BY <1>1 DEF Folded, Rows
<1>3. d.state = "acknowledged" => row[r].ackLogged \/ "acknowledged" \in Says(r, d)
  BY DEF Says, SaysAcknowledged
<1> QED BY <1>1, <1>2, <1>3

\* A run becomes current by its own fire.
LEMMA FireStarts ==
    ASSUME TypeOK, [Next]_vars, NEW r \in Runs, r = fired + 1, fired' = fired + 1
    PROVE  row'[r] = NewRow("fired", Grace)
<1>1. fired \in Int
  BY BoundsAssumption DEF TypeOK
<1>2. FireCommit
  <2>1. Delete => fired' = fired
    BY Zenon DEF Delete
  <2> QED BY <1>1, <2>1, OnlyFires
<1>3. row'[r] = CASE r = fired -> IF fired > 0 /\ Unresolved(BarrierRow)
                                   THEN Superseded(BarrierRow) ELSE BarrierRow
                  [] r = fired + 1 -> NewRow("fired", Grace)
                  [] OTHER -> row[r]
  BY <1>2 DEF FireCommit
<1>4. r # fired
  BY <1>1
<1> QED BY <1>3, <1>4

LEMMA StandingStep ==
    ASSUME TypeOK, FireInv, Unheard, Standing, [Next]_vars
    PROVE  Standing'
<1> SUFFICES ASSUME NEW r \in Runs
             PROVE  /\ r <= fired' => row'[r].state # "none"
                    /\ row'[r].state \in {"none", "fired"} => row'[r].watch = NoTime
                    /\ row'[r].state = "acknowledged" => row'[r].ackLogged
                    /\ row'[r].state = "running" => row'[r].runLogged
  BY DEF Standing
<1>1. row[r] \in Rows /\ fired \in Int /\ r \in Int /\ fired' \in {fired, fired + 1}
  <2>1. row \in [Runs -> Rows] /\ fired \in 0..MaxRuns
    BY Zenon DEF TypeOK
  <2>2. r \in 1..MaxRuns /\ MaxRuns \in Nat
    BY BoundsAssumption DEF Runs
  <2>3. row[r] \in Rows /\ fired \in Int /\ r \in Int
    BY <2>1, <2>2
  <2>4. fired' \in {fired, fired + 1}
    BY CurrentMoves
  <2> QED BY <2>3, <2>4
<1>2. RowStep(r)
  BY RowSteps
<1>3. CASE Kept(r)
  <2>1. r <= fired' /\ row'[r].state = "none" => r = fired + 1 /\ fired' = fired + 1
    <3>1. r <= fired => row[r].state # "none"
      BY DEF Standing
    <3>2. row'[r].state = row[r].state
      BY <1>3 DEF Kept
    <3> QED BY <1>1, <3>1, <3>2
  <2>2. ASSUME r = fired + 1, fired' = fired + 1 PROVE row'[r].state = "fired"
    <3>1. row'[r] = NewRow("fired", Grace)
      BY <2>2, FireStarts
    <3>2. NewRow("fired", Grace).state = "fired"
      BY DEF NewRow
    <3> QED BY <3>1, <3>2
  <2>3. /\ row[r].state \in {"none", "fired"} => row[r].watch = NoTime
        /\ row[r].state = "acknowledged" => row[r].ackLogged
        /\ row[r].state = "running" => row[r].runLogged
    BY DEF Standing
  <2> QED BY <1>3, <2>1, <2>2, <2>3 DEF Kept
<1>4. CASE Hears(r)
  BY <1>4, FoldedStands DEF Hears, AppStates
<1>5. CASE Closes(r)
  <2>1. fired \in Runs /\ BarrierRow \in Rows
    BY <1>1, <1>5, IngestType DEF Closes, TypeOK, Fires, BarrierRow
  <2> QED BY <1>5, <2>1 DEF Closes, Superseded, Rows
<1>6. CASE Picked(r)
  BY <1>1, <1>6 DEF Picked, AckedRow, Rows
<1>7. CASE Lapses(r)
  BY <1>1, <1>7 DEF Lapses, Rows
<1>8. CASE TimesOut(r)
  BY <1>1, <1>8 DEF TimesOut, Rows
<1>9. CASE Cancelled(r)
  BY <1>1, <1>9 DEF Cancelled, Rows
<1>10. CASE Starts(r)
  BY <1>10 DEF Starts, NewRow
<1> QED BY <1>2, <1>3, <1>4, <1>5, <1>6, <1>7, <1>8, <1>9, <1>10 DEF RowStep

\* What the log has been told of a run grows by what a step tells.
LEMMA CountsTell ==
    ASSUME TypeOK, NEW r \in Runs, NEW K, Counts(r, K)
    PROVE  Announced(r)' = Announced(r) \union (K \intersect (AppStates \union Terminal))
<1>1. AppStates \union Terminal = Counted
  BY DEF Counted, LineKinds, AppStates, Terminal
<1>2. \A k \in Counted : /\ lines[r][k] \in Nat
                         /\ lines[r][k]' = lines[r][k] + IF k \in K THEN 1 ELSE 0
  <2>1. lines[r] \in [LineKinds -> Nat]
    BY Zenon DEF TypeOK
  <2>2. Counted \subseteq LineKinds
    BY DEF Counted
  <2> QED BY <2>1, <2>2 DEF Counts, Told
<1>3. \A k \in Counted : lines[r][k]' > 0 <=> lines[r][k] > 0 \/ k \in K
  BY <1>2
<1> QED BY <1>1, <1>3 DEF Announced

\* Where a run stands.
LEMMA PhaseOf ==
    ASSUME NEW w \in Rows
    PROVE  /\ w.state # "failed" => Phase(w) = w.state
           /\ w.state = "failed" /\ w.kind = "reported" => Phase(w) = "failed"
           /\ w.state = "failed" /\ w.kind # "reported" => Phase(w) = "timed_out"
           /\ Phase(w) \in Lifecycle!AppVerdicts <=> AppTerminal(w)
           /\ Unresolved(w) /\ w.state # "none" <=> Phase(w) \in Lifecycle!Open
           /\ Phase(w) \in Lifecycle!Open => Phase(w) = w.state
<1>1. w.state \in {"none", "fired", "acknowledged", "running", "completed", "failed", "no_ack",
                   "superseded", "cancelled"}
  BY DEF Rows, States, AppStates, Terminal
<1> QED BY <1>1 DEF Phase, AppTerminal, Unresolved, Terminal, Lifecycle!AppVerdicts, Lifecycle!Open

\* The log has been told where a run stands.
LEMMA StandsTold ==
    ASSUME TypeOK, LogInv, Standing, NEW r \in Runs
    PROVE  Lifecycle!Words(Phase(row[r])) \subseteq Announced(r)
<1> DEFINE s == row[r].state
<1>1. row[r] \in Rows /\ s \in States
  BY DEF TypeOK, Rows
<1>2. s \in AppStates \union Terminal => s \in Announced(r)
  <2>1. s \in Terminal => lines[r][s] > 0
    BY DEF LogInv, VerdictLogged
  <2>2. s = "acknowledged" => lines[r][s] = 1
    BY DEF LogInv, FlagsTell, Standing
  <2>3. s = "running" => lines[r][s] = 1
    BY DEF LogInv, FlagsTell, Standing
  <2>4. s \in AppStates => s \in Terminal \union {"acknowledged", "running"}
    BY DEF AppStates, Terminal
  <2>5. s \in AppStates \union Terminal => lines[r][s] > 0
    BY <2>1, <2>2, <2>3, <2>4
  <2> QED BY <2>5 DEF Announced
<1>3. Lifecycle!Words(Phase(row[r])) \subseteq {s} \intersect (AppStates \union Terminal)
  BY <1>1, PhaseOf DEF Lifecycle!Words, States, AppStates, Terminal
<1> QED BY <1>2, <1>3

\* A reply that is applied to the current run of a living timer is one the life cycle allows, and what
\* it tells the log is where the run comes to and, perhaps, that it was picked up.
LEMMA HeardAllowed ==
    ASSUME TypeOK, LogInv, Standing, live, NEW d \in Docs, NEW c \in Runs, c = fired,
           Outcome(c, d, c) = "applied"
    PROVE  LET p == Phase(Folded(c, d)) IN
           /\ p = d.state /\ p \in AppStates /\ Folded(c, d).state = p
           /\ p \in Lifecycle!MaySay(Phase(row[c]))
           /\ \E also \in Lifecycle!Pickups :
                 Announced(c) \union Says(c, d)
                    = Announced(c) \union Lifecycle!Words(p) \union also
<1> DEFINE w == row[c]
<1>1. w \in Rows /\ Folded(c, d) \in Rows
  <2>1. IngestRow(c, d, c) = Folded(c, d)
    BY DEF IngestRow
  <2> QED BY <2>1, IngestType DEF TypeOK
<1>2. /\ Folded(c, d).state = d.state /\ d.state \in AppStates
      /\ ~(AppTerminal(w) /\ d.state \in {"acknowledged", "running"})
      /\ d.state = "failed" => Folded(c, d).kind = "reported"
      /\ Says(c, d) \subseteq AppStates
      /\ d.state \in Terminal => d.state \in Says(c, d) \/ w.state = d.state
  BY SaysOnce
<1>3. Phase(Folded(c, d)) = d.state
  BY <1>1, <1>2, PhaseOf
<1>4. w.state \notin {"none", "superseded", "cancelled"}
  <2>1. c \in Int /\ c = fired /\ "superseded" \in Terminal /\ "cancelled" \in Terminal
    BY BoundsAssumption DEF TypeOK, Terminal
  <2>2. lines[c]["superseded"] = 0 /\ lines[c]["cancelled"] = 0
    BY <2>1 DEF LogInv, EndsOnce
  <2>3. w.state \in Terminal => lines[c][w.state] > 0
    BY DEF LogInv, VerdictLogged
  <2>4. w.state # "none"
    BY <2>1 DEF Standing
  <2> QED BY <2>1, <2>2, <2>3, <2>4
<1>5. d.state \in Lifecycle!MaySay(Phase(w))
  <2>1. Phase(w) \in Lifecycle!Open \union Lifecycle!Provisional \union Lifecycle!AppVerdicts
    BY <1>1, <1>4, PhaseOf
       DEF Rows, States, AppStates, Terminal, Lifecycle!Open, Lifecycle!Provisional, Lifecycle!AppVerdicts
  <2>2. AppTerminal(w) <=> Phase(w) \in Lifecycle!AppVerdicts
    BY <1>1, PhaseOf
  <2> QED BY <1>2, <2>1, <2>2
          DEF Lifecycle!MaySay, AppStates, Lifecycle!Open, Lifecycle!Provisional, Lifecycle!AppVerdicts
<1>6. d.state \in Announced(c) \union Says(c, d)
  <2>1. d.state = "acknowledged" => w.ackLogged \/ d.state \in Says(c, d)
    BY DEF Says, SaysAcknowledged
  <2>2. d.state = "running" => w.runLogged \/ d.state \in Says(c, d)
    BY DEF Says, SaysRunning
  <2>3. /\ w.ackLogged => lines[c]["acknowledged"] = 1
        /\ w.runLogged => lines[c]["running"] = 1
        /\ w.state \in Terminal => lines[c][w.state] > 0
    BY DEF LogInv, FlagsTell, VerdictLogged
  <2>4. \A k \in AppStates \union Terminal : lines[c][k] > 0 => k \in Announced(c)
    BY DEF Announced
  <2>5. "acknowledged" \in AppStates /\ "running" \in AppStates
        /\ d.state \in {"acknowledged", "running"} \union Terminal
    BY <1>2 DEF AppStates, Terminal
  <2>6. CASE d.state = "acknowledged"
    BY <2>1, <2>3, <2>4, <2>5, <2>6
  <2>7. CASE d.state = "running"
    BY <2>2, <2>3, <2>4, <2>5, <2>7
  <2>8. CASE d.state \in Terminal
    BY <1>2, <2>3, <2>4, <2>8
  <2> QED BY <2>5, <2>6, <2>7, <2>8
<1>7. Says(c, d) \subseteq {d.state, "acknowledged"}
  BY DEF Says, SaysAcknowledged, SaysRunning, SaysVerdict
<1>8. Lifecycle!Words(d.state) = {d.state}
  BY <1>2 DEF Lifecycle!Words, AppStates
<1>9. PICK also : also = Says(c, d) \intersect {"acknowledged"}
  OBVIOUS
<1>10. also \in Lifecycle!Pickups
  BY <1>9 DEF Lifecycle!Pickups
<1>11. Announced(c) \union Says(c, d) = Announced(c) \union {d.state} \union also
  BY <1>6, <1>7, <1>9
<1> QED BY <1>2, <1>3, <1>5, <1>8, <1>10, <1>11

\* Nothing is heard, lapses or is closed once the timer is gone.
LEMMA AfterDeletion ==
    ASSUME TypeOK, BusyWhileLive, [Next]_vars, ~live, NEW s \in Runs
    PROVE  Kept(s)
<1> USE DEF ledger, folder, appVars, watchVars, history
<1>0. ASSUME UNCHANGED <<row, lines>> PROVE Kept(s)
  BY <1>0, KeptSame
<1>1. CASE App
  <2>1. PICK r \in Runs : (\E d \in Docs : AppWrites(r, d) \/ AppSends(r, d)) \/ AppAcks(r)
    BY <1>1 DEF App
  <2> QED BY <2>1 DEF AppWrites, AppSends, AppAcks
<1>2. CASE SlotCommit \/ SlotHook \/ SlotsDone
  BY <1>0, <1>2 DEF SlotCommit, SlotHook, SlotsDone
<1>3. CASE BeginPoll \/ EndPoll \/ WatcherDue \/ Reconcile \/ UNCHANGED vars
  BY <1>0, <1>3 DEF BeginPoll, EndPoll, WatcherDue, Reconcile, vars
<1>4. ASSUME NEW r \in Runs, PollFile(r) PROVE Kept(s)
  <2>1. r \in toPoll /\ watcher = "polling"
    BY <1>4, Zenon DEF PollFile
  <2> QED BY <2>1 DEF BusyWhileLive
<1>5. CASE WatcherExpire \/ SchedExpire
  BY <1>0, <1>5 DEF WatcherExpire, SchedExpire
<1>6. ASSUME NEW r, NEW k, SchedPop(r, k) PROVE Kept(s)
  BY <1>0, <1>6 DEF SchedPop
<1>7. ASSUME NEW by, FireBegin(by) PROVE Kept(s)
  BY <1>0, <1>7 DEF FireBegin
<1>8. ~FireCommit /\ ~Delete
  <2>1. (FireCommit => fire.pc = "read") /\ (Delete => live)
    BY Zenon DEF FireCommit, Delete
  <2> QED BY <2>1 DEF BusyWhileLive
<1>9. CASE FireAbort \/ FireProject
  BY <1>0, <1>9 DEF FireAbort, FireProject
<1>10. CASE Tick \/ JumpWall(Jump) \/ JumpWall(-Jump)
  <2>1. UNCHANGED lines /\ (AgeRows(1) \/ AgeRows(Jump) \/ AgeRows(-Jump))
    BY <1>10 DEF Tick, JumpWall
  <2> QED BY <2>1, AgedRows
<1>11. CASE CrashApp \/ CrashCli \/ Boot
  BY <1>0, <1>11 DEF CrashApp, CrashCli, Boot
<1> QED BY <1>1, <1>2, <1>3, <1>4, <1>5, <1>6, <1>7, <1>8, <1>9, <1>10, <1>11
        DEF Next, Watch, Fire, Fail

\* A run that is kept stands where it stood.
LEMMA KeptStands ==
    ASSUME TypeOK, TypeOK', NEW r \in Runs, Kept(r)
    PROVE  Phase(row'[r]) = Phase(row[r]) /\ Announced(r)' = Announced(r)
<1>1. Announced(r)' = Announced(r)
  BY CountsTell DEF Kept
<1>2. Phase(row'[r]) = Phase(row[r])
  BY DEF Kept, Phase
<1> QED BY <1>1, <1>2

\* One run comes to p, the others are kept.
LEMMA OneComes ==
    ASSUME TypeOK, TypeOK', NEW c \in Runs, c = fired, NEW p, NEW also,
           Phase(row'[c]) = p,
           Announced(c)' = Announced(c) \union Lifecycle!Words(p) \union also,
           \A s \in Runs \ {c} : Kept(s)
    PROVE  Lifecycle!Comes(p, also)
<1>1. \A s \in Runs \ {c} : Phase(row'[s]) = Phase(row[s]) /\ Announced(s)' = Announced(s)
  BY KeptStands
<1>2. [r \in Runs |-> Phase(row[r])]' = [[r \in Runs |-> Phase(row[r])] EXCEPT ![c] = p]
  BY <1>1
<1>3. PICK a : a = [r \in Runs |-> Announced(r)]
  OBVIOUS
<1>4. \A r \in Runs : Announced(r)' = IF r = c THEN a[c] \union Lifecycle!Words(p) \union also ELSE a[r]
  BY <1>1, <1>3
<1>5. [r \in Runs |-> Announced(r)]'
        = [r \in Runs |-> IF r = c THEN a[c] \union Lifecycle!Words(p) \union also ELSE a[r]]
  BY <1>4
<1>6. [r \in Runs |-> Announced(r)]' = [a EXCEPT ![c] = @ \union Lifecycle!Words(p) \union also]
  BY <1>3, <1>5
<1> QED BY <1>2, <1>3, <1>6 DEF Lifecycle!Comes

\* A step that neither fires nor deletes moves the current run at most.
LEMMA CurrentComes ==
    ASSUME TypeOK, TypeOK', FireInv, LogInv, LifeInv, [Next]_vars, UNCHANGED <<live, fired>>
    PROVE  Lifecycle!Next \/ UNCHANGED Lifecycle!vars
<1>0. fired \in Int
  BY BoundsAssumption DEF TypeOK
<1>1. \A s \in Runs \ {fired} : Kept(s)
  <2> SUFFICES ASSUME NEW s \in Runs \ {fired} PROVE Kept(s)
    OBVIOUS
  <2>1. RowStep(s)
    BY RowSteps
  <2> QED BY <1>0, <2>1
          DEF RowStep, Hears, Closes, Picked, Lapses, TimesOut, Cancelled, Starts
<1>2. CASE \A s \in Runs : Kept(s)
  <2>1. \A s \in Runs : Phase(row'[s]) = Phase(row[s]) /\ Announced(s)' = Announced(s)
    BY <1>2, KeptStands
  <2>2. [r \in Runs |-> Phase(row[r])]' = [r \in Runs |-> Phase(row[r])]
    BY <2>1
  <2>3. [r \in Runs |-> Announced(r)]' = [r \in Runs |-> Announced(r)]
    BY <2>1
  <2> QED BY <2>2, <2>3 DEF Lifecycle!vars
<1>3. CASE ~\A s \in Runs : Kept(s)
  <2> PICK c \in Runs : ~Kept(c)
    BY <1>3
  <2>1. c \in Runs /\ c # 0 /\ c = fired
    <3>1. c \in Runs \ {fired} => Kept(c)
      BY <1>1
    <3> QED BY <3>1 DEF Runs
  <2>2. live
    BY <2>1, AfterDeletion DEF LifeInv
  <2>3. Hears(c) \/ Picked(c) \/ Lapses(c) \/ TimesOut(c)
    <3>1. RowStep(c)
      BY <2>1, RowSteps
    <3> QED BY <1>0, <2>1, <2>2, <3>1 DEF RowStep, Closes, Cancelled, Starts
  <2>4. row[c] \in Rows /\ row'[c] \in Rows
    BY <2>1 DEF TypeOK
  <2>5. CASE Hears(c)
    <3>1. PICK d \in Docs : /\ Outcome(c, d, c) = "applied"
                            /\ row'[c] = Folded(c, d) /\ Counts(c, Says(c, d))
      BY <2>5 DEF Hears
    <3>2. PICK p : p = Phase(Folded(c, d))
      OBVIOUS
    <3>3. PICK also \in Lifecycle!Pickups :
             Announced(c) \union Says(c, d)
                = Announced(c) \union Lifecycle!Words(p) \union also
      BY <2>1, <2>2, <3>1, <3>2, HeardAllowed DEF LifeInv
    <3>4. p \in Lifecycle!MaySay(Phase(row[c]))
      BY <2>1, <2>2, <3>1, <3>2, HeardAllowed DEF LifeInv
    <3>5. Announced(c)' = Announced(c) \union Says(c, d)
      <4>1. Says(c, d) \subseteq AppStates
        BY <2>1, <3>1, SaysOnce
      <4>2. PICK K : K = Says(c, d)
        OBVIOUS
      <4>3. Counts(c, K)
        BY <3>1, <4>2 DEF Counts, Told
      <4>4. Announced(c)' = Announced(c) \union (K \intersect (AppStates \union Terminal))
        BY <2>1, <4>3, CountsTell
      <4> QED BY <4>1, <4>2, <4>4
    <3>6. Lifecycle!Comes(p, also)
      BY <1>1, <2>1, <3>1, <3>2, <3>3, <3>5, OneComes
    <3>7. Lifecycle!Report
      BY <2>1, <2>2, <3>3, <3>4, <3>6 DEF Lifecycle!Report
    <3> QED BY <3>7 DEF Lifecycle!Next
  <2>6. CASE Picked(c)
    <3>1. /\ row[c].state \in {"fired", "no_ack"} /\ row'[c].state = "acknowledged"
          /\ Counts(c, AckLines(c))
      BY <2>4, <2>6 DEF Picked, AckedRow, Rows
    <3>2. Phase(row'[c]) = "acknowledged" /\ Phase(row[c]) \in {"fired", "no_ack"}
      BY <2>4, <3>1, PhaseOf
    <3>3. Announced(c)' = Announced(c) \union {"acknowledged"}
      <4>1. AckLines(c) \subseteq {"acknowledged"} /\ "acknowledged" \in AppStates
        BY DEF AckLines, AppStates
      <4>2. Announced(c)' = Announced(c) \union AckLines(c)
        <5>1. PICK K : K = AckLines(c)
          OBVIOUS
        <5>2. Counts(c, K)
          BY <3>1, <5>1 DEF Counts, Told
        <5>3. Announced(c)' = Announced(c) \union (K \intersect (AppStates \union Terminal))
          BY <2>1, <5>2, CountsTell
        <5> QED BY <4>1, <5>1, <5>3
      <4>3. row[c].ackLogged => lines[c]["acknowledged"] = 1
        BY <2>1 DEF LogInv, FlagsTell
      <4>4. row[c].ackLogged => "acknowledged" \in Announced(c)
        BY <4>1, <4>3 DEF Announced
      <4> QED BY <4>1, <4>2, <4>4 DEF AckLines
    <3>4. Lifecycle!Words("acknowledged") = {"acknowledged"} /\ {} \in Lifecycle!Pickups
      BY DEF Lifecycle!Words, Lifecycle!Pickups
    <3>5. Lifecycle!Comes("acknowledged", {})
      BY <1>1, <2>1, <3>2, <3>3, <3>4, OneComes
    <3>6. "acknowledged" \in Lifecycle!MaySay(Phase(row[c]))
      <4>1. PICK q : q = Phase(row[c])
        OBVIOUS
      <4>2. q \in Lifecycle!Open \union Lifecycle!Provisional
        BY <3>2, <4>1 DEF Lifecycle!Open, Lifecycle!Provisional
      <4>3. "acknowledged" \in Lifecycle!MaySay(q)
        BY <4>2 DEF Lifecycle!MaySay, Lifecycle!Open, Lifecycle!Provisional, Lifecycle!AppVerdicts
      <4> QED BY <4>1, <4>3
    <3>7. Lifecycle!Report
      BY <2>1, <2>2, <3>4, <3>5, <3>6 DEF Lifecycle!Report
    <3> QED BY <3>7 DEF Lifecycle!Next
  <2>7. CASE Lapses(c)
    <3>1. row[c].state = "fired" /\ row'[c].state = "no_ack" /\ Counts(c, {"no_ack"})
      BY <2>4, <2>7 DEF Lapses, Rows
    <3>2. Phase(row'[c]) = "no_ack" /\ Phase(row[c]) = "fired"
      BY <2>4, <3>1, PhaseOf
    <3>3. Announced(c)' = Announced(c) \union Lifecycle!Words("no_ack") \union {}
      BY <2>1, <3>1, CountsTell DEF Terminal, Lifecycle!Words
    <3>4. Lifecycle!Comes("no_ack", {})
      <4>1. Phase(row'[c]) = "no_ack"
        BY <3>2
      <4> QED BY <1>1, <2>1, <3>3, <4>1, OneComes
    <3>5. Lifecycle!PickupLapses
      BY <2>1, <2>2, <3>2, <3>4 DEF Lifecycle!PickupLapses
    <3> QED BY <3>5 DEF Lifecycle!Next
  <2>8. CASE TimesOut(c)
    <3>1. /\ Unresolved(row[c]) /\ row[c].watch # NoTime
          /\ row'[c].state = "failed" /\ row'[c].kind = "timed_out"
          /\ Counts(c, {"failed"})
      BY <2>4, <2>8 DEF TimesOut, Rows
    <3>2. row[c].state \notin {"none", "fired"}
      BY <2>1, <3>1 DEF LifeInv, Standing
    <3>3. Phase(row'[c]) = "timed_out" /\ Phase(row[c]) \in {"acknowledged", "running"}
      BY <2>4, <3>1, <3>2, PhaseOf DEF Lifecycle!Open
    <3>4. Announced(c)' = Announced(c) \union Lifecycle!Words("timed_out") \union {}
      BY <2>1, <3>1, CountsTell DEF AppStates, Lifecycle!Words
    <3>5. Lifecycle!Comes("timed_out", {})
      BY <1>1, <2>1, <3>3, <3>4, OneComes
    <3>6. Lifecycle!TimesOut
      BY <2>1, <2>2, <3>3, <3>5 DEF Lifecycle!TimesOut
    <3> QED BY <3>6 DEF Lifecycle!Next
  <2> QED BY <2>3, <2>5, <2>6, <2>7, <2>8
<1> QED BY <1>2, <1>3

\* What a fire makes of the run before it: the reply that waits is heard, and what is still open then
\* is superseded.
LEMMA FireCloses ==
    ASSUME TypeOK, TypeOK', LogInv, Standing, live, FireCommit, NEW c \in Runs, c = fired
    PROVE  LET stands == Phase(row[c]) IN
           \E p \in {stands} \union Lifecycle!MaySay(stands), also \in Lifecycle!Pickups :
              /\ Phase(row'[c]) = Lifecycle!Closed(p)
              /\ Announced(c)' = Announced(c) \union Lifecycle!Words(p)
                                   \union Lifecycle!Words(Lifecycle!Closed(p)) \union also
<1> DEFINE closes == Unresolved(BarrierRow)
           K == BarrierLines \union IF closes THEN {"superseded"} ELSE {}
<1>1. /\ row'[c] = IF closes THEN Superseded(BarrierRow) ELSE BarrierRow
      /\ lines'[c] = Told(c, K)
  <2>1. fired > 0 /\ c # fired + 1
    BY BoundsAssumption DEF Runs
  <2>2. row' = [r \in Runs |->
                CASE r = fired -> IF fired > 0 /\ closes THEN Superseded(BarrierRow) ELSE BarrierRow
                  [] r = fired + 1 -> NewRow("fired", Grace)
                  [] OTHER -> row[r]]
    BY DEF FireCommit
  <2>3. lines' = [r \in Runs |->
                IF r = fired
                THEN Told(r, BarrierLines \union IF fired > 0 /\ closes THEN {"superseded"} ELSE {})
                ELSE lines[r]]
    BY DEF FireCommit
  <2>4. row'[c] = IF closes THEN Superseded(BarrierRow) ELSE BarrierRow
    BY <2>1, <2>2
  <2>5. lines'[c] = Told(c, K)
    BY <2>1, <2>3
  <2> QED BY <2>4, <2>5
<1>2. row[c] \in Rows /\ row'[c] \in Rows /\ row[c].state # "none"
  BY BoundsAssumption DEF TypeOK, Standing
<1>3. Announced(c)' = Announced(c) \union (K \intersect (AppStates \union Terminal))
  <2>1. PICK k : k = K
    OBVIOUS
  <2>2. Counts(c, k)
    BY <1>1, <2>1 DEF Counts
  <2>3. Announced(c)' = Announced(c) \union (k \intersect (AppStates \union Terminal))
    BY <2>2, CountsTell
  <2> QED BY <2>1, <2>3
<1>4. BarrierRow \in Rows
  BY IngestType DEF TypeOK, Fires, BarrierRow
<1>5. ASSUME NEW p, NEW also \in Lifecycle!Pickups, p # "none",
             p \in {Phase(row[c])} \union Lifecycle!MaySay(Phase(row[c])),
             Phase(BarrierRow) = p,
             Announced(c) \union (BarrierLines \intersect (AppStates \union Terminal))
                = Announced(c) \union Lifecycle!Words(p) \union also
      PROVE  /\ Phase(row'[c]) = Lifecycle!Closed(p)
             /\ Announced(c)' = Announced(c) \union Lifecycle!Words(p)
                                  \union Lifecycle!Words(Lifecycle!Closed(p)) \union also
  <2>1. BarrierRow.state # "none"
    BY <1>4, <1>5, PhaseOf
  <2>2. CASE closes
    <3>1. p \in Lifecycle!Open
      BY <1>4, <1>5, <2>1, <2>2, PhaseOf
    <3>2. Lifecycle!Closed(p) = "superseded" /\ Lifecycle!Words("superseded") = {"superseded"}
      BY <3>1 DEF Lifecycle!Closed, Lifecycle!Words
    <3>3. row'[c].state = "superseded"
      BY <1>1, <1>4, <2>2 DEF Superseded, Rows
    <3>4. Phase(row'[c]) = "superseded"
      BY <1>2, <3>3, PhaseOf
    <3>5. K \intersect (AppStates \union Terminal)
             = (BarrierLines \intersect (AppStates \union Terminal)) \union {"superseded"}
      BY <2>2 DEF Terminal
    <3> QED BY <1>3, <1>5, <3>2, <3>4, <3>5
  <2>3. CASE ~closes
    <3>1. p \notin Lifecycle!Open
      BY <1>4, <1>5, <2>3, PhaseOf
    <3>2. Lifecycle!Closed(p) = p
      BY <3>1 DEF Lifecycle!Closed
    <3>3. Phase(row'[c]) = p
      BY <1>1, <1>5, <2>3
    <3>4. K = BarrierLines
      BY <2>3
    <3> QED BY <1>3, <1>5, <3>2, <3>3, <3>4
  <2> QED BY <2>2, <2>3
<1>6. CASE /\ fire.doc \in Docs /\ Outcome(c, fire.doc, c) = "applied"
           /\ BarrierRow = Folded(c, fire.doc) /\ BarrierLines = Says(c, fire.doc)
  <2>1. PICK d \in Docs : d = fire.doc
    BY <1>6
  <2>2. Outcome(c, d, c) = "applied" /\ BarrierRow = Folded(c, d) /\ BarrierLines = Says(c, d)
    BY <1>6, <2>1
  <2>3. PICK p : p = Phase(Folded(c, d))
    OBVIOUS
  <2>4. /\ p = d.state /\ p \in AppStates
        /\ p \in Lifecycle!MaySay(Phase(row[c]))
    BY <2>2, <2>3, HeardAllowed
  <2>5. PICK also \in Lifecycle!Pickups :
           Announced(c) \union Says(c, d) = Announced(c) \union Lifecycle!Words(p) \union also
    BY <2>2, <2>3, HeardAllowed
  <2>6. BarrierLines \intersect (AppStates \union Terminal) = Says(c, d)
    BY <2>2, SaysOnce
  <2>7. p # "none"
    BY <2>4 DEF AppStates
  <2>8. /\ Phase(row'[c]) = Lifecycle!Closed(p)
        /\ Announced(c)' = Announced(c) \union Lifecycle!Words(p)
                             \union Lifecycle!Words(Lifecycle!Closed(p)) \union also
    <3>1. Phase(BarrierRow) = p
      BY <2>2, <2>3
    <3>2. Announced(c) \union (BarrierLines \intersect (AppStates \union Terminal))
             = Announced(c) \union Lifecycle!Words(p) \union also
      BY <2>5, <2>6
    <3> QED BY <1>5, <2>4, <2>7, <3>1, <3>2
  <2> QED BY <2>4, <2>8
<1>7. CASE /\ BarrierLines \subseteq {"late", "rejected"}
           /\ BarrierRow.state = row[c].state /\ BarrierRow.kind = row[c].kind
  <2>1. PICK p : p = Phase(row[c])
    OBVIOUS
  <2>2. Phase(BarrierRow) = p
    BY <1>7, <2>1 DEF Phase
  <2>3. p # "none"
    BY <1>2, <2>1, PhaseOf
  <2>4. Lifecycle!Words(p) \subseteq Announced(c)
    BY <2>1, StandsTold
  <2>5. BarrierLines \intersect (AppStates \union Terminal) = {}
    BY <1>7 DEF AppStates, Terminal
  <2>6. {} \in Lifecycle!Pickups
    BY DEF Lifecycle!Pickups
  <2>7. /\ Phase(row'[c]) = Lifecycle!Closed(p)
        /\ Announced(c)' = Announced(c) \union Lifecycle!Words(p)
                             \union Lifecycle!Words(Lifecycle!Closed(p)) \union {}
    BY <1>5, <2>1, <2>2, <2>3, <2>4, <2>5, <2>6
  <2> QED BY <2>1, <2>6, <2>7
<1> QED BY <1>6, <1>7, BarrierHears

\* A fire hears what waits for the run before, closes that run if it is open, and starts its own.
LEMMA FireLives ==
    ASSUME TypeOK, TypeOK', FireInv, LogInv, LifeInv, [Next]_vars, FireCommit
    PROVE  Lifecycle!Fire
<1>1. live /\ live' = live /\ fired' = fired + 1 /\ fired \in Nat /\ fired' \in 0..MaxRuns
  <2>1. fire.pc = "read" /\ live' = live /\ fired' = fired + 1
    BY DEF FireCommit, ledger
  <2>2. live
    BY <2>1 DEF LifeInv, BusyWhileLive
  <2>3. fired \in 0..MaxRuns /\ fired' \in 0..MaxRuns
    BY Zenon DEF TypeOK
  <2> QED BY <2>1, <2>2, <2>3, BoundsAssumption
<1>2. fired < MaxRuns
  BY <1>1, BoundsAssumption
<1>3. PICK c \in 0..MaxRuns : c = fired
  BY Zenon DEF TypeOK
<1>4. c + 1 \in Runs /\ c \in Nat
  BY <1>1, <1>2, <1>3, BoundsAssumption DEF Runs
<1>5. Phase(row'[c + 1]) = "fired" /\ Announced(c + 1)' = Announced(c + 1)
  <2>1. row'[c + 1] = NewRow("fired", Grace)
    BY <1>1, <1>3, <1>4, FireStarts
  <2>2. RowStep(c + 1)
    BY <1>4, RowSteps
  <2>3. Counts(c + 1, {})
    BY <1>3, <1>4, <2>2 DEF RowStep, Kept, Hears, Closes, Picked, Lapses, TimesOut, Cancelled, Starts
  <2>4. Announced(c + 1)' = Announced(c + 1)
    BY <1>4, <2>3, CountsTell
  <2>5. Phase(row'[c + 1]) = "fired"
    BY <2>1 DEF Phase, NewRow
  <2> QED BY <2>4, <2>5
<1>6. \A s \in Runs : s # c /\ s # c + 1 =>
         Phase(row'[s]) = Phase(row[s]) /\ Announced(s)' = Announced(s)
  <2> SUFFICES ASSUME NEW s \in Runs, s # c, s # c + 1
               PROVE  Phase(row'[s]) = Phase(row[s]) /\ Announced(s)' = Announced(s)
    OBVIOUS
  <2>1. RowStep(s)
    BY RowSteps
  <2>2. Kept(s)
    BY <1>3, <2>1 DEF RowStep, Hears, Closes, Picked, Lapses, TimesOut, Cancelled, Starts
  <2> QED BY <2>2, KeptStands
<1>7. PICK stands : stands = IF c = 0 THEN "none" ELSE Phase(row[c])
  OBVIOUS
<1>8. \E p \in {stands} \union Lifecycle!MaySay(stands), also \in Lifecycle!Pickups :
         c \in Runs => /\ Phase(row'[c]) = Lifecycle!Closed(p)
                      /\ Announced(c)' = Announced(c) \union Lifecycle!Words(p)
                                           \union Lifecycle!Words(Lifecycle!Closed(p)) \union also
  <2>1. CASE c \notin Runs
    <3>1. {} \in Lifecycle!Pickups
      BY DEF Lifecycle!Pickups
    <3> QED BY <2>1, <3>1
  <2>2. CASE c \in Runs
    <3>1. stands = Phase(row[c])
      BY <1>7, <2>2, BoundsAssumption DEF Runs
    <3>2. \E p \in {Phase(row[c])} \union Lifecycle!MaySay(Phase(row[c])), also \in Lifecycle!Pickups :
             /\ Phase(row'[c]) = Lifecycle!Closed(p)
             /\ Announced(c)' = Announced(c) \union Lifecycle!Words(p)
                                  \union Lifecycle!Words(Lifecycle!Closed(p)) \union also
      BY <1>1, <1>3, <2>2, FireCloses DEF LifeInv
    <3> QED BY <3>1, <3>2
  <2> QED BY <2>1, <2>2
<1>9. PICK p \in {stands} \union Lifecycle!MaySay(stands), also \in Lifecycle!Pickups :
         c \in Runs => /\ Phase(row'[c]) = Lifecycle!Closed(p)
                      /\ Announced(c)' = Announced(c) \union Lifecycle!Words(p)
                                           \union Lifecycle!Words(Lifecycle!Closed(p)) \union also
  BY <1>8
<1> DEFINE ph == [r \in Runs |-> Phase(row[r])]
           an == [r \in Runs |-> Announced(r)]
<1>10. ph' = [r \in Runs |-> CASE r = c -> Lifecycle!Closed(p)
                               [] r = c + 1 -> "fired"
                               [] OTHER -> ph[r]]
  <2>1. \A r \in Runs : Phase(row'[r]) = CASE r = c -> Lifecycle!Closed(p)
                                           [] r = c + 1 -> "fired"
                                           [] OTHER -> ph[r]
    BY <1>4, <1>5, <1>6, <1>9
  <2> QED BY <2>1
<1>11. an' = [r \in Runs |-> IF r = c
                             THEN an[r] \union Lifecycle!Words(p)
                                        \union Lifecycle!Words(Lifecycle!Closed(p)) \union also
                             ELSE an[r]]
  <2>1. \A r \in Runs : Announced(r)' = IF r = c
                             THEN an[r] \union Lifecycle!Words(p)
                                        \union Lifecycle!Words(Lifecycle!Closed(p)) \union also
                             ELSE an[r]
    BY <1>4, <1>5, <1>6, <1>9
  <2> QED BY <2>1
<1>12. stands = IF fired = 0 THEN "none" ELSE ph[fired]
  <2>1. c # 0 => c \in Runs
    BY <1>4, BoundsAssumption DEF Runs
  <2> QED BY <1>3, <1>7, <2>1
<1>13. ph' = [r \in Runs |-> CASE r = fired -> Lifecycle!Closed(p)
                               [] r = fired + 1 -> "fired"
                               [] OTHER -> ph[r]]
  BY <1>3, <1>10
<1>14. an' = [r \in Runs |-> IF r = fired
                             THEN an[r] \union Lifecycle!Words(p)
                                        \union Lifecycle!Words(Lifecycle!Closed(p)) \union also
                             ELSE an[r]]
  BY <1>3, <1>11
<1> HIDE DEF ph, an
<1> DEFINE base == IF fired = 0 THEN "none" ELSE ph[fired]
<1>15. \E q \in {base} \union Lifecycle!MaySay(base), more \in Lifecycle!Pickups :
          /\ ph' = [r \in Runs |-> CASE r = fired -> Lifecycle!Closed(q)
                                     [] r = fired + 1 -> "fired"
                                     [] OTHER -> ph[r]]
          /\ an' = [r \in Runs |-> IF r = fired
                                   THEN an[r] \union Lifecycle!Words(q)
                                          \union Lifecycle!Words(Lifecycle!Closed(q)) \union more
                                   ELSE an[r]]
  <2> HIDE DEF base
  <2>1. stands = base
    BY <1>12 DEF base
  <2>2. p \in {base} \union Lifecycle!MaySay(base)
    BY <1>9, <2>1
  <2> QED BY <1>9, <1>13, <1>14, <2>2
<1> QED BY <1>1, <1>2, <1>15, Zenon DEF ph, an, Lifecycle!Fire, Lifecycle!Runs, Runs

\* A deletion cancels the current run if it is open.
LEMMA DeleteLives ==
    ASSUME TypeOK, TypeOK', FireInv, LogInv, LifeInv, [Next]_vars, Delete
    PROVE  Lifecycle!Delete
<1>1. live /\ live' = FALSE /\ fired' = fired /\ fired \in 0..MaxRuns
  <2>1. live /\ live' = FALSE /\ fired' = fired
    BY Zenon DEF Delete
  <2> QED BY <2>1, Zenon DEF TypeOK
<1>2. PICK c \in 0..MaxRuns : c = fired
  BY <1>1
<1>3. c # 0 <=> c \in Runs
  BY BoundsAssumption DEF Runs
<1>4. \A r \in Runs : IF r = c /\ Unresolved(row[r]) THEN Cancelled(r) ELSE Kept(r)
  <2> SUFFICES ASSUME NEW r \in Runs
               PROVE  IF r = c /\ Unresolved(row[r]) THEN Cancelled(r) ELSE Kept(r)
    OBVIOUS
  <2> DEFINE closed == [row[r] EXCEPT !.state = "cancelled", !.pickup = NoTime, !.watch = NoTime]
  <2>1. /\ row'[r] = IF r = c /\ Unresolved(row[r]) THEN closed ELSE row[r]
        /\ lines'[r] = IF r = c /\ Unresolved(row[r]) THEN Told(r, {"cancelled"}) ELSE lines[r]
    <3>1. PICK S : S = {t \in {fired} \intersect Runs : Unresolved(row[t])}
      OBVIOUS
    <3>2. /\ row' = [s \in Runs |-> IF s \in S
                                     THEN [row[s] EXCEPT !.state = "cancelled", !.pickup = NoTime,
                                                         !.watch = NoTime]
                                     ELSE row[s]]
          /\ lines' = [s \in Runs |-> IF s \in S THEN Told(s, {"cancelled"}) ELSE lines[s]]
      BY <3>1, Zenon DEF Delete
    <3>3. r \in S <=> r = c /\ Unresolved(row[r])
      BY <1>2, <3>1
    <3>4. /\ row'[r] = IF r \in S THEN closed ELSE row[r]
          /\ lines'[r] = IF r \in S THEN Told(r, {"cancelled"}) ELSE lines[r]
      BY <3>2, Zenon
    <3> QED BY <3>3, <3>4, Zenon
  <2>2. CASE r = c /\ Unresolved(row[r])
    BY <1>1, <1>2, <2>1, <2>2 DEF Cancelled, Counts
  <2>3. CASE ~(r = c /\ Unresolved(row[r]))
    BY <2>1, <2>3, KeptSame
  <2> QED BY <2>2, <2>3
<1>5. CASE c \in Runs /\ Unresolved(row[c])
  <2>1. row[c] \in Rows /\ row'[c] \in Rows
    BY <1>5 DEF TypeOK
  <2>2. row[c].state # "none"
    BY <1>2, <1>3, <1>5, BoundsAssumption DEF LifeInv, Standing, Runs
  <2>3. row'[c].state = "cancelled" /\ Counts(c, {"cancelled"})
    <3>1. Cancelled(c)
      BY <1>4, <1>5
    <3> QED BY <2>1, <3>1 DEF Cancelled, Rows
  <2>4. Phase(row'[c]) = "cancelled"
    BY <2>1, <2>3, PhaseOf
  <2>5. Phase(row[c]) \in Lifecycle!Open
    BY <1>5, <2>1, <2>2, PhaseOf
  <2>6. Announced(c)' = Announced(c) \union Lifecycle!Words("cancelled") \union {}
    BY <1>5, <2>3, CountsTell DEF Terminal, Lifecycle!Words
  <2>7. Lifecycle!Comes("cancelled", {})
    <3>1. \A s \in Runs \ {c} : Kept(s)
      BY <1>4
    <3>2. c \in Runs /\ c = fired
      BY <1>2, <1>5
    <3> QED BY <2>4, <2>6, <3>1, <3>2, OneComes
  <2> QED BY <1>1, <1>2, <1>3, <1>5, <2>5, <2>7 DEF Lifecycle!Delete
<1>6. CASE ~(c \in Runs /\ Unresolved(row[c]))
  <2>1. \A r \in Runs : Phase(row'[r]) = Phase(row[r]) /\ Announced(r)' = Announced(r)
    BY <1>4, <1>6, KeptStands
  <2>2. /\ [r \in Runs |-> Phase(row[r])]' = [r \in Runs |-> Phase(row[r])]
        /\ [r \in Runs |-> Announced(r)]' = [r \in Runs |-> Announced(r)]
    BY <2>1
  <2>3. ~(c # 0 /\ Phase(row[c]) \in Lifecycle!Open)
    <3>1. ASSUME c \in Runs PROVE Phase(row[c]) \notin Lifecycle!Open
      <4>1. row[c] \in Rows
        BY <3>1 DEF TypeOK
      <4> QED BY <1>6, <3>1, <4>1, PhaseOf
    <3> QED BY <1>3, <3>1
  <2> QED BY <1>1, <1>2, <1>3, <2>2, <2>3 DEF Lifecycle!Delete
<1> QED BY <1>5, <1>6

\* What the refinement rests on holds of every reachable state.
LEMMA Lives == Spec => [](IInv /\ LifeInv)
<1>1. IInv /\ LifeInv /\ [Next]_vars => LifeInv'
  BY BusyStep, StandingStep DEF IInv, LogInv, LifeInv
<1> QED BY <1>1, LifeInit, Invariant, PTL DEF Spec

\* Whatever transport speaks of a run and whatever fails, the runs of a timer live the abstract life
\* cycle and the log follows it (engine.rs; tree/mod.rs, project_fire; R10).
THEOREM ReplyImplementsLifecycle == Spec => ImplementsLifecycle
<1>1. Init => Lifecycle!Init
  <2> SUFFICES ASSUME Init PROVE Lifecycle!Init
    OBVIOUS
  <2>1. \A r \in Runs : Phase(row[r]) = "none" /\ Announced(r) = {}
    <3> SUFFICES ASSUME NEW r \in Runs PROVE Phase(row[r]) = "none" /\ Announced(r) = {}
      OBVIOUS
    <3>1. row[r].state = "none"
      BY DEF Init, NewRow
    <3>2. \A k \in AppStates \union Terminal : lines[r][k] = 0
      BY DEF Init, LineKinds
    <3> QED BY <3>1, <3>2 DEF Phase, Announced
  <2>2. live = TRUE /\ fired = 0
    BY DEF Init
  <2> QED BY <2>1, <2>2 DEF Lifecycle!Init, Lifecycle!Runs, Runs
<1>2. ASSUME IInv, LifeInv, IInv', [Next]_vars
      PROVE  Lifecycle!Next \/ UNCHANGED Lifecycle!vars
  <2>1. TypeOK /\ TypeOK' /\ FireInv /\ LogInv
    BY <1>2 DEF IInv
  <2>2. CASE FireCommit
    BY <1>2, <2>1, <2>2, FireLives DEF Lifecycle!Next
  <2>3. CASE Delete
    BY <1>2, <2>1, <2>3, DeleteLives DEF Lifecycle!Next
  <2>4. CASE UNCHANGED <<live, fired>>
    BY <1>2, <2>1, <2>4, CurrentComes
  <2> QED BY <1>2, <2>2, <2>3, <2>4, OnlyFires
<1>3. IInv /\ LifeInv /\ IInv' /\ [Next]_vars => [Lifecycle!Next]_(Lifecycle!vars)
  BY <1>2
<1> QED BY <1>1, <1>3, Lives, PTL DEF Spec, ImplementsLifecycle, Lifecycle!Spec

=============================================================================
