-------------------------- MODULE SharedFileProofs --------------------------
(* The two places where Bellman works on files that others write as well: the *)
(* slots and the crontab.  They share no state; each has its own theorems.    *)
(*                                                                            *)
(* The slot channel, for any number of producers, consumers, slots, requests  *)
(* and faults.  The first two theorems rest on what the ledger says: a        *)
(* request changes the timers only in the transaction that enters it, and a   *)
(* consumer that answers has seen it there.  The third rests on the claim     *)
(* lock: what its holder finds on the name is a stub or nothing.              *)
(*                                                                            *)
(* The crontab, for any texts, command lines and edits.  A command that was   *)
(* not disturbed since its scan has read the text it replaces and finds its   *)
(* own line in it; the backup it made is the newest file, which no prune      *)
(* takes.                                                                     *)
EXTENDS SlotChannel, Crontab, SequenceTheorems, FiniteSetTheorems, WellFoundedInduction, TLAPS

\* The part of TypeOK the argument needs.
Typed ==
    /\ ledger \in [Requests -> {"none", "ok", "err"}]
    /\ times \in [Requests -> Nat]
    /\ done \in [Ids -> {Absent} \cup Requests]
    /\ at \in [Actors -> States]
    /\ read \in [Consumers -> {Stub} \cup Requests]

\* What is in the ledger changed the timers at most once, the rest never.
Entered == \A q \in Requests : times[q] <= IF ledger[q] = "none" THEN 0 ELSE 1

\* A consumer that applies has read a request; one that answers has it in the ledger.
Held ==
    \A c \in Consumers :
        /\ at[c] \in {"apply", "answer", "unlink"} => read[c] \in Requests
        /\ at[c] \in {"answer", "unlink"} => ledger[read[c]] # "none"

IInv == Typed /\ Entered /\ Held /\ AnswersAreDurable

LEMMA InitIInv == Init => IInv
BY DEF Init, IInv, Typed, Entered, Held, AnswersAreDurable, States, Actors

\* A step that leaves the ledger and the answers alone, and moves one actor to a state
\* in which it knows no more than before.
LEMMA Elsewhere ==
    ASSUME IInv, NEW a \in Actors, NEW s \in States,
           at' = [at EXCEPT ![a] = s], UNCHANGED <<ledger, times, done>>,
           read' \in [Consumers -> {Stub} \cup Requests],
           \A c \in Consumers \ {a} : read'[c] = read[c],
           a \in Consumers => /\ s \in {"apply", "answer", "unlink"} => read'[a] \in Requests
                              /\ s \in {"answer", "unlink"} => ledger[read'[a]] # "none"
    PROVE  IInv'
<1>1. Typed'
  BY DEF IInv, Typed
<1>2. Entered'
  BY DEF IInv, Entered
<1>3. Held'
  <2> SUFFICES ASSUME NEW c \in Consumers
               PROVE  /\ at'[c] \in {"apply", "answer", "unlink"} => read'[c] \in Requests
                      /\ at'[c] \in {"answer", "unlink"} => ledger'[read'[c]] # "none"
    BY DEF Held
  <2>1. CASE c = a
    BY <2>1 DEF IInv, Typed
  <2>2. CASE c # a
    <3>1. at'[c] = at[c] /\ read'[c] = read[c]
      BY <2>2 DEF IInv, Typed, Actors
    <3> QED BY <3>1 DEF IInv, Held
  <2> QED BY <2>1, <2>2
<1>4. AnswersAreDurable'
  BY DEF IInv, AnswersAreDurable
<1> QED BY <1>1, <1>2, <1>3, <1>4 DEF IInv

\* A step that touches nothing of this.
LEMMA Apart ==
    ASSUME IInv, UNCHANGED <<ledger, times, at, read>>, done' \in [Ids -> {Absent} \cup Requests],
           \A i \in Ids : done'[i] \in {done[i], Absent}
    PROVE  IInv'
BY DEF IInv, Typed, Entered, Held, AnswersAreDurable

LEMMA ProducerIInv ==
    ASSUME IInv, NEW p \in Producers, ProducerStep(p)
    PROVE  IInv'
<1> USE DEF Goto, dirs, db, States
<1>0. p \in Actors /\ p \notin Consumers
  BY SidesAssumption DEF Actors
<1>1. read \in [Consumers -> {Stub} \cup Requests]
  BY DEF IInv, Typed
<1>2. CASE ListFree(p)
  BY <1>0, <1>1, <1>2, Elsewhere DEF ListFree
<1>3. CASE NoFreeSlot(p)
  BY <1>0, <1>1, <1>3, Elsewhere DEF NoFreeSlot
<1>4. CASE TryLock(p)
  <2>1. CASE UNCHANGED at
    BY <1>4, <2>1, Apart DEF TryLock, IInv, Typed
  <2>2. CASE at' = [at EXCEPT ![p] = "stubbed"]
    BY <1>0, <1>1, <1>4, <2>2, Elsewhere DEF TryLock
  <2> QED BY <1>4, <2>1, <2>2 DEF TryLock
<1>5. CASE Rename(p)
  <2>1. CASE at' = [at EXCEPT ![p] = "scan"]
    BY <1>0, <1>1, <1>5, <2>1, Elsewhere DEF Rename
  <2>2. CASE at' = [at EXCEPT ![p] = "renamed"]
    BY <1>0, <1>1, <1>5, <2>2, Elsewhere DEF Rename
  <2> QED BY <1>5, <2>1, <2>2 DEF Rename
<1>6. CASE Verify(p)
  <2>1. CASE at' = [at EXCEPT ![p] = "claimed"]
    BY <1>0, <1>1, <1>6, <2>1, Elsewhere DEF Verify
  <2>2. CASE at' = [at EXCEPT ![p] = "scan"]
    BY <1>0, <1>1, <1>6, <2>2, Elsewhere DEF Verify
  <2> QED BY <1>6, <2>1, <2>2 DEF Verify
<1>7. CASE WriteRequest(p)
  BY <1>0, <1>1, <1>7, Elsewhere DEF WriteRequest
<1>8. CASE WriteFails(p)
  BY <1>0, <1>1, <1>8, Elsewhere DEF WriteFails
<1>9. CASE Publish(p)
  BY <1>0, <1>1, <1>9, Elsewhere DEF Publish
<1> QED BY <1>2, <1>3, <1>4, <1>5, <1>6, <1>7, <1>8, <1>9 DEF ProducerStep

\* The transaction: the request enters the ledger with its only effect.
LEMMA ExecuteIInv ==
    ASSUME IInv, NEW c \in Consumers, Execute(c)
    PROVE  IInv'
<1> DEFINE q == read[c]
<1>0. c \in Actors /\ q \in Requests
  BY DEF Execute, IInv, Held, Actors
<1>1. CASE ~Fresh(q)
  <2>1. UNCHANGED <<ledger, times, done, read>> /\ ledger[q] # "none"
    BY <1>1 DEF Execute, db, dirs, Fresh
  <2>2. at' = [at EXCEPT ![c] = "answer"] /\ "answer" \in States
    BY DEF Execute, Goto, States
  <2>3. read' \in [Consumers -> {Stub} \cup Requests]
    BY <2>1 DEF IInv, Typed
  <2> QED BY <1>0, <2>1, <2>2, <2>3, Elsewhere
<1>2. CASE Fresh(q)
  <2> DEFINE answer == IF Refused(q) THEN "err" ELSE "ok"
  <2>1. ledger' = [ledger EXCEPT ![q] = answer] /\ answer \in {"ok", "err"}
    BY <1>2 DEF Execute
  <2>2. UNCHANGED times \/ times' = [times EXCEPT ![q] = @ + 1]
    BY <1>2 DEF Execute, ApplyRequest
  <2>3. at' = [at EXCEPT ![c] = "answer"] /\ UNCHANGED <<read, done>>
    BY DEF Execute, Goto, dirs
  <2> HIDE DEF q, answer
  <2>4. Typed'
    BY <1>0, <2>1, <2>2, <2>3 DEF IInv, Typed, States
  <2>5. Entered'
    <3> SUFFICES ASSUME NEW r \in Requests
                 PROVE  times'[r] <= IF ledger'[r] = "none" THEN 0 ELSE 1
      BY DEF Entered
    <3>1. CASE r # q
      BY <1>0, <2>1, <2>2, <3>1 DEF IInv, Typed, Entered
    <3>2. CASE r = q
      <4>1. times[q] = 0
        BY <1>0, <1>2 DEF Fresh, IInv, Typed, Entered
      <4> QED BY <1>0, <2>1, <2>2, <3>2, <4>1 DEF IInv, Typed
    <3> QED BY <3>1, <3>2
  <2>6. \A r \in Requests : ledger[r] # "none" => ledger'[r] # "none"
    BY <1>0, <2>1 DEF IInv, Typed
  <2>7. Held'
    <3> SUFFICES ASSUME NEW b \in Consumers
                 PROVE  /\ at'[b] \in {"apply", "answer", "unlink"} => read'[b] \in Requests
                        /\ at'[b] \in {"answer", "unlink"} => ledger'[read'[b]] # "none"
      BY DEF Held
    <3>1. CASE b = c
      BY <1>0, <2>1, <2>3, <3>1 DEF IInv, Typed, q
    <3>2. CASE b # c
      <4>1. at'[b] = at[b] /\ read'[b] = read[b]
        BY <2>3, <3>2 DEF IInv, Typed, Actors
      <4> QED BY <2>6, <4>1 DEF IInv, Held
    <3> QED BY <3>1, <3>2
  <2>8. AnswersAreDurable'
    BY <2>3, <2>6 DEF IInv, Typed, AnswersAreDurable
  <2> QED BY <2>4, <2>5, <2>7, <2>8 DEF IInv
<1> QED BY <1>1, <1>2

\* The answer is written: its request is in the ledger.
LEMMA WriteDoneIInv ==
    ASSUME IInv, NEW c \in Consumers, WriteDone(c)
    PROVE  IInv'
<1>1. c \in Actors /\ read[c] \in Requests /\ ledger[read[c]] # "none"
  BY DEF WriteDone, IInv, Held, Actors
<1>2. /\ done' = [done EXCEPT ![id[c]] = read[c]]
      /\ at' = [at EXCEPT ![c] = "unlink"]
      /\ UNCHANGED <<ledger, times, read>>
  BY DEF WriteDone, Goto, db
<1>3. Typed'
  BY <1>1, <1>2 DEF IInv, Typed, States
<1>4. Entered'
  BY <1>2 DEF IInv, Entered
<1>5. Held'
  <2> SUFFICES ASSUME NEW b \in Consumers
               PROVE  /\ at'[b] \in {"apply", "answer", "unlink"} => read'[b] \in Requests
                      /\ at'[b] \in {"answer", "unlink"} => ledger'[read'[b]] # "none"
    BY DEF Held
  <2>1. CASE b = c
    BY <1>1, <1>2, <2>1
  <2>2. CASE b # c
    <3>1. at'[b] = at[b]
      BY <1>2, <2>2 DEF IInv, Typed, Actors
    <3> QED BY <1>2, <3>1 DEF IInv, Held
  <2> QED BY <2>1, <2>2
<1>6. AnswersAreDurable'
  <2> SUFFICES ASSUME NEW i \in Ids, done'[i] # Absent
               PROVE  ledger'[done'[i]] # "none"
    BY DEF AnswersAreDurable
  <2>1. CASE i = id[c]
    BY <1>1, <1>2, <2>1 DEF IInv, Typed
  <2>2. CASE i # id[c]
    BY <1>2, <2>2 DEF IInv, Typed, AnswersAreDurable
  <2> QED BY <2>1, <2>2
<1> QED BY <1>3, <1>4, <1>5, <1>6 DEF IInv

LEMMA ConsumerIInv ==
    ASSUME IInv, NEW c \in Consumers, ConsumerStep(c)
    PROVE  IInv'
<1> USE DEF Goto, dirs, db, States
<1>0. c \in Actors
  BY DEF Actors
<1>1. read \in [Consumers -> {Stub} \cup Requests]
  BY DEF IInv, Typed
<1>2. CASE Poll(c)
  BY <1>0, <1>1, <1>2, Elsewhere DEF Poll
<1>3. CASE LookFree(c)
  <2>1. CASE UNCHANGED at
    BY <1>3, <2>1, Apart DEF LookFree, IInv, Typed
  <2>2. CASE at' = [at EXCEPT ![c] = "badfree"]
    BY <1>0, <1>1, <1>3, <2>2, Elsewhere DEF LookFree
  <2>3. CASE at' = [at EXCEPT ![c] = "move"]
    BY <1>0, <1>1, <1>3, <2>3, Elsewhere DEF LookFree
  <2> QED BY <1>3, <2>1, <2>2, <2>3 DEF LookFree
<1>4. CASE ClaimFile(c)
  BY <1>0, <1>1, <1>4, Elsewhere DEF ClaimFile
<1>5. CASE QuarantineFree(c)
  BY <1>0, <1>1, <1>5, Elsewhere DEF QuarantineFree
<1>6. CASE ListWork(c)
  BY <1>0, <1>1, <1>6, Elsewhere DEF ListWork
<1>7. CASE LookWork(c)
  <2> DEFINE i == Min(todo[c])
  <2>1. CASE work[i] \in Requests
    <3>1. read' = [read EXCEPT ![c] = work[i]] /\ at' = [at EXCEPT ![c] = "apply"]
      BY <1>7, <2>1 DEF LookWork
    <3>2. UNCHANGED <<ledger, times, done>>
      BY <1>7 DEF LookWork
    <3> HIDE DEF i
    <3>3. read'[c] \in Requests /\ read' \in [Consumers -> {Stub} \cup Requests]
      BY <1>1, <2>1, <3>1
    <3>4. \A b \in Consumers \ {c} : read'[b] = read[b]
      BY <1>1, <3>1
    <3> QED BY <1>0, <3>1, <3>2, <3>3, <3>4, Elsewhere
  <2>2. CASE work[i] \notin Requests
    BY <1>0, <1>1, <1>7, <2>2, Elsewhere DEF LookWork
  <2> QED BY <2>1, <2>2
<1>8. CASE Execute(c)
  BY <1>8, ExecuteIInv
<1>9. CASE StoreFails(c)
  BY <1>0, <1>1, <1>9, Elsewhere DEF StoreFails
<1>10. CASE WriteDone(c)
  BY <1>10, WriteDoneIInv
<1>11. CASE DoneFails(c)
  BY <1>0, <1>1, <1>11, Elsewhere DEF DoneFails
<1>12. CASE RemoveWork(c) \/ QuarantineWork(c)
  <2>1. /\ read' = [read EXCEPT ![c] = Stub] /\ at' = [at EXCEPT ![c] = "works"]
        /\ UNCHANGED <<ledger, times, done>>
    BY <1>12 DEF RemoveWork, QuarantineWork
  <2>2. read' \in [Consumers -> {Stub} \cup Requests] /\ \A b \in Consumers \ {c} : read'[b] = read[b]
    BY <1>1, <2>1
  <2> QED BY <1>0, <2>1, <2>2, Elsewhere
<1>13. CASE EndPoll(c)
  BY <1>0, <1>1, <1>13, Elsewhere DEF EndPoll
<1> QED BY <1>2, <1>3, <1>4, <1>5, <1>6, <1>7, <1>8, <1>9, <1>10, <1>11, <1>12, <1>13 DEF ConsumerStep

LEMMA CrashIInv ==
    ASSUME IInv, NEW a \in Actors, Crash(a)
    PROVE  IInv'
<1> DEFINE s == IF a \in Producers THEN "over" ELSE "closed"
<1>1. at' = [at EXCEPT ![a] = s] /\ s \in States /\ s \notin {"apply", "answer", "unlink"}
  BY DEF Crash, Goto, States
<1>2. UNCHANGED <<ledger, times, done>>
  BY DEF Crash, db
<1>3. read' = read \/ read' = [read EXCEPT ![a] = Stub]
  BY DEF Crash
<1>4. read' \in [Consumers -> {Stub} \cup Requests] /\ \A c \in Consumers \ {a} : read'[c] = read[c]
  BY <1>3 DEF IInv, Typed
<1> HIDE DEF s
<1> QED BY <1>1, <1>2, <1>4, Elsewhere

LEMMA NextIInv == IInv /\ [Next]_vars => IInv'
<1> SUFFICES ASSUME IInv, [Next]_vars PROVE IInv'
  OBVIOUS
<1>1. ASSUME NEW a \in Actors, Step(a) PROVE IInv'
  <2>1. CASE RefillCreate(a)
    BY <2>1, Apart DEF RefillCreate, db, IInv, Typed
  <2>2. CASE Open(a)
    <3>1. read \in [Consumers -> {Stub} \cup Requests] /\ "idle" \in States
      BY DEF IInv, Typed, States
    <3> QED BY <2>2, <3>1, Elsewhere DEF Open, Goto, dirs, db
  <2> QED BY <1>1, <2>1, <2>2, ProducerIInv, ConsumerIInv DEF Step
<1>2. ASSUME NEW i \in Ids, Taken(i) PROVE IInv'
  BY <1>2, Apart DEF Taken, db, IInv, Typed
<1>3. ASSUME NEW t \in Timers, Fires(t) PROVE IInv'
  BY <1>3, Apart DEF Fires, dirs, IInv, Typed
<1>4. CASE UNCHANGED vars
  BY <1>4, Apart DEF vars, dirs, db, IInv, Typed
<1> QED BY <1>1, <1>2, <1>3, <1>4, CrashIInv DEF Next

\* However many processes submit a request and poll it, and wherever they end, it
\* changes the timers at most once (slot_execute_once).
THEOREM RequestsApplyOnce == Spec => []AppliedOnce
<1>1. IInv => AppliedOnce
  BY DEF IInv, Typed, Entered, AppliedOnce
<1> QED BY <1>1, InitIInv, NextIInv, PTL DEF Spec

\* Whatever answer an app finds in done/ is recorded in the ledger, so that asking
\* again gives the same one (process_work_file).
THEOREM AnswersAreRecorded == Spec => []AnswersAreDurable
<1>1. IInv => AnswersAreDurable
  BY DEF IInv
<1> QED BY <1>1, InitIInv, NextIInv, PTL DEF Spec

-----------------------------------------------------------------------------
(* Names in free/ *)

Holding(p) == at[p] \in {"stubbed", "renamed", "claimed", "written"}

Places ==
    /\ free \in [Ids -> {Absent} \cup Contents]
    /\ at \in [Actors -> States] /\ id \in [Actors -> Ids \cup {0}]
    /\ todo \in [Actors -> SUBSET Ids]
    /\ claim \in [Producers -> SUBSET (Ids \X Contents)]
    /\ work \in [Ids -> {Absent} \cup Contents]

\* Two producers never hold the lock of the same slot.
Exclusive ==
    \A p, q \in Producers : Holding(p) /\ Holding(q) /\ id[p] = id[q] => p = q

\* Until it writes, the holder's slot has no request on its name, and none was renamed away.
Reserved ==
    \A p \in Producers :
        /\ Holding(p) => id[p] \in Ids
        /\ at[p] \in {"stubbed", "renamed", "claimed"} => free[id[p]] \in {Absent, Stub}
        /\ at[p] = "renamed" => claim[p] = {<<id[p], Stub>>}

LockInv == Places /\ Exclusive /\ Reserved

\* What a step may do to the name of slot i.
Kept(i) ==
    free[i] \in Requests => free'[i] = free[i] \/ work'[i] = free[i] \/ <<i, free[i]>> \in bad'

LEMMA Distinct ==
    /\ Absent \notin Requests /\ Stub \notin Requests /\ Ids \subseteq Nat /\ 0 \notin Ids
    /\ Actors = Producers \cup Consumers
BY RequestsAssumption, BoundsAssumption DEF Absent, Stub, Ids, Actors

LEMMA InitLock == Init => LockInv
<1> SUFFICES ASSUME Init PROVE LockInv
  OBVIOUS
<1>1. free = [i \in Ids |-> IF i <= MinFree THEN Stub ELSE Absent]
  BY DEF Init
<1>2. Places
  BY <1>1 DEF Init, Places, Contents, States
<1>3. \A p \in Producers : ~Holding(p)
  BY Distinct DEF Init, Holding
<1>4. Exclusive /\ Reserved
  BY <1>3 DEF Exclusive, Reserved, Holding
<1> QED BY <1>2, <1>4 DEF LockInv

LEMMA LeastOf ==
    ASSUME NEW T, T \subseteq Nat, T # {}
    PROVE  Min(T) \in T
<1> DEFINE R == OpToRel(<, Nat)
<1>1. IsWellFoundedOn(R, Nat)
  BY NatLessThanWellFounded
<1>2. \A x, y \in Nat : x < y => <<x, y>> \in R
  BY DEF OpToRel
<1> HIDE DEF R
<1>3. PICK x \in T : \A y \in T : ~(<<y, x>> \in R)
  BY <1>1, WFMin
<1>4. ASSUME NEW y \in T PROVE x <= y
  <2>1. x \in Nat /\ y \in Nat /\ ~(y < x)
    BY <1>2, <1>3
  <2> QED BY <2>1
<1> QED BY <1>4 DEF Min

LEMMA LeastIsThere ==
    ASSUME NEW T, T \subseteq Ids, T # {}
    PROVE  Min(T) \in T
<1>1. T \subseteq Nat
  BY Distinct
<1> QED BY <1>1, LeastOf

\* A step after which every name in free/ has what it had, or no request.
LEMMA NamesFree ==
    ASSUME LockInv, NEW a \in Actors, NEW s \in States, NEW n \in Ids \cup {0},
           at' = [at EXCEPT ![a] = s], id' = [id EXCEPT ![a] = n],
           free' \in [Ids -> {Absent} \cup Contents],
           \A i \in Ids : free'[i] \in {free[i], Absent, Stub},
           work' \in [Ids -> {Absent} \cup Contents],
           todo' \in [Actors -> SUBSET Ids],
           claim' \in [Producers -> SUBSET (Ids \X Contents)],
           \A p \in Producers \ {a} : claim'[p] = claim[p],
           a \in Producers => /\ s \in {"stubbed", "renamed", "claimed", "written"} =>
                                     /\ n \in Ids
                                     /\ \A p \in Producers \ {a} : ~(Holding(p) /\ id[p] = n)
                              /\ s \in {"stubbed", "renamed", "claimed"} => free'[n] \in {Absent, Stub}
                              /\ s = "renamed" => claim'[a] = {<<n, Stub>>}
    PROVE  LockInv'
<1>1. \A p \in Producers \ {a} : at'[p] = at[p] /\ id'[p] = id[p] /\ p \in Actors
  BY Distinct DEF LockInv, Places
<1>2. at'[a] = s /\ id'[a] = n
  BY DEF LockInv, Places
<1>3. Places'
  BY DEF LockInv, Places
<1>4. Exclusive'
  BY <1>1, <1>2 DEF LockInv, Exclusive, Holding
<1>5. Reserved'
  <2> SUFFICES ASSUME NEW p \in Producers
               PROVE  /\ Holding(p)' => id'[p] \in Ids
                      /\ at'[p] \in {"stubbed", "renamed", "claimed"} => free'[id'[p]] \in {Absent, Stub}
                      /\ at'[p] = "renamed" => claim'[p] = {<<id'[p], Stub>>}
    BY DEF Reserved
  <2>1. CASE p = a
    BY <1>2, <2>1 DEF Holding
  <2>2. CASE p # a
    <3>1. /\ at'[p] = at[p] /\ id'[p] = id[p] /\ claim'[p] = claim[p]
          /\ Holding(p) => id[p] \in Ids
          /\ at[p] \in {"stubbed", "renamed", "claimed"} => free[id[p]] \in {Absent, Stub}
          /\ at[p] = "renamed" => claim[p] = {<<id[p], Stub>>}
      BY <1>1, <2>2 DEF LockInv, Reserved
    <3> QED BY <3>1 DEF Holding
  <2> QED BY <2>1, <2>2
<1> QED BY <1>3, <1>4, <1>5 DEF LockInv

LEMMA NamesByProducer ==
    ASSUME LockInv, NEW p \in Producers, ProducerStep(p)
    PROVE  LockInv' /\ \A i \in Ids : Kept(i)
<1> USE DEF Goto, dirs, States, Holding, Kept
<1>0. /\ p \in Actors /\ at[p] \in States /\ id[p] \in Ids \cup {0} /\ todo[p] \subseteq Ids
      /\ free \in [Ids -> {Absent} \cup Contents] /\ todo \in [Actors -> SUBSET Ids]
      /\ claim \in [Producers -> SUBSET (Ids \X Contents)]
      /\ at \in [Actors -> States] /\ id \in [Actors -> Ids \cup {0}]
      /\ work' = work /\ work \in [Ids -> {Absent} \cup Contents] /\ Stub \in Contents
  BY Distinct DEF LockInv, Places, Contents, ProducerStep, ListFree, NoFreeSlot, TryLock, Rename,
         Verify, WriteRequest, WriteFails, Publish
<1>1. \A i \in Ids : free'[i] = free[i] => Kept(i)
  OBVIOUS
<1>2. CASE ListFree(p) \/ NoFreeSlot(p) \/ Publish(p)
  <2>1. PICK s \in {"scan", "over"}, n \in {id[p], 0} :
            at' = [at EXCEPT ![p] = s] /\ id' = [id EXCEPT ![p] = n] /\ free' = free
    BY <1>0, <1>2 DEF ListFree, NoFreeSlot, Publish
  <2>2. claim' \in [Producers -> SUBSET (Ids \X Contents)] /\ \A q \in Producers \ {p} : claim'[q] = claim[q]
    BY <1>0, <1>2 DEF ListFree, NoFreeSlot, Publish
  <2>3. todo' \in [Actors -> SUBSET Ids]
    BY <1>0, <1>2 DEF ListFree, NoFreeSlot, Publish, Files
  <2> QED BY <1>0, <1>1, <2>1, <2>2, <2>3, NamesFree
<1>3. CASE TryLock(p)
  <2> DEFINE i == Min(todo[p])
  <2>1. i \in Ids
    BY <1>0, <1>3, LeastIsThere DEF TryLock
  <2>2. UNCHANGED <<free, claim>> /\ todo' = [todo EXCEPT ![p] = @ \ {i}]
    BY <1>3 DEF TryLock
  <2>3. todo' \in [Actors -> SUBSET Ids]
    BY <1>0, <2>2
  <2>4. CASE UNCHANGED <<at, id>>
    BY <1>0, <1>1, <2>2, <2>3, <2>4 DEF LockInv, Places, Exclusive, Reserved
  <2>5. CASE at' = [at EXCEPT ![p] = "stubbed"] /\ id' = [id EXCEPT ![p] = i] /\ ~Locked(i) /\ free[i] = Stub
    <3> HIDE DEF i
    <3>1. \A q \in Producers : ~(Holding(q) /\ id[q] = i)
      BY <2>5 DEF Locked
    <3> QED BY <1>0, <1>1, <2>1, <2>2, <2>3, <2>5, <3>1, NamesFree
  <2> QED BY <1>3, <2>4, <2>5 DEF TryLock
<1>4. CASE Rename(p)
  <2> DEFINE i == id[p]
  <2>1. i \in Ids /\ free[i] \in {Absent, Stub} /\ at[p] = "stubbed"
        /\ \A q \in Producers \ {p} : ~(Holding(q) /\ id[q] = i)
    BY <1>4 DEF Rename, LockInv, Reserved, Exclusive
  <2>2. todo' = todo
    BY <1>4 DEF Rename
  <2>3. CASE free[i] = Absent
    <3>1. at' = [at EXCEPT ![p] = "scan"] /\ id' = [id EXCEPT ![p] = 0] /\ UNCHANGED <<free, claim>>
      BY <1>4, <2>3 DEF Rename
    <3> QED BY <1>0, <1>1, <2>2, <3>1, NamesFree
  <2>4. CASE free[i] = Stub
    <3>1. /\ claim' = [claim EXCEPT ![p] = {<<i, Stub>>}] /\ free' = [free EXCEPT ![i] = Absent]
          /\ at' = [at EXCEPT ![p] = "renamed"] /\ id' = id
      BY <1>4, <2>4, Distinct DEF Rename, Stub, Absent
    <3>2. id' = [id EXCEPT ![p] = i]
      BY <1>0, <3>1
    <3>3. /\ claim' \in [Producers -> SUBSET (Ids \X Contents)] /\ claim'[p] = {<<i, Stub>>}
          /\ \A q \in Producers \ {p} : claim'[q] = claim[q]
      BY <1>0, <2>1, <3>1
    <3>4. /\ free' \in [Ids -> {Absent} \cup Contents] /\ free'[i] = Absent
          /\ \A j \in Ids : free'[j] \in {free[j], Absent}
      BY <1>0, <2>1, <3>1
    <3>5. \A j \in Ids : Kept(j)
      BY <1>0, <2>1, <2>4, <3>1, Distinct
    <3> HIDE DEF i, Kept
    <3> QED BY <1>0, <2>1, <2>2, <3>1, <3>2, <3>3, <3>4, <3>5, NamesFree
  <2> QED BY <2>1, <2>3, <2>4
<1>5. CASE Verify(p)
  <2>1. claim[p] = {<<id[p], Stub>>} /\ id[p] \in Ids /\ at[p] = "renamed" /\ free[id[p]] \in {Absent, Stub}
        /\ \A q \in Producers \ {p} : ~(Holding(q) /\ id[q] = id[p])
    BY <1>5 DEF Verify, LockInv, Reserved, Exclusive
  <2>2. at' = [at EXCEPT ![p] = "claimed"] /\ UNCHANGED <<free, claim, id, todo>>
    BY <1>5, <2>1 DEF Verify
  <2>3. id' = [id EXCEPT ![p] = id[p]]
    BY <1>0, <2>2
  <2> QED BY <1>0, <1>1, <2>1, <2>2, <2>3, NamesFree
<1>6. CASE WriteRequest(p)
  <2> DEFINE i == id[p]
             q == RequestOf[p]
  <2>1. i \in Ids /\ free[i] \in {Absent, Stub} /\ at[p] = "claimed"
        /\ \A r \in Producers \ {p} : ~(Holding(r) /\ id[r] = i)
    BY <1>6 DEF WriteRequest, LockInv, Reserved, Exclusive
  <2>2. /\ free' = [free EXCEPT ![i] = q] /\ at' = [at EXCEPT ![p] = "written"]
        /\ UNCHANGED <<id, claim, todo>>
    BY <1>6 DEF WriteRequest
  <2>3. q \in Contents
    BY DEF Contents, Requests
  <2> HIDE DEF i, q
  <2>4. Places'
    BY <1>0, <2>1, <2>2, <2>3 DEF Places
  <2>5. \A r \in Producers \ {p} : at'[r] = at[r] /\ id'[r] = id[r] /\ r \in Actors
    BY <2>2, Distinct, <1>0
  <2>6. at'[p] = "written" /\ id'[p] = i /\ id[p] = i
    BY <1>0, <2>2 DEF i
  <2>7. Exclusive'
    BY <2>1, <2>5, <2>6 DEF LockInv, Exclusive
  <2>8. Reserved'
    <3> SUFFICES ASSUME NEW r \in Producers
                 PROVE  /\ Holding(r)' => id'[r] \in Ids
                        /\ at'[r] \in {"stubbed", "renamed", "claimed"} => free'[id'[r]] \in {Absent, Stub}
                        /\ at'[r] = "renamed" => claim'[r] = {<<id'[r], Stub>>}
      BY DEF Reserved
    <3>1. CASE r = p
      BY <2>1, <2>6, <3>1
    <3>2. CASE r # p
      <4>1. at'[r] = at[r] /\ id'[r] = id[r] /\ claim'[r] = claim[r]
        BY <2>2, <2>5, <3>2
      <4>2. Holding(r) => id[r] \in Ids /\ id[r] # i
        BY <2>1, <3>2 DEF LockInv, Reserved
      <4>3. Holding(r) => free'[id[r]] = free[id[r]]
        BY <1>0, <2>2, <4>2
      <4> QED BY <4>1, <4>2, <4>3 DEF LockInv, Reserved
    <3> QED BY <3>1, <3>2
  <2>9. \A j \in Ids : Kept(j)
    BY <1>0, <2>1, <2>2, Distinct
  <2> QED BY <2>4, <2>7, <2>8, <2>9 DEF LockInv
<1>7. CASE WriteFails(p)
  <2>1. at' = [at EXCEPT ![p] = "over"] /\ id' = [id EXCEPT ![p] = 0] /\ UNCHANGED <<free, todo>>
        /\ claim' = [claim EXCEPT ![p] = {}]
    BY <1>7 DEF WriteFails
  <2>2. claim' \in [Producers -> SUBSET (Ids \X Contents)] /\ \A q \in Producers \ {p} : claim'[q] = claim[q]
    BY <1>0, <2>1
  <2> QED BY <1>0, <1>1, <2>1, <2>2, NamesFree
<1> QED BY <1>2, <1>3, <1>4, <1>5, <1>6, <1>7 DEF ProducerStep

LEMMA NamesByConsumer ==
    ASSUME LockInv, NEW c \in Consumers, ConsumerStep(c)
    PROVE  LockInv' /\ \A i \in Ids : Kept(i)
<1>0. /\ c \in Actors /\ c \notin Producers
      /\ free \in [Ids -> {Absent} \cup Contents] /\ todo \in [Actors -> SUBSET Ids]
      /\ claim \in [Producers -> SUBSET (Ids \X Contents)]
      /\ at \in [Actors -> States] /\ id \in [Actors -> Ids \cup {0}]
  BY Distinct, SidesAssumption DEF LockInv, Places
<1>1. claim' = claim
  BY DEF ConsumerStep, Poll, LookFree, ClaimFile, QuarantineFree, ListWork, LookWork, Execute,
         StoreFails, WriteDone, DoneFails, RemoveWork, QuarantineWork, EndPoll, dirs
<1>2. \E s \in States : at' = [at EXCEPT ![c] = s]
  <2>1. at' = [at EXCEPT ![c] = at[c]] \/ at' # at
    BY <1>0
  <2>2. CASE at' = at
    <3>1. at' = [at EXCEPT ![c] = at[c]] /\ at[c] \in States
      BY <1>0, <2>2
    <3> QED BY <3>1
  <2>3. CASE at' # at
    BY <2>3 DEF ConsumerStep, Poll, LookFree, ClaimFile, QuarantineFree, ListWork, LookWork, Execute,
            StoreFails, WriteDone, DoneFails, RemoveWork, QuarantineWork, EndPoll, Goto, States
  <2> QED BY <2>2, <2>3
<1>3. todo' \in [Actors -> SUBSET Ids]
  BY <1>0 DEF ConsumerStep, Poll, LookFree, ClaimFile, QuarantineFree, ListWork, LookWork, Execute,
         StoreFails, WriteDone, DoneFails, RemoveWork, QuarantineWork, EndPoll, Files
<1>4. \E n \in Ids \cup {0} : id' = [id EXCEPT ![c] = n]
  <2>1. CASE id' = id
    <3>1. id' = [id EXCEPT ![c] = id[c]] /\ id[c] \in Ids \cup {0}
      BY <1>0, <2>1
    <3> QED BY <3>1
  <2>2. CASE ClaimFile(c) \/ QuarantineFree(c) \/ RemoveWork(c) \/ QuarantineWork(c)
    BY <2>2 DEF ClaimFile, QuarantineFree, RemoveWork, QuarantineWork
  <2>3. CASE LookFree(c) \/ LookWork(c)
    <3>1. todo[c] # {} /\ (id' = id \/ id' = [id EXCEPT ![c] = Min(todo[c])])
      BY <2>3 DEF LookFree, LookWork
    <3>2. Min(todo[c]) \in Ids
      BY <1>0, <3>1, LeastIsThere
    <3> QED BY <2>1, <3>1, <3>2
  <2> QED BY <2>1, <2>2, <2>3
    DEF ConsumerStep, Poll, ListWork, Execute, StoreFails, WriteDone, DoneFails, EndPoll
<1>5. /\ free' \in [Ids -> {Absent} \cup Contents]
      /\ \A i \in Ids : free'[i] \in {free[i], Absent} /\ Kept(i)
  <2>1. CASE free' = free
    BY <1>0, <2>1 DEF Kept
  <2>2. CASE ClaimFile(c) /\ free' # free
    <3> DEFINE i == id[c]
    <3>1. /\ work' = [work EXCEPT ![i] = free[i]] /\ free' = [free EXCEPT ![i] = Absent]
      BY <2>2 DEF ClaimFile
    <3>2. work \in [Ids -> {Absent} \cup Contents]
      BY DEF LockInv, Places
    <3> QED BY <1>0, <3>1, <3>2 DEF Kept
  <2>3. CASE QuarantineFree(c)
    <3> DEFINE i == id[c]
    <3>1. /\ bad' = bad \cup (IF free[i] = Absent THEN {} ELSE {<<i, free[i]>>})
          /\ free' = [free EXCEPT ![i] = Absent]
      BY <2>3 DEF QuarantineFree, Quarantined
    <3>2. \A j \in Ids : free[j] \in Requests => free[j] # Absent
      BY Distinct
    <3> QED BY <1>0, <3>1, <3>2 DEF Kept
  <2> QED BY <2>1, <2>2, <2>3
    DEF ConsumerStep, Poll, LookFree, ListWork, LookWork, Execute, StoreFails, WriteDone, DoneFails,
        RemoveWork, QuarantineWork, EndPoll, dirs
<1>6. work' \in [Ids -> {Absent} \cup Contents]
  <2>1. work \in [Ids -> {Absent} \cup Contents]
    BY DEF LockInv, Places
  <2>2. CASE ClaimFile(c)
    <3>1. work' = work \/ (free[id[c]] # Absent /\ work' = [work EXCEPT ![id[c]] = free[id[c]]])
      BY <2>2 DEF ClaimFile
    <3>2. CASE id[c] \in Ids
      BY <1>0, <2>1, <3>1, <3>2
    <3>3. CASE id[c] \notin Ids
      BY <2>1, <3>1, <3>3
    <3> QED BY <3>2, <3>3
  <2>3. CASE RemoveWork(c) \/ QuarantineWork(c)
    <3>1. work' = [work EXCEPT ![id[c]] = Absent]
      BY <2>3 DEF RemoveWork, QuarantineWork
    <3> QED BY <2>1, <3>1
  <2> QED BY <2>1, <2>2, <2>3
    DEF ConsumerStep, Poll, LookFree, QuarantineFree, ListWork, LookWork, Execute, StoreFails,
        WriteDone, DoneFails, EndPoll, dirs
<1> QED BY <1>0, <1>1, <1>2, <1>3, <1>4, <1>5, <1>6, NamesFree

LEMMA NamesStep == LockInv /\ [Next]_vars => LockInv' /\ \A i \in Ids : Kept(i)
<1> SUFFICES ASSUME LockInv, [Next]_vars PROVE LockInv' /\ \A i \in Ids : Kept(i)
  OBVIOUS
<1>0. /\ free \in [Ids -> {Absent} \cup Contents] /\ todo \in [Actors -> SUBSET Ids]
      /\ claim \in [Producers -> SUBSET (Ids \X Contents)]
      /\ at \in [Actors -> States] /\ id \in [Actors -> Ids \cup {0}]
      /\ work \in [Ids -> {Absent} \cup Contents]
  BY DEF LockInv, Places
<1>1. ASSUME UNCHANGED <<free, work, at, id, todo, claim>> PROVE LockInv' /\ \A i \in Ids : Kept(i)
  BY <1>1 DEF LockInv, Places, Exclusive, Reserved, Holding, Kept
<1>2. ASSUME NEW a \in Actors, Step(a) PROVE LockInv' /\ \A i \in Ids : Kept(i)
  <2>1. CASE RefillCreate(a)
    <3> DEFINE n == refill[a].next
    <3>1. UNCHANGED <<work, at, id, todo, claim>>
      BY <2>1 DEF RefillCreate
    <3>2. free' = free \/ (free[n] = Absent /\ n \in Ids /\ free' = [free EXCEPT ![n] = Stub])
      <4>1. n \in Ids /\ free' = [free EXCEPT ![n] = IF free[n] = Absent THEN Stub ELSE @]
        BY <2>1 DEF RefillCreate, Filling
      <4> HIDE DEF n
      <4> QED BY <1>0, <4>1
    <3> HIDE DEF n
    <3>3. CASE free' = free
      BY <1>1, <3>1, <3>3
    <3>4. CASE free[n] = Absent /\ n \in Ids /\ free' = [free EXCEPT ![n] = Stub]
      <4>1. \A i \in Ids : free'[i] \in {free[i], Stub} /\ Kept(i)
        BY <1>0, <3>4, Distinct DEF Kept
      <4>2. free' \in [Ids -> {Absent} \cup Contents]
        BY <1>0, <3>4 DEF Contents
      <4>3. at' = [at EXCEPT ![a] = at[a]] /\ id' = [id EXCEPT ![a] = id[a]] /\ at[a] \in States /\ id[a] \in Ids \cup {0}
        BY <1>0, <3>1
      <4>4. a \in Producers =>
              /\ at[a] \in {"stubbed", "renamed", "claimed", "written"} =>
                    /\ id[a] \in Ids
                    /\ \A p \in Producers \ {a} : ~(Holding(p) /\ id[p] = id[a])
              /\ at[a] \in {"stubbed", "renamed", "claimed"} => free'[id[a]] \in {Absent, Stub}
              /\ at[a] = "renamed" => claim'[a] = {<<id[a], Stub>>}
        BY <3>1, <4>1 DEF LockInv, Exclusive, Reserved, Holding
      <4>5. todo' \in [Actors -> SUBSET Ids] /\ work' \in [Ids -> {Absent} \cup Contents]
            /\ claim' \in [Producers -> SUBSET (Ids \X Contents)] /\ claim' = claim
            /\ \A j \in Ids : free'[j] \in {free[j], Absent, Stub}
        BY <1>0, <3>1, <4>1
      <4>6. \A j \in Ids : Kept(j)
        BY <4>1
      <4> QED BY <4>2, <4>3, <4>4, <4>5, <4>6, NamesFree
    <3> QED BY <3>2, <3>3, <3>4
  <2>2. CASE Open(a)
    <3>1. at' = [at EXCEPT ![a] = "idle"] /\ UNCHANGED <<free, work, id, todo, claim>>
      BY <2>2 DEF Open, Goto, dirs
    <3>2. id' = [id EXCEPT ![a] = id[a]] /\ id[a] \in Ids \cup {0} /\ "idle" \in States
      BY <1>0, <3>1 DEF States
    <3>3. \A i \in Ids : Kept(i)
      BY <3>1 DEF Kept
    <3> QED BY <1>0, <3>1, <3>2, <3>3, NamesFree
  <2> QED BY <1>2, <2>1, <2>2, NamesByProducer, NamesByConsumer DEF Step
<1>3. ASSUME NEW a \in Actors, Crash(a) PROVE LockInv' /\ \A i \in Ids : Kept(i)
  <2>1. /\ at' = [at EXCEPT ![a] = IF a \in Producers THEN "over" ELSE "closed"]
        /\ id' = [id EXCEPT ![a] = 0] /\ todo' = [todo EXCEPT ![a] = {}] /\ free' = free /\ work' = work
        /\ claim' = claim \/ claim' = [claim EXCEPT ![a] = {}]
    BY <1>3 DEF Crash, Goto
  <2>2. PICK s \in {"over", "closed"} : at' = [at EXCEPT ![a] = s]
    BY <2>1
  <2>3. /\ claim' \in [Producers -> SUBSET (Ids \X Contents)]
        /\ \A q \in Producers \ {a} : claim'[q] = claim[q]
    BY <1>0, <2>1
  <2>4. todo' \in [Actors -> SUBSET Ids]
    BY <1>0, <2>1
  <2>5. \A i \in Ids : Kept(i)
    BY <2>1 DEF Kept
  <2>6. s \in States /\ s \notin {"stubbed", "renamed", "claimed", "written"}
    BY DEF States
  <2>7. \A i \in Ids : free'[i] \in {free[i], Absent, Stub}
    BY <2>1
  <2> QED BY <1>0, <2>1, <2>2, <2>3, <2>4, <2>5, <2>6, <2>7, NamesFree
<1>4. ASSUME NEW i \in Ids, Taken(i) PROVE LockInv' /\ \A j \in Ids : Kept(j)
  BY <1>1, <1>4 DEF Taken
<1>5. ASSUME NEW t \in Timers, Fires(t) PROVE LockInv' /\ \A j \in Ids : Kept(j)
  BY <1>1, <1>5 DEF Fires, dirs
<1>6. CASE UNCHANGED vars
  BY <1>1, <1>6 DEF vars, dirs
<1> QED BY <1>2, <1>3, <1>4, <1>5, <1>6 DEF Next

\* However many producers and consumers there are, wherever they end and however late a
\* replenish goes on, nothing replaces a request that waits in free/ (publish, replenish).
THEOREM PublishedRequestsStay == Spec => PublishedStays
<1>1. LockInv /\ [Next]_vars => [\A i \in Ids : Kept(i)]_vars
  BY NamesStep
<1>2. [\A i \in Ids : Kept(i)]_vars <=>
      [\A i \in Ids : free[i] \in Requests =>
           free'[i] = free[i] \/ work'[i] = free[i] \/ <<i, free[i]>> \in bad']_vars
  BY DEF Kept
<1> QED BY <1>1, <1>2, InitLock, NamesStep, PTL DEF Spec, PublishedStays
-----------------------------------------------------------------------------
(* The crontab: finding a line, and what a rewrite returns. *)

\* A set of numbers that is not empty has a least one.
LEMMA FirstOf ==
    ASSUME NEW H, H \subseteq Nat, H # {}
    PROVE  \E i \in H : \A j \in H : i <= j
<1> DEFINE R == OpToRel(<, Nat)
<1>1. IsWellFoundedOn(R, Nat)
  BY NatLessThanWellFounded
<1>2. \A i, j \in Nat : i < j => <<i, j>> \in R
  BY DEF OpToRel
<1> HIDE DEF R
<1>3. PICK i \in H : \A j \in H : ~(<<j, i>> \in R)
  BY <1>1, WFMin
<1>4. \A j \in H : i <= j
  <2> TAKE j \in H
  <2>1. i \in Nat /\ j \in Nat /\ ~(j < i)
    BY <1>2, <1>3
  <2> QED BY <2>1
<1> QED BY <1>4

\* What a search finds is a line it looked for.
LEMMA FenceFound ==
    ASSUME NEW S, NEW text \in Seq(S), NEW kind
    PROVE  Fence(text, kind) \in 0..Len(text)
<1> DEFINE hits == {i \in DOMAIN text : text[i].kind = kind /\ text[i].marks = 0}
<1>1. DOMAIN text = 1..Len(text) /\ Len(text) \in Nat
  BY LenProperties
<1>2. Fence(text, kind) = IF hits = {} THEN 0 ELSE CHOOSE i \in hits : \A j \in hits : i <= j
  BY DEF Fence, FirstSuch
<1>3. hits \subseteq 1..Len(text) /\ hits \subseteq Nat /\ Len(text) \in Nat
  BY <1>1
<1> HIDE DEF hits
<1>4. CASE hits = {}
  BY <1>1, <1>2, <1>4
<1>5. CASE hits # {}
  <2>1. \E i \in hits : \A j \in hits : i <= j
    BY <1>3, <1>5, FirstOf
  <2>2. Fence(text, kind) \in hits
    BY <1>2, <1>5, <2>1
  <2>3. \A i \in hits : i \in 0..Len(text)
    BY <1>3
  <2> QED BY <2>2, <2>3
<1> QED BY <1>4, <1>5

\* A task whose text stands in the crontab is found at a line that reads so.
LEMMA ExactFound ==
    ASSUME NEW S, NEW text \in Seq(S), NEW t, \E i \in DOMAIN text : text[i] = t.raw
    PROVE  FindJobLine(text, t) \in DOMAIN text /\ text[FindJobLine(text, t)] = t.raw
<1> DEFINE hits == {i \in DOMAIN text : text[i] = t.raw}
           exact == FirstSuch(text, LAMBDA line : line = t.raw)
<1>1. DOMAIN text = 1..Len(text) /\ Len(text) \in Nat
  BY LenProperties
<1>2. exact = IF hits = {} THEN 0 ELSE CHOOSE i \in hits : \A j \in hits : i <= j
  BY DEF FirstSuch
<1>3. hits \subseteq 1..Len(text) /\ hits \subseteq Nat /\ hits # {}
  BY <1>1
<1>4. exact \in hits
  <2> HIDE DEF hits, exact
  <2>1. \E i \in hits : \A j \in hits : i <= j
    BY <1>3, FirstOf
  <2> QED BY <1>2, <1>3, <2>1
<1>5. exact # 0 /\ FindJobLine(text, t) = exact
  BY <1>1, <1>4 DEF FindJobLine
<1> QED BY <1>4, <1>5

(* ---- what a rewrite returns ---- *)

LEMMA RewriteSequence ==
    ASSUME NEW text \in Seq(Lines), NEW i, NEW e, i \in DOMAIN text => e \in Lines
    PROVE  [text EXCEPT ![i] = e] \in Seq(Lines)
<1>1. DOMAIN text = 1..Len(text) /\ Len(text) \in Nat
  BY LenProperties
<1>2. CASE i \in DOMAIN text
  BY <1>1, <1>2, ExceptSeq
<1>3. CASE i \notin DOMAIN text
  <2>1. [text EXCEPT ![i] = e] = text
    BY <1>3
  <2> QED BY <2>1
<1> QED BY <1>2, <1>3

LEMMA TransformedIsLine ==
    ASSUME NEW line \in Lines, NEW t, t.raw \in Lines, NEW o \in Changes
    PROVE  Transformed(line, t, o) \in Lines
<1>1. CASE o.kind = "disable"
  BY <1>1 DEF Transformed, Disabled, Lines
<1>2. CASE o.kind = "enable"
  BY <1>2 DEF Transformed, DisabledOriginal, Lines
<1>3. CASE o.kind = "edit"
  <2>1. o.schedule \in Schedules
    BY <1>3 DEF Changes
  <2>2. Transformed(line, t, o) = Edited(line, t, o.schedule)
    BY <1>3 DEF Transformed
  <2> QED BY <2>1, <2>2 DEF Edited, Job, Line, Lines, Kinds
<1>4. o.kind \in {"disable", "enable", "edit"}
  BY DEF Changes
<1> QED BY <1>1, <1>2, <1>3, <1>4

\* A text behind another one is its end, a text before another one its beginning.
LEMMA Beginning ==
    ASSUME NEW a \in Seq(Lines), NEW b \in Seq(Lines)
    PROVE  SubSeq(a \o b, 1, Len(a)) = a
<1> DEFINE s == a \o b
<1>1. /\ s \in Seq(Lines) /\ Len(s) = Len(a) + Len(b)
      /\ \A j \in 1..(Len(a) + Len(b)) : s[j] = IF j <= Len(a) THEN a[j] ELSE b[j - Len(a)]
  BY ConcatProperties
<1>2. Len(a) \in Nat /\ Len(b) \in Nat
  BY LenProperties
<1> HIDE DEF s
<1>3. \A j \in 1..Len(a) : s[j] = a[j]
  BY <1>1, <1>2
<1>4. \A j \in 1..Len(a) : s[j] \in Lines
  BY <1>3, ElementOfSeq
<1> DEFINE head == SubSeq(s, 1, Len(a))
<1>5. /\ head \in Seq(Lines)
      /\ Len(head) = IF 1 <= Len(a) THEN Len(a) - 1 + 1 ELSE 0
      /\ \A j \in 1..(Len(a) - 1 + 1) : head[j] = s[1 + j - 1]
  BY <1>2, <1>4, SubSeqProperties
<1> HIDE DEF head
<1>6. Len(head) = Len(a)
  BY <1>2, <1>5
<1>7. \A j \in 1..Len(a) : head[j] = a[j]
  BY <1>2, <1>3, <1>5
<1>8. head = a
  BY <1>5, <1>6, <1>7, SeqEqual
<1> QED BY <1>8 DEF head, s

LEMMA ReverseSequence ==
    ASSUME NEW s \in Seq(Lines)
    PROVE  /\ Reverse(s) \in Seq(Lines) /\ Len(Reverse(s)) = Len(s)
           /\ \A j \in 1..Len(s) : Reverse(s)[j] = s[(Len(s) - j) + 1]
<1> DEFINE r == Reverse(s)
<1>1. r = [j \in 1..Len(s) |-> s[(Len(s) - j) + 1]]
  BY DEF Reverse
<1>2. Len(s) \in Nat
  BY LenProperties
<1>3. \A j \in 1..Len(s) : (Len(s) - j) + 1 \in 1..Len(s)
  BY <1>2
<1>4. \A j \in 1..Len(s) : s[(Len(s) - j) + 1] \in Lines
  BY <1>3, ElementOfSeq
<1>5. r \in [1..Len(s) -> Lines] /\ \A j \in 1..Len(s) : r[j] = s[(Len(s) - j) + 1]
  BY <1>1, <1>4
<1> HIDE DEF r
<1>6. r \in Seq(Lines)
  BY <1>2, <1>5, SeqDef
<1>7. DOMAIN r = 1..Len(r) /\ Len(r) \in Nat
  BY <1>6, LenProperties
<1>8. 1..Len(r) = 1..Len(s)
  BY <1>5, <1>7
<1>9. Len(r) = Len(s)
  <2> PICK m \in Nat, n \in Nat : m = Len(r) /\ n = Len(s)
    BY <1>2, <1>7
  <2>1. 1..m = 1..n
    BY <1>8
  <2>2. m = n
    BY <2>1
  <2> QED BY <2>2
<1> QED BY <1>5, <1>6, <1>9 DEF r

LEMMA End ==
    ASSUME NEW a \in Seq(Lines), NEW b \in Seq(Lines)
    PROVE  IsSuffix(b, a \o b)
<1> DEFINE s == a \o b
           rb == Reverse(b)
           rs == Reverse(s)
           ra == Reverse(a)
<1>1. /\ s \in Seq(Lines) /\ Len(s) = Len(a) + Len(b)
      /\ \A j \in 1..(Len(a) + Len(b)) : s[j] = IF j <= Len(a) THEN a[j] ELSE b[j - Len(a)]
  BY ConcatProperties
<1>2. Len(a) \in Nat /\ Len(b) \in Nat
  BY LenProperties
<1> HIDE DEF s
<1>3. /\ rb \in Seq(Lines) /\ Len(rb) = Len(b)
      /\ \A j \in 1..Len(b) : rb[j] = b[(Len(b) - j) + 1]
  BY ReverseSequence
<1>4. /\ ra \in Seq(Lines) /\ Len(ra) = Len(a)
      /\ \A j \in 1..Len(a) : ra[j] = a[(Len(a) - j) + 1]
  BY ReverseSequence
<1>5. /\ rs \in Seq(Lines) /\ Len(rs) = Len(s)
      /\ \A j \in 1..Len(s) : rs[j] = s[(Len(s) - j) + 1]
  BY <1>1, ReverseSequence
<1> HIDE DEF rb, ra, rs
<1>. rb \in Seq(Lines) /\ ra \in Seq(Lines)
  BY <1>3, <1>4
<1>6. /\ rb \o ra \in Seq(Lines) /\ Len(rb \o ra) = Len(rb) + Len(ra)
      /\ \A j \in 1..(Len(rb) + Len(ra)) : (rb \o ra)[j] = IF j <= Len(rb) THEN rb[j] ELSE ra[j - Len(rb)]
  BY ConcatProperties
<1>7. PICK m \in Nat, n \in Nat : m = Len(a) /\ n = Len(b)
  BY <1>2
<1>8. rs = rb \o ra
  <2> DEFINE t == rb \o ra
  <2>1. Len(t) = n + m /\ Len(rs) = n + m
    BY <1>1, <1>3, <1>4, <1>5, <1>6, <1>7
  <2>2. \A j \in 1..(n + m) : rs[j] = s[((n + m) - j) + 1] /\ ((n + m) - j) + 1 \in 1..(n + m)
    BY <1>1, <1>5, <1>7
  <2>3. \A j \in 1..(n + m) : t[j] = IF j <= n THEN b[(n - j) + 1] ELSE a[(m - (j - n)) + 1]
    <3>1. /\ \A j \in 1..n : rb[j] = b[(n - j) + 1]
          /\ \A j \in 1..m : ra[j] = a[(m - j) + 1]
          /\ \A j \in 1..(n + m) : t[j] = IF j <= n THEN rb[j] ELSE ra[j - n]
      BY <1>3, <1>4, <1>6, <1>7
    <3> HIDE DEF t
    <3> TAKE j \in 1..(n + m)
    <3>2. CASE j <= n
      <4>1. j \in 1..n /\ t[j] = rb[j]
        BY <3>1, <3>2
      <4> QED BY <3>1, <3>2, <4>1
    <3>3. CASE ~(j <= n)
      <4>1. j - n \in 1..m /\ t[j] = ra[j - n]
        BY <3>1, <3>3
      <4> QED BY <3>1, <3>3, <4>1
    <3> QED BY <3>2, <3>3
  <2>4. \A j \in 1..(n + m) : s[j] = IF j <= m THEN a[j] ELSE b[j - m]
    <3>1. \A j \in 1..(m + n) : s[j] = IF j <= m THEN a[j] ELSE b[j - m]
      BY <1>1, <1>7
    <3>2. m + n = n + m
      OBVIOUS
    <3> QED BY <3>1, <3>2
  <2> HIDE DEF t
  <2>5. \A j \in 1..(n + m) : rs[j] = t[j]
    <3> TAKE j \in 1..(n + m)
    <3> DEFINE k == ((n + m) - j) + 1
    <3>1. rs[j] = s[k] /\ k \in 1..(n + m)
      BY <2>2
    <3>2. s[k] = IF k <= m THEN a[k] ELSE b[k - m]
      BY <2>4, <3>1
    <3>3. t[j] = IF j <= n THEN b[(n - j) + 1] ELSE a[(m - (j - n)) + 1]
      BY <2>3
    <3>4. k - m = (n - j) + 1 /\ k = (m - (j - n)) + 1 /\ (k <= m <=> ~(j <= n))
      OBVIOUS
    <3> HIDE DEF k
    <3> QED BY <3>1, <3>2, <3>3, <3>4
  <2>6. t \in Seq(Lines)
    BY <1>6 DEF t
  <2>7. rs = t
    BY <1>5, <2>1, <2>5, <2>6, SeqEqual
  <2> QED BY <2>7 DEF t
<1>9. SubSeq(rs, 1, Len(rb)) = rb
  BY <1>3, <1>4, <1>8, Beginning
<1>10. SubSeq(rb, 1, Len(rb)) = rb
  BY <1>3, SubSeqFull
<1>11. Len(rb) <= Len(rs)
  BY <1>1, <1>2, <1>3, <1>5
<1> QED BY <1>9, <1>10, <1>11 DEF IsSuffix, IsPrefix, rb, rs, s

LEMMA Regrouped ==
    ASSUME NEW a \in Seq(Lines), NEW b \in Seq(Lines), NEW c \in Seq(Lines)
    PROVE  (a \o b) \o c = a \o (b \o c)
BY ConcatAssociative

\* Spliced between the two ends of a text, lines come on top: the text is there before and behind.
LEMMA Spliced ==
    ASSUME NEW text \in Seq(Lines), NEW i \in 0..Len(text), NEW new \in Seq(Lines), Len(new) > 0,
           NEW s, s = SubSeq(text, 1, i) \o new \o SubSeq(text, i + 1, Len(text))
    PROVE  /\ s \in Seq(Lines) /\ Len(s) > Len(text)
           /\ SubSeq(s, 1, i) = SubSeq(text, 1, i)
           /\ IsSuffix(SubSeq(text, i + 1, Len(text)), s)
<1> DEFINE a == SubSeq(text, 1, i)
           b == SubSeq(text, i + 1, Len(text))
<1>1. PICK n \in Nat : n = Len(text)
  BY LenProperties
<1>2. i \in Nat /\ i <= n /\ \A j \in 1..n : text[j] \in Lines
  BY <1>1, ElementOfSeq
<1>3. a \in Seq(Lines) /\ Len(a) = i
  <2>1. \A j \in 1..i : text[j] \in Lines
    BY <1>2
  <2>2. a \in Seq(Lines) /\ Len(a) = IF 1 <= i THEN i - 1 + 1 ELSE 0
    BY <1>2, <2>1, SubSeqProperties
  <2> HIDE DEF a
  <2> QED BY <1>2, <2>2
<1>4. b \in Seq(Lines) /\ Len(b) = n - i
  <2>1. \A j \in (i + 1)..n : text[j] \in Lines
    BY <1>2
  <2>2. b \in Seq(Lines) /\ Len(b) = IF i + 1 <= n THEN n - (i + 1) + 1 ELSE 0
    BY <1>1, <1>2, <2>1, SubSeqProperties
  <2> HIDE DEF b
  <2> QED BY <1>2, <2>2
<1>5. s = (a \o new) \o b
  OBVIOUS
<1> HIDE DEF a, b
<1>. a \in Seq(Lines) /\ b \in Seq(Lines)
  BY <1>3, <1>4
<1>11. s = a \o (new \o b)
  <2>1. (a \o new) \o b = a \o (new \o b)
    BY Regrouped
  <2> QED BY <1>5, <2>1
<1>6. /\ a \o new \in Seq(Lines) /\ Len(a \o new) = Len(a) + Len(new)
      /\ new \o b \in Seq(Lines)
  BY ConcatProperties
<1>. a \o new \in Seq(Lines) /\ new \o b \in Seq(Lines)
  BY <1>6
<1> DEFINE head == a \o new
<1>12. head \in Seq(Lines)
  OBVIOUS
<1>7. s \in Seq(Lines) /\ Len(s) = Len(a \o new) + Len(b)
  <2> HIDE DEF head
  <2>1. head \o b \in Seq(Lines) /\ Len(head \o b) = Len(head) + Len(b)
    BY <1>12, ConcatProperties
  <2> QED BY <1>5, <2>1 DEF head
<1>8. Len(s) > Len(text)
  <2>1. PICK k \in Nat : k = Len(new)
    BY LenProperties
  <2>2. Len(s) = i + k + (n - i) /\ k > 0
    BY <1>3, <1>4, <1>6, <1>7, <2>1
  <2>3. i + k + (n - i) > n
    BY <1>2, <2>2
  <2> QED BY <1>1, <2>2, <2>3
<1>9. SubSeq(s, 1, i) = a
  BY <1>3, <1>11, Beginning
<1>10. IsSuffix(b, s)
  BY <1>5, End
<1> QED BY <1>7, <1>8, <1>9, <1>10 DEF a, b
LEMMA PlainIsLine == \A k \in Kinds : Plain(k) \in Lines
BY DEF Plain, Line, Lines, Kinds

\* insert_into_fence adds lines at one place and leaves the rest as it is.
LEMMA Inserted ==
    ASSUME NEW text \in Seq(Lines), NEW line \in Lines, NEW s, s = InsertIntoFence(text, line)
    PROVE  /\ s \in Seq(Lines) /\ Len(s) > Len(text)
           /\ \E i \in 0..Len(text) : /\ SubSeq(s, 1, i) = SubSeq(text, 1, i)
                                      /\ IsSuffix(SubSeq(text, i + 1, Len(text)), s)
<1> DEFINE begin == Fence(text, "begin")
           end == Fence(text, "end")
           two == <<Plain("id"), line>>
           four == <<Plain("begin"), Plain("id"), line, Plain("end")>>
<1>1. PICK n \in Nat : n = Len(text)
  BY LenProperties
<1>2. begin \in 0..n /\ end \in 0..n
  BY <1>1, FenceFound
<1>3. Plain("begin") \in Lines /\ Plain("id") \in Lines /\ Plain("end") \in Lines
  BY PlainIsLine DEF Kinds
<1>4. two \in Seq(Lines) /\ Len(two) = 2 /\ four \in Seq(Lines) /\ Len(four) = 4
  <2> HIDE DEF begin, end
  <2> QED BY <1>3
<1>5. s = IF begin # 0 /\ end > begin
          THEN SubSeq(text, 1, end - 1) \o two \o SubSeq(text, end, Len(text))
          ELSE text \o four
  BY DEF InsertIntoFence
<1> HIDE DEF begin, end, two, four
<1>6. CASE begin # 0 /\ end > begin
  <2>1. PICK i \in 0..Len(text) : i = end - 1
    BY <1>1, <1>2, <1>6
  <2>2. end = i + 1
    BY <1>2, <2>1
  <2>3. s = SubSeq(text, 1, i) \o two \o SubSeq(text, i + 1, Len(text))
    BY <1>5, <1>6, <2>1, <2>2
  <2>4. Len(two) > 0
    BY <1>4
  <2> QED BY <1>4, <2>3, <2>4, Spliced
<1>7. CASE ~(begin # 0 /\ end > begin)
  <2>1. PICK i \in 0..Len(text) : i = Len(text)
    BY <1>1
  <2>2. SubSeq(text, 1, i) = text
    BY <2>1, SubSeqFull
  <2>3. SubSeq(text, i + 1, Len(text)) = <<>>
    <3>1. n + 1 \in Int /\ n \in Int /\ n < n + 1
      BY <1>1
    <3>2. SubSeq(text, n + 1, n) = <<>>
      BY <3>1, SubSeqEmpty
    <3> QED BY <1>1, <2>1, <3>2
  <2>4. text \o four \in Seq(Lines)
    BY <1>4, ConcatProperties
  <2>5. (text \o four) \o <<>> = text \o four
    <3> DEFINE whole == text \o four
    <3>1. whole \in Seq(Lines)
      BY <2>4
    <3> HIDE DEF whole
    <3>2. whole \o <<>> = whole
      BY <3>1, ConcatEmptySeq
    <3> QED BY <3>2 DEF whole
  <2>6. s = SubSeq(text, 1, i) \o four \o SubSeq(text, i + 1, Len(text))
    BY <1>5, <1>7, <2>2, <2>3, <2>5
  <2>7. Len(four) > 0
    BY <1>4
  <2> QED BY <1>4, <2>6, <2>7, Spliced
<1> QED BY <1>6, <1>7

Found == [no : Nat, raw : Lines]

LEMMA RewriteIsText ==
    ASSUME NEW text \in Seq(Lines), NEW t \in Found, NEW o \in CronOperations
    PROVE  Rewrite(text, t, o) \in Seq(Lines)
<1>1. CASE o.kind = "new"
  <2>1. o.line \in Lines
    BY <1>1 DEF CronOperations, Changes
  <2> QED BY <1>1, <2>1, Inserted DEF Rewrite
<1>2. CASE o.kind # "new"
  <2>1. o \in Changes
    BY <1>2 DEF CronOperations
  <2>2. PICK i : i = FindJobLine(text, t)
    OBVIOUS
  <2>3. Rewrite(text, t, o) = [text EXCEPT ![i] = Transformed(text[i], t, o)]
    BY <1>2, <2>2 DEF Rewrite
  <2>4. i \in DOMAIN text => text[i] \in Lines
    <3>1. DOMAIN text = 1..Len(text)
      BY LenProperties
    <3> QED BY <3>1, ElementOfSeq
  <2>5. i \in DOMAIN text => Transformed(text[i], t, o) \in Lines
    BY <2>1, <2>4, TransformedIsLine DEF Found
  <2> QED BY <2>3, <2>5, RewriteSequence
<1> QED BY <1>1, <1>2

(* ---- what a command under way knows ---- *)

Stages == {"idle", "scanned", "read", "saved"}
CronTyped ==
    /\ crontab \in Seq(Lines)
    /\ stage \in [Clis -> Stages] /\ calm \in [Clis -> BOOLEAN]
    /\ op \in [Clis -> CronOperations] /\ task \in [Clis -> Found]
    /\ before \in [Clis -> Seq(Lines)] /\ after \in [Clis -> Seq(Lines)]

\* What a command is about to install is the rewrite of what it has read.
Planned(s, o, t, b, a) ==
    /\ s = "scanned" => o \in Changes
    /\ s \in {"read", "saved"} => a = Rewrite(b, t, o)

\* The task stands in the text, and what was read is the text - unless it was read for a
\* new task by a `crontab -l` that failed.
Current(text, s, o, t, b) ==
    /\ s # "idle" /\ o.kind # "new" => \E i \in DOMAIN text : text[i] = t.raw
    /\ s \in {"read", "saved"} /\ (o.kind # "new" \/ ReadFails = FALSE) => b = text

Informed(p) ==
    /\ Planned(stage[p], op[p], task[p], before[p], after[p])
    /\ calm[p] => Current(crontab, stage[p], op[p], task[p], before[p])
CronInv == CronTyped /\ \A p \in Clis : Informed(p)

LEMMA EmptyIsText == <<>> \in Seq(Lines)
BY EmptySeq

LEMMA NothingHeld == NoOp \in Changes /\ NoOp \in CronOperations /\ NoTask \in Found
<1>1. Plain("note") \in Lines
  BY PlainIsLine DEF Kinds
<1>2. NoTask \in Found
  BY <1>1 DEF NoTask, Found
<1> QED BY <1>2 DEF NoOp, Changes, CronOperations

LEMMA InitCronInv == CronInit => CronInv
<1> SUFFICES ASSUME CronInit PROVE CronInv
  OBVIOUS
<1>1. CronTyped
  BY TextsAssumption, EmptyIsText, NothingHeld DEF CronInit, CronTyped, Stages
<1>2. \A p \in Clis : Informed(p)
  BY DEF CronInit, Informed, Planned, Current
<1> QED BY <1>1, <1>2 DEF CronInv

\* A step of one command that leaves the crontab alone.
LEMMA CommandStep ==
    ASSUME CronInv, NEW p \in Clis, NEW s \in Stages, NEW o \in CronOperations, NEW t \in Found,
           NEW b \in Seq(Lines), NEW a \in Seq(Lines), NEW c \in BOOLEAN,
           stage' = [stage EXCEPT ![p] = s], op' = [op EXCEPT ![p] = o],
           task' = [task EXCEPT ![p] = t], before' = [before EXCEPT ![p] = b],
           after' = [after EXCEPT ![p] = a], calm' = [calm EXCEPT ![p] = c], crontab' = crontab,
           Planned(s, o, t, b, a), c => Current(crontab, s, o, t, b)
    PROVE  CronInv'
<1>1. CronTyped'
  BY DEF CronInv, CronTyped
<1>2. \A q \in Clis : Informed(q)'
  <2> SUFFICES ASSUME NEW q \in Clis PROVE Informed(q)'
    OBVIOUS
  <2>1. CASE q = p
    <3>1. /\ stage'[q] = s /\ op'[q] = o /\ task'[q] = t /\ before'[q] = b /\ after'[q] = a
          /\ calm'[q] = c
      BY <2>1 DEF CronInv, CronTyped
    <3> QED BY <3>1 DEF Informed
  <2>2. CASE q # p
    <3>1. /\ stage'[q] = stage[q] /\ op'[q] = op[q] /\ task'[q] = task[q]
          /\ before'[q] = before[q] /\ after'[q] = after[q] /\ calm'[q] = calm[q]
      BY <2>2 DEF CronInv, CronTyped
    <3>2. Informed(q)
      BY DEF CronInv
    <3> QED BY <3>1, <3>2 DEF Informed
  <2> QED BY <2>1, <2>2
<1> QED BY <1>1, <1>2 DEF CronInv

\* A command ends.
LEMMA ReturnStep ==
    ASSUME CronInv, NEW p \in Clis, Return(p), crontab' = crontab,
           NEW c \in BOOLEAN, calm' = [calm EXCEPT ![p] = c]
    PROVE  CronInv'
<1>1. "idle" \in Stages
  BY DEF Stages
<1>2. /\ stage' = [stage EXCEPT ![p] = "idle"] /\ op' = [op EXCEPT ![p] = NoOp]
      /\ task' = [task EXCEPT ![p] = NoTask] /\ before' = [before EXCEPT ![p] = <<>>]
      /\ after' = [after EXCEPT ![p] = <<>>]
  BY DEF Return, Become, Hold
<1>3. Planned("idle", NoOp, NoTask, <<>>, <<>>) /\ Current(crontab, "idle", NoOp, NoTask, <<>>)
  BY DEF Planned, Current
<1> QED BY <1>1, <1>2, <1>3, EmptyIsText, NothingHeld, CommandStep

LEMMA CalmKept ==
    ASSUME CronInv, NEW p \in Clis, calm' = calm
    PROVE  calm[p] \in BOOLEAN /\ calm' = [calm EXCEPT ![p] = calm[p]]
BY DEF CronInv, CronTyped

LEMMA PlanStep ==
    ASSUME CronInv, NEW p \in Clis, NEW o \in CronOperations, NEW t \in Found, NEW text \in Seq(Lines),
           Plan(p, o, t, text), crontab' = crontab, NEW c \in BOOLEAN, calm' = [calm EXCEPT ![p] = c],
           c => Current(crontab, "read", o, t, text)
    PROVE  CronInv'
<1>1. CASE Rewrite(text, t, o) = text
  BY <1>1, ReturnStep DEF Plan
<1>2. CASE Rewrite(text, t, o) # text
  <2>1. /\ stage' = [stage EXCEPT ![p] = "read"] /\ op' = [op EXCEPT ![p] = o]
        /\ task' = [task EXCEPT ![p] = t] /\ before' = [before EXCEPT ![p] = text]
        /\ after' = [after EXCEPT ![p] = Rewrite(text, t, o)]
    BY <1>2 DEF Plan, Become, Hold
  <2>2. Rewrite(text, t, o) \in Seq(Lines) /\ "read" \in Stages
    BY RewriteIsText DEF Stages
  <2>3. Planned("read", o, t, text, Rewrite(text, t, o))
    BY DEF Planned
  <2> QED BY <2>1, <2>2, <2>3, CommandStep
<1> QED BY <1>1, <1>2

LEMMA RequireTaskStep == ASSUME CronInv, NEW p \in Clis, RequireTask(p) PROVE CronInv'
<1>1. PICK t \in Tasks(crontab), o \in Changes : Hold(p, o, t, <<>>, <<>>)
  BY DEF RequireTask
<1>2. /\ stage' = [stage EXCEPT ![p] = "scanned"] /\ calm' = [calm EXCEPT ![p] = TRUE]
      /\ crontab' = crontab
  BY DEF RequireTask, Become
<1>3. /\ op' = [op EXCEPT ![p] = o] /\ task' = [task EXCEPT ![p] = t]
      /\ before' = [before EXCEPT ![p] = <<>>] /\ after' = [after EXCEPT ![p] = <<>>]
  BY <1>1 DEF Hold
<1>4. PICK i \in DOMAIN crontab : t = [no |-> i, raw |-> crontab[i]]
  BY DEF Tasks
<1>5. i \in Nat /\ crontab[i] \in Lines
  <2>1. crontab \in Seq(Lines)
    BY DEF CronInv, CronTyped
  <2>2. DOMAIN crontab = 1..Len(crontab) /\ Len(crontab) \in Nat
    BY <2>1, LenProperties
  <2>3. i \in 1..Len(crontab)
    BY <2>2
  <2>4. crontab[i] \in Lines
    BY <2>1, <2>3, ElementOfSeq
  <2> QED BY <2>2, <2>3, <2>4
<1>6. t \in Found /\ t.raw = crontab[i] /\ o \in CronOperations /\ "scanned" \in Stages
  BY <1>4, <1>5 DEF Found, CronOperations, Stages
<1>7. Planned("scanned", o, t, <<>>, <<>>) /\ Current(crontab, "scanned", o, t, <<>>)
  BY <1>6 DEF Planned, Current
<1> QED BY <1>2, <1>3, <1>6, <1>7, EmptyIsText, CommandStep

LEMMA ReadCrontabStep == ASSUME CronInv, NEW p \in Clis, ReadCrontab(p) PROVE CronInv'
<1>1. Plan(p, op[p], task[p], crontab) /\ crontab' = crontab /\ calm' = calm /\ stage[p] = "scanned"
  BY DEF ReadCrontab
<1>2. op[p] \in CronOperations /\ task[p] \in Found /\ crontab \in Seq(Lines)
  BY DEF CronInv, CronTyped
<1>3. calm[p] => Current(crontab, "read", op[p], task[p], crontab)
  BY <1>1 DEF CronInv, Informed, Current
<1> QED BY <1>1, <1>2, <1>3, CalmKept, PlanStep

LEMMA GiveUpStep == ASSUME CronInv, NEW p \in Clis, GiveUp(p) PROVE CronInv'
BY CalmKept, ReturnStep DEF GiveUp

LEMMA NewCronTaskStep == ASSUME CronInv, NEW p \in Clis, NewCronTask(p) PROVE CronInv'
<1>1. PICK c \in Commands, s \in Schedules, text \in {crontab} \cup (IF ReadFails THEN {<<>>} ELSE {}) :
        Plan(p, [kind |-> "new", line |-> Job(c, s)], NoTask, text)
  BY DEF NewCronTask
<1> DEFINE o == [kind |-> "new", line |-> Job(c, s)]
<1>2. calm' = [calm EXCEPT ![p] = TRUE] /\ crontab' = crontab
  BY DEF NewCronTask
<1>3. Job(c, s) \in Lines
  BY DEF Job, Line, Lines, Kinds
<1>4. o \in CronOperations /\ o.kind = "new"
  BY <1>3 DEF CronOperations
<1>5. text \in Seq(Lines) /\ (ReadFails = FALSE => text = crontab)
  BY EmptyIsText DEF CronInv, CronTyped
<1> HIDE DEF o
<1>6. Current(crontab, "read", o, NoTask, text)
  BY <1>4, <1>5 DEF Current
<1>7. Plan(p, o, NoTask, text)
  BY <1>1 DEF o
<1> QED BY <1>2, <1>4, <1>5, <1>6, <1>7, NothingHeld, PlanStep

LEMMA BackupCrontabStep == ASSUME CronInv, NEW p \in Clis, BackupCrontab(p) PROVE CronInv'
<1>1. /\ stage' = [stage EXCEPT ![p] = "saved"] /\ stage[p] = "read"
      /\ UNCHANGED <<crontab, op, task, before, after, calm>>
  BY DEF BackupCrontab, Become
<1>2. CronTyped'
  BY <1>1 DEF CronInv, CronTyped, Stages
<1>3. \A q \in Clis : Informed(q)'
  <2> SUFFICES ASSUME NEW q \in Clis PROVE Informed(q)'
    OBVIOUS
  <2>1. stage'[q] = stage[q] \/ (stage[q] = "read" /\ stage'[q] = "saved")
    <3>1. stage \in [Clis -> Stages]
      BY DEF CronInv, CronTyped
    <3> QED BY <1>1, <3>1
  <2>2. Informed(q)
    BY DEF CronInv
  <2> QED BY <1>1, <2>1, <2>2 DEF Informed, Planned, Current
<1> QED BY <1>2, <1>3 DEF CronInv

\* Whoever installs a text, what the others know of the crontab is not relied upon any more.
LEMMA InstallUserCrontabStep == ASSUME CronInv, NEW p \in Clis, InstallUserCrontab(p) PROVE CronInv'
<1>1. /\ crontab' = after[p] /\ calm' = [q \in Clis |-> calm[q] /\ q \notin Clis \ {p}]
      /\ stage' = [stage EXCEPT ![p] = "idle"] /\ op' = [op EXCEPT ![p] = NoOp]
      /\ task' = [task EXCEPT ![p] = NoTask] /\ before' = [before EXCEPT ![p] = <<>>]
      /\ after' = [after EXCEPT ![p] = <<>>]
  BY DEF InstallUserCrontab, Installed, Return, Become, Hold
<1>2. CronTyped'
  BY <1>1, EmptyIsText, NothingHeld DEF CronInv, CronTyped, Stages
<1>3. \A q \in Clis : Informed(q)'
  <2> SUFFICES ASSUME NEW q \in Clis PROVE Informed(q)'
    OBVIOUS
  <2>1. CASE q = p
    <3>1. stage'[q] = "idle"
      BY <1>1, <2>1 DEF CronInv, CronTyped
    <3> QED BY <3>1 DEF Informed, Planned, Current
  <2>2. CASE q # p
    <3>1. /\ stage'[q] = stage[q] /\ op'[q] = op[q] /\ task'[q] = task[q]
          /\ before'[q] = before[q] /\ after'[q] = after[q]
      BY <1>1, <2>2 DEF CronInv, CronTyped
    <3>2. ~calm'[q]
      BY <1>1, <2>2
    <3>3. Informed(q)
      BY DEF CronInv
    <3> QED BY <3>1, <3>2, <3>3 DEF Informed
  <2> QED BY <2>1, <2>2
<1> QED BY <1>2, <1>3 DEF CronInv

LEMMA AbandonStep == ASSUME CronInv, NEW p \in Clis, Abandon(p) PROVE CronInv'
BY CalmKept, ReturnStep DEF Abandon

LEMMA UserTextIsText ==
    ASSUME NEW old \in Seq(Lines),
           NEW text \in UserTexts(old)
    PROVE  text \in Seq(Lines)
<1>1. PICK n \in Nat : n = Len(old) /\ DOMAIN old = 1..n
  BY LenProperties
<1>2. \A j \in 1..n : old[j] \in Lines
  BY <1>1, ElementOfSeq
<1>3. \A i, j \in Int : 1 <= i /\ j <= n => SubSeq(old, i, j) \in Seq(Lines)
  <2> TAKE i, j \in Int
  <2> HAVE 1 <= i /\ j <= n
  <2>1. \A k \in i..j : old[k] \in Lines
    BY <1>2
  <2> QED BY <2>1, SubSeqProperties
<1>4. ASSUME NEW i \in 1..n, text = RemoveAt(old, i) PROVE text \in Seq(Lines)
  <2>1. text = SubSeq(old, 1, i - 1) \o SubSeq(old, i + 1, n)
    BY <1>1, <1>4 DEF RemoveAt
  <2>2. SubSeq(old, 1, i - 1) \in Seq(Lines) /\ SubSeq(old, i + 1, n) \in Seq(Lines)
    BY <1>3
  <2> QED BY <2>1, <2>2, ConcatProperties
<1>5. ASSUME NEW i \in 1..n + 1, text = InsertAt(old, i, Plain("note")) PROVE text \in Seq(Lines)
  <2>1. text = SubSeq(old, 1, i - 1) \o <<Plain("note")>> \o SubSeq(old, i, n)
    BY <1>1, <1>5 DEF InsertAt
  <2> i \in Int /\ i - 1 \in Int /\ 1 <= i /\ i - 1 <= n
    OBVIOUS
  <2>2. SubSeq(old, 1, i - 1) \in Seq(Lines) /\ SubSeq(old, i, n) \in Seq(Lines)
    BY <1>3
  <2>3. <<Plain("note")>> \in Seq(Lines)
    BY PlainIsLine DEF Kinds
  <2>4. SubSeq(old, 1, i - 1) \o <<Plain("note")>> \in Seq(Lines)
    BY <2>2, <2>3, ConcatProperties
  <2> QED BY <2>1, <2>2, <2>4, ConcatProperties
<1>6. ASSUME NEW i \in 1..n, NEW s \in Spacings, text = [old EXCEPT ![i].spacing = s]
      PROVE  text \in Seq(Lines)
  <2>1. [old[i] EXCEPT !.spacing = s] \in Lines
    BY <1>2 DEF Lines
  <2>2. text = [old EXCEPT ![i] = [old[i] EXCEPT !.spacing = s]]
    BY <1>6
  <2> QED BY <2>1, <2>2, RewriteSequence
<1>7. \/ \E i \in DOMAIN old : text = RemoveAt(old, i)
      \/ \E i \in 1..Len(old) + 1 : text = InsertAt(old, i, Plain("note"))
      \/ \E i \in DOMAIN old, s \in Spacings : text = [old EXCEPT ![i].spacing = s]
  BY DEF UserTexts
<1> QED BY <1>1, <1>4, <1>5, <1>6, <1>7

LEMMA UserEditStep == ASSUME CronInv, UserEdit PROVE CronInv'
<1>1. /\ UNCHANGED <<stage, op, task, before, after>>
      /\ calm' = [q \in Clis |-> calm[q] /\ q \notin Clis]
  BY DEF UserEdit, Installed
<1>2. crontab' \in Seq(Lines)
  <2>1. PICK text \in UserTexts(crontab) : crontab' = text
    BY DEF UserEdit, Installed
  <2>2. crontab \in Seq(Lines)
    BY DEF CronInv, CronTyped
  <2>5. text \in Seq(Lines)
    BY <2>2, UserTextIsText
  <2> QED BY <2>1, <2>5
<1>3. CronTyped'
  BY <1>1, <1>2 DEF CronInv, CronTyped
<1>4. \A q \in Clis : Informed(q)'
  BY <1>1 DEF CronInv, Informed
<1> QED BY <1>3, <1>4 DEF CronInv

LEMMA NextCronInv == ASSUME CronInv, [CronNext]_cronVars PROVE CronInv'
<1>1. CASE UNCHANGED cronVars \/ Tick
  <2>1. UNCHANGED <<crontab, stage, op, task, before, after, calm>>
    BY <1>1 DEF cronVars, Tick
  <2> QED BY <2>1 DEF CronInv, CronTyped, Informed
<1>2. ASSUME NEW p \in Clis,
             \/ RequireTask(p) \/ ReadCrontab(p) \/ GiveUp(p) \/ NewCronTask(p)
             \/ BackupCrontab(p) \/ InstallUserCrontab(p) \/ Abandon(p)
      PROVE  CronInv'
  BY <1>2, RequireTaskStep, ReadCrontabStep, GiveUpStep, NewCronTaskStep, BackupCrontabStep,
     InstallUserCrontabStep, AbandonStep
<1>3. CASE UserEdit
  BY <1>3, UserEditStep
<1> QED BY <1>1, <1>2, <1>3 DEF CronNext

\* Only its own installation ends a command whose text goes in.
LEMMA InstallsItsOwn ==
    ASSUME CronInv, [CronNext]_cronVars, NEW p \in Clis, Undisturbed(p)
    PROVE  crontab' = after[p]
<1>1. stage[p] = "saved" /\ stage'[p] = "idle" /\ crontab' # crontab
  BY DEF Undisturbed
<1>2. CASE \E q \in Clis : InstallUserCrontab(q)
  <2>1. PICK q \in Clis : InstallUserCrontab(q)
    BY <1>2
  <2>2. crontab' = after[q] /\ stage' = [stage EXCEPT ![q] = "idle"]
    BY <2>1 DEF InstallUserCrontab, Installed, Return, Become
  <2>3. q = p
    BY <1>1, <2>2 DEF CronInv, CronTyped
  <2> QED BY <2>2, <2>3
<1>3. CASE UserEdit
  BY <1>1, <1>3 DEF UserEdit
<1>4. ~(UNCHANGED cronVars \/ Tick)
  BY <1>1 DEF cronVars, Tick
<1>5. ASSUME NEW q \in Clis,
             RequireTask(q) \/ ReadCrontab(q) \/ GiveUp(q) \/ NewCronTask(q) \/ BackupCrontab(q) \/ Abandon(q)
      PROVE  FALSE
  BY <1>1, <1>5 DEF RequireTask, ReadCrontab, GiveUp, NewCronTask, BackupCrontab, Abandon
<1> QED BY <1>2, <1>3, <1>4, <1>5 DEF CronNext

\* What a change of a task makes of the text it stands in.
LEMMA ChangesOneLine ==
    ASSUME NEW text \in Seq(Lines), NEW t \in Found, NEW o \in Changes,
           \E i \in DOMAIN text : text[i] = t.raw
    PROVE  \E i \in DOMAIN text :
              text[i] = t.raw /\ Rewrite(text, t, o) = [text EXCEPT ![i] = Transformed(t.raw, t, o)]
<1>1. PICK i : i = FindJobLine(text, t)
  OBVIOUS
<1>2. i \in DOMAIN text /\ text[i] = t.raw
  BY <1>1, ExactFound
<1>3. o.kind # "new"
  BY DEF Changes
<1>4. Rewrite(text, t, o) = [text EXCEPT ![i] = Transformed(text[i], t, o)]
  BY <1>1, <1>3 DEF Rewrite
<1> QED BY <1>2, <1>4

LEMMA KeepsCommand ==
    ASSUME NEW t \in Found, NEW o \in Changes
    PROVE  Transformed(t.raw, t, o).command = t.raw.command
<1>1. o.kind \in {"disable", "enable", "edit"} /\ t.raw \in Lines
  BY DEF Changes, Found
<1>2. CASE o.kind = "disable"
  BY <1>1, <1>2 DEF Transformed, Disabled, Lines
<1>3. CASE o.kind = "enable"
  BY <1>1, <1>3 DEF Transformed, DisabledOriginal, Lines
<1>4. CASE o.kind = "edit"
  BY <1>1, <1>4 DEF Transformed, Edited, Job, Line
<1> QED BY <1>1, <1>2, <1>3, <1>4

LEMMA KeepsBare ==
    ASSUME NEW t \in Found, NEW o \in Changes, o.kind \in {"disable", "enable"}, "trailing" \notin Spacings
    PROVE  [Transformed(t.raw, t, o) EXCEPT !.marks = 0] = [t.raw EXCEPT !.marks = 0]
<1>1. t.raw \in Lines /\ t.raw.spacing # "trailing"
  BY DEF Found, Lines
<1>2. CASE o.kind = "disable"
  BY <1>1, <1>2 DEF Transformed, Disabled, Lines
<1>3. CASE o.kind = "enable"
  <2>1. Transformed(t.raw, t, o) = [t.raw EXCEPT !.marks = 0, !.spacing = t.raw.spacing]
    BY <1>1, <1>3 DEF Transformed, DisabledOriginal
  <2> QED BY <1>1, <2>1 DEF Lines
<1> QED BY <1>2, <1>3

\* What the command has read is the crontab it replaces.
LEMMA InstallsItsRewrite ==
    ASSUME CronInv, [CronNext]_cronVars, NEW p \in Clis, Undisturbed(p),
           op[p].kind # "new" \/ ReadFails = FALSE
    PROVE  /\ crontab' = Rewrite(crontab, task[p], op[p])
           /\ crontab \in Seq(Lines) /\ op[p] \in CronOperations /\ task[p] \in Found
           /\ op[p].kind # "new" => \E i \in DOMAIN crontab : crontab[i] = task[p].raw
<1>1. crontab' = after[p]
  BY InstallsItsOwn
<1>2. stage[p] = "saved" /\ calm[p]
  BY DEF Undisturbed
<1>3. Informed(p) /\ CronTyped
  BY DEF CronInv
<1>4. Planned(stage[p], op[p], task[p], before[p], after[p])
      /\ Current(crontab, stage[p], op[p], task[p], before[p])
  BY <1>2, <1>3 DEF Informed
<1>5. after[p] = Rewrite(before[p], task[p], op[p]) /\ before[p] = crontab
  BY <1>2, <1>4 DEF Planned, Current
<1>6. op[p].kind # "new" => \E i \in DOMAIN crontab : crontab[i] = task[p].raw
  BY <1>2, <1>4 DEF Current
<1> QED BY <1>1, <1>3, <1>5, <1>6 DEF CronTyped

LEMMA StepSpares ==
    ASSUME CronInv, [CronNext]_cronVars, ReadFails = FALSE, NEW p \in Clis, Undisturbed(p)
    PROVE  IF op[p].kind = "new" THEN AddsLines ELSE RewritesOneLine(p)
<1>1. PICK text, t, o, next : text = crontab /\ t = task[p] /\ o = op[p] /\ next = crontab'
  OBVIOUS
<1>2. /\ next = Rewrite(text, t, o) /\ text \in Seq(Lines) /\ o \in CronOperations /\ t \in Found
      /\ o.kind # "new" => \E i \in DOMAIN text : text[i] = t.raw
  BY <1>1, InstallsItsRewrite
<1>3. CASE o.kind = "new"
  <2>1. o.line \in Lines
    BY <1>2, <1>3 DEF CronOperations, Changes
  <2>2. next = InsertIntoFence(text, o.line)
    BY <1>2, <1>3 DEF Rewrite
  <2>3. /\ Len(next) > Len(text)
        /\ \E i \in 0..Len(text) : /\ SubSeq(next, 1, i) = SubSeq(text, 1, i)
                                   /\ IsSuffix(SubSeq(text, i + 1, Len(text)), next)
    BY <1>2, <2>1, <2>2, Inserted
  <2> QED BY <1>1, <1>3, <2>3 DEF AddsLines
<1>4. CASE o.kind # "new"
  <2>1. o \in Changes
    BY <1>2, <1>4 DEF CronOperations
  <2>2. PICK i \in DOMAIN text : text[i] = t.raw /\ next = [text EXCEPT ![i] = Transformed(t.raw, t, o)]
    BY <1>2, <1>4, <2>1, ChangesOneLine
  <2>3. next[i] = Transformed(t.raw, t, o)
    BY <2>2
  <2>4. next[i].command = t.raw.command
    BY <1>2, <2>1, <2>3, KeepsCommand
  <2>5. next = [text EXCEPT ![i] = next[i]]
    BY <2>2, <2>3
  <2> QED BY <1>1, <1>4, <2>2, <2>4, <2>5 DEF RewritesOneLine
<1> QED BY <1>3, <1>4

LEMMA StepRestores ==
    ASSUME CronInv, [CronNext]_cronVars, "trailing" \notin Spacings, NEW p \in Clis, Undisturbed(p),
           op[p].kind \in {"disable", "enable"}
    PROVE  Bare(crontab') = Bare(crontab)
<1>1. PICK text, t, o, next : text = crontab /\ t = task[p] /\ o = op[p] /\ next = crontab'
  OBVIOUS
<1>2. /\ next = Rewrite(text, t, o) /\ o \in CronOperations /\ t \in Found /\ text \in Seq(Lines)
      /\ \E i \in DOMAIN text : text[i] = t.raw
  BY <1>1, InstallsItsRewrite
<1>3. o \in Changes /\ o.kind \in {"disable", "enable"}
  BY <1>1, <1>2 DEF CronOperations
<1>4. PICK i \in DOMAIN text : text[i] = t.raw /\ next = [text EXCEPT ![i] = Transformed(t.raw, t, o)]
  BY <1>2, <1>3, ChangesOneLine
<1>5. DOMAIN next = DOMAIN text
  BY <1>4
<1>6. \A j \in DOMAIN text : [next[j] EXCEPT !.marks = 0] = [text[j] EXCEPT !.marks = 0]
  <2> TAKE j \in DOMAIN text
  <2>1. CASE j = i
    <3>1. next[j] = Transformed(t.raw, t, o) /\ text[j] = t.raw
      BY <1>4, <2>1
    <3> QED BY <1>2, <1>3, <3>1, KeepsBare
  <2>2. CASE j # i
    <3>1. next[j] = text[j]
      BY <1>4, <2>2
    <3> QED BY <3>1
  <2> QED BY <2>1, <2>2
<1>7. Bare(next) = Bare(text)
  BY <1>5, <1>6 DEF Bare
<1> QED BY <1>1, <1>7

(* ---- the backups ---- *)

\* The files are named by seconds up to now.
Backups ==
    /\ now \in Nat /\ DOMAIN backups \subseteq 0..now
    /\ stage \in [Clis -> Stages] /\ DOMAIN before = Clis
    /\ BackedUp

LEMMA InitBackups == CronInit => Backups
<1> SUFFICES ASSUME CronInit PROVE Backups
  OBVIOUS
<1>1. DOMAIN backups = {}
  BY DEF CronInit
<1> QED BY <1>1 DEF CronInit, Backups, BackedUp, Stages

\* The backup just made is the newest, and so none of those the prune takes.
LEMMA NewestIsKeptByPrune ==
    ASSUME NEW files, NEW text, now \in Nat, DOMAIN files \subseteq 0..now
    PROVE  /\ DOMAIN Saved(files, text) \subseteq 0..now
           /\ now \in DOMAIN Saved(files, text) /\ Saved(files, text)[now] = text
<1> DEFINE all == [s \in DOMAIN files \cup {now} |-> IF s = now THEN text ELSE files[s]]
           kept == {s \in DOMAIN all : Cardinality({r \in DOMAIN all : r > s}) < MaxBackups}
<1>1. Saved(files, text) = [s \in kept |-> all[s]]
  BY DEF Saved, Pruned
<1>2. DOMAIN all = DOMAIN files \cup {now} /\ all[now] = text
  OBVIOUS
<1>3. DOMAIN all \subseteq 0..now
  BY <1>2
<1> HIDE DEF all
<1>4. {r \in DOMAIN all : r > now} = {}
  BY <1>3
<1>5. Cardinality({r \in DOMAIN all : r > now}) < MaxBackups
  BY <1>4, FS_EmptySet, CronBoundsAssumption
<1>6. now \in kept /\ kept \subseteq 0..now
  BY <1>2, <1>3, <1>5
<1> HIDE DEF kept
<1> QED BY <1>1, <1>2, <1>6

LEMMA NextBackups ==
    ASSUME Backups, [CronNext]_cronVars, \A p, q \in Clis : p = q
    PROVE  Backups'
<1>1. CASE UNCHANGED cronVars
  BY <1>1 DEF cronVars, Backups, BackedUp
<1>2. CASE UserEdit
  BY <1>2 DEF UserEdit, Backups, BackedUp
<1>3. CASE Tick
  <2>1. now' = now + 1 /\ UNCHANGED <<backups, stage, before>>
    BY <1>3 DEF Tick
  <2>2. now' \in Nat /\ DOMAIN backups' \subseteq 0..now'
    BY <2>1 DEF Backups
  <2> QED BY <2>1, <2>2 DEF Backups, BackedUp
<1>4. ASSUME NEW p \in Clis, NEW s \in Stages, s # "saved", Become(p, s), UNCHANGED <<backups, now>>,
             DOMAIN before' = DOMAIN before
      PROVE  Backups'
  <2>1. stage' \in [Clis -> Stages] /\ \A q \in Clis : stage'[q] # "saved"
    BY <1>4 DEF Backups, Become
  <2> QED BY <1>4, <2>1 DEF Backups, BackedUp
<1>5. ASSUME NEW p \in Clis, RequireTask(p) \/ ReadCrontab(p) \/ GiveUp(p) \/ NewCronTask(p)
                             \/ InstallUserCrontab(p) \/ Abandon(p)
      PROVE  Backups'
  <2>1. UNCHANGED <<backups, now>> /\ \E s \in {"idle", "scanned", "read"} : Become(p, s)
    BY <1>5, Zenon DEF RequireTask, ReadCrontab, GiveUp, NewCronTask, InstallUserCrontab, Abandon, Plan, Return
  <2>2. DOMAIN before' = DOMAIN before
    BY <1>5 DEF RequireTask, ReadCrontab, GiveUp, NewCronTask, InstallUserCrontab, Abandon, Plan, Return, Hold
  <2> QED BY <1>4, <2>1, <2>2 DEF Stages
<1>6. ASSUME NEW p \in Clis, BackupCrontab(p) PROVE Backups'
  <2>1. backups' = Saved(backups, before[p]) /\ UNCHANGED <<now, before>> /\ stage' = [stage EXCEPT ![p] = "saved"]
    BY <1>6 DEF BackupCrontab, Become
  <2>2. now \in Nat /\ DOMAIN backups \subseteq 0..now
    BY DEF Backups
  <2>3. /\ DOMAIN backups' \subseteq 0..now
        /\ now \in DOMAIN backups' /\ backups'[now] = before[p]
    BY <2>1, <2>2, NewestIsKeptByPrune
  <2>4. \A q \in Clis : \E s \in DOMAIN backups' : backups'[s] = before[q]
    BY <2>3
  <2>5. stage' \in [Clis -> Stages]
    BY <2>1 DEF Backups, Stages
  <2> QED BY <2>1, <2>2, <2>3, <2>4, <2>5 DEF Backups, BackedUp
<1> QED BY <1>1, <1>2, <1>3, <1>5, <1>6 DEF CronNext

\* With one command line at a time, a text is replaced only once a backup holds the text it was made
\* from, whatever the prune of older backups has removed and whatever the user edits meanwhile.
THEOREM ReplacedTextIsBackedUp == (\A p, q \in Clis : p = q) => (CronSpec => []BackedUp)
<1> SUFFICES ASSUME \A p, q \in Clis : p = q PROVE CronSpec => []BackedUp
  OBVIOUS
<1>1. CronInit => Backups
  BY InitBackups
<1>2. Backups /\ [CronNext]_cronVars => Backups'
  BY NextBackups
<1>3. Backups => BackedUp
  BY DEF Backups
<1> QED BY <1>1, <1>2, <1>3, PTL DEF CronSpec

\* As long as `crontab -l` does not fail, a command whose crontab nobody has touched since its scan
\* leaves every line but its own as it is and where it is, for any number of command lines.
THEOREM OthersLinesAreSpared == ReadFails = FALSE => (CronSpec => SparesTheOthers)
<1> SUFFICES ASSUME ReadFails = FALSE PROVE CronSpec => SparesTheOthers
  OBVIOUS
<1>1. CronInit => CronInv
  BY InitCronInv
<1>2. CronInv /\ [CronNext]_cronVars => CronInv'
  BY NextCronInv
<1>3. CronInv /\ [CronNext]_cronVars =>
        [\A p \in Clis : Undisturbed(p) => IF op[p].kind = "new" THEN AddsLines ELSE RewritesOneLine(p)]_cronVars
  BY StepSpares
<1> QED BY <1>1, <1>2, <1>3, PTL DEF CronSpec, SparesTheOthers

\* Where no line ends in spaces, any number of disables and enables leaves every line saying what it
\* said and spaced as it was.
THEOREM DisablingIsUndone == "trailing" \notin Spacings => (CronSpec => RestoreIsExact)
<1> SUFFICES ASSUME "trailing" \notin Spacings PROVE CronSpec => RestoreIsExact
  OBVIOUS
<1>1. CronInit => CronInv
  BY InitCronInv
<1>2. CronInv /\ [CronNext]_cronVars => CronInv'
  BY NextCronInv
<1>3. CronInv /\ [CronNext]_cronVars =>
        [\A p \in Clis : (Undisturbed(p) /\ op[p].kind \in {"disable", "enable"}) =>
                          Bare(crontab') = Bare(crontab)]_cronVars
  BY StepRestores
<1> QED BY <1>1, <1>2, <1>3, PTL DEF CronSpec, RestoreIsExact

=============================================================================
