---------------------------- MODULE SlotChannel ----------------------------
(***************************************************************************)
(* Requests of apps through slot files (slots/service.rs, slots/layout.rs): *)
(* a producer claims an empty stub in free/ and writes its request back on  *)
(* the same name; a consumer moves the request to work/, applies it once    *)
(* and answers in done/, or puts the file into bad/.  Producers and         *)
(* consumers are threads of different processes that share nothing but the  *)
(* directory, one claim lock per slot and the database.                     *)
(***************************************************************************)
EXTENDS Integers, FiniteSets, FiniteSetsExt

CONSTANTS
    Producers,    \* calls of publish
    Consumers,    \* loops that poll: the watcher, a slot-submit
    RequestOf,    \* the request_id each producer publishes
    Timers,       \* what the requests act on
    Apps,         \* app names
    Effect,       \* operation, timer, app name and acknowledgement of each request
    MinFree,      \* MIN_FREE_SLOTS
    MaxId,        \* bound: slot ids
    Faults,       \* of "crash", "io", "store", "taken": what the environment does
    MaxFaults     \* bound: how often

Requests == {RequestOf[p] : p \in Producers}
Operations == {"add", "modify", "delete"}
ASSUME RequestsAssumption == Requests \subseteq Nat \ {0}
ASSUME EffectAssumption ==
    Effect \in [Requests -> [op : Operations, timer : Timers, app : Apps, ack : BOOLEAN]]
ASSUME BoundsAssumption == MinFree \in Nat \ {0} /\ MaxId \in Nat /\ MaxFaults \in Nat
ASSUME SidesAssumption == Producers \cap Consumers = {}
ASSUME FaultsAssumption == Faults \subseteq {"crash", "io", "store", "taken"}

Ids == 1..MaxId
Actors == Producers \cup Consumers
Absent == -1
Stub == 0
Nobody == "nobody"
ASSUME AppsAssumption == Nobody \notin Apps
Contents == {Stub} \cup Requests

VARIABLES
    free, work, done,   \* per slot id: Absent, Stub or the request it holds or answers
    bad,                \* quarantined files: <<id, content>>
    claim,              \* the .claim- file of each producer: <<id, content>>, or {}
    left,               \* ids of claim files of dead producers, with their content
    ledger,             \* slot_requests: "none", "ok", "err"
    owner,              \* the app of each timer that exists, Nobody where there is none
    acked,              \* timers with an acknowledgement cursor
    open,               \* timers whose last run is not resolved
    times,              \* how often each request changed the timers
    told,               \* producers that were told their request is published
    at,                 \* what each actor does next
    id,                 \* the slot it works on
    read,               \* the request a consumer read there
    todo,               \* slots it has listed and not handled yet
    refill,             \* the stub a replenish makes next and how many it wants
    faults

dirs == <<free, work, done, bad, claim, left>>
db == <<ledger, owner, acked, open, times>>
vars == <<dirs, db, told, at, id, read, todo, refill, faults>>

NoRefill == [want |-> 0, next |-> 0]
States == {"closed", "idle", "scan", "stubbed", "renamed", "claimed", "written", "over",
           "claims", "move", "badfree", "works", "apply", "answer", "unlink", "badwork"}

TypeOK ==
    /\ free \in [Ids -> {Absent} \cup Contents]
    /\ work \in [Ids -> {Absent} \cup Contents]
    /\ done \in [Ids -> {Absent} \cup Requests]
    /\ bad \subseteq Ids \X Contents /\ left \subseteq Ids \X Contents
    /\ \A p \in Producers : claim[p] \subseteq Ids \X Contents /\ Cardinality(claim[p]) <= 1
    /\ ledger \in [Requests -> {"none", "ok", "err"}]
    /\ owner \in [Timers -> Apps \cup {Nobody}] /\ acked \subseteq Timers /\ open \subseteq Timers
    /\ times \in [Requests -> Nat]
    /\ told \subseteq Producers
    /\ at \in [Actors -> States] /\ id \in [Actors -> Ids \cup {0}]
    /\ read \in [Consumers -> {Stub} \cup Requests] /\ todo \in [Actors -> SUBSET Ids]
    /\ refill \in [Actors -> [want : 0..MinFree, next : 0..MaxId + 1]]
    /\ faults \in 0..MaxFaults

Init ==
    /\ free = [i \in Ids |-> IF i <= MinFree THEN Stub ELSE Absent]
    /\ work = [i \in Ids |-> Absent] /\ done = [i \in Ids |-> Absent]
    /\ bad = {} /\ left = {} /\ claim = [p \in Producers |-> {}]
    /\ ledger = [q \in Requests |-> "none"] /\ times = [q \in Requests |-> 0]
    /\ owner = [t \in Timers |-> Nobody] /\ acked = {} /\ open = {}
    /\ told = {}
    /\ at = [a \in Actors |-> "closed"] /\ id = [a \in Actors |-> 0]
    /\ read = [c \in Consumers |-> Stub] /\ todo = [a \in Actors |-> {}]
    /\ refill = [a \in Actors |-> NoRefill] /\ faults = 0

-----------------------------------------------------------------------------
Happens(f) == f \in Faults /\ faults < MaxFaults /\ faults' = faults + 1
Goto(a, state) == at' = [at EXCEPT ![a] = state]
Files(dir) == {i \in Ids : dir[i] # Absent}

\* Mutant: nobody looks for a claim file.
NoLock(i) == FALSE
\* A producer holds the claim lock of its slot from the read of the stub to the
\* removal of its claim file; a dead one holds nothing.
Locked(i) == \E p \in Producers : id[p] = i /\ at[p] \in {"stubbed", "renamed", "claimed", "written"}

(* ---- replenish ---- *)

Stubs == {i \in Ids : free[i] = Stub}
Claims == UNION {claim[p] : p \in Producers} \cup left

\* next_slot_id: one more than the ids in free, work, done, bad and the claim files.
Used == Files(free) \cup Files(work) \cup Files(done) \cup {f[1] : f \in bad \cup Claims}
NextId == 1 + Max({0} \cup Used)

\* Only stubs count; then they are made one by one, each only where there is no file.
Wants == IF Cardinality(Stubs) < MinFree THEN MinFree - Cardinality(Stubs) ELSE 0
Refill(want, next) == IF want = 0 THEN NoRefill ELSE [want |-> want, next |-> next]
RefillStart(a) == refill' = [refill EXCEPT ![a] = Refill(Wants, NextId)]
Filling(a) == refill[a].want > 0 /\ refill[a].next \in Ids

RefillCreate(a) ==
    LET r == refill[a]
        made == free[r.next] = Absent IN
    /\ Filling(a)
    /\ free' = [free EXCEPT ![r.next] = IF made THEN Stub ELSE @]
    /\ refill' = [refill EXCEPT ![a] = Refill(IF made THEN r.want - 1 ELSE r.want, r.next + 1)]
    /\ UNCHANGED <<work, done, bad, claim, left, db, told, at, id, read, todo, faults>>

\* SlotService::open: every process fills up the stubs before it does anything else.
Open(a) ==
    /\ at[a] = "closed" /\ RefillStart(a) /\ Goto(a, "idle")
    /\ UNCHANGED <<dirs, db, told, id, read, todo, faults>>

(* ---- publish ---- *)

ListFree(p) ==
    /\ at[p] = "idle" /\ todo' = [todo EXCEPT ![p] = Files(free)] /\ Goto(p, "scan")
    /\ UNCHANGED <<dirs, db, told, id, read, refill, faults>>

NoFreeSlot(p) ==
    /\ at[p] = "scan" /\ todo[p] = {} /\ Goto(p, "over")
    /\ UNCHANGED <<dirs, db, told, id, read, todo, refill, faults>>

\* try_claim_lock, then the read: a slot that is locked or no stub is passed over.
TryLock(p) ==
    /\ at[p] = "scan" /\ todo[p] # {}
    /\ LET i == Min(todo[p]) IN
       /\ todo' = [todo EXCEPT ![p] = @ \ {i}]
       /\ IF ~Locked(i) /\ free[i] = Stub
          THEN Goto(p, "stubbed") /\ id' = [id EXCEPT ![p] = i]
          ELSE UNCHANGED <<at, id>>
    /\ UNCHANGED <<dirs, db, told, read, refill, faults>>

\* The rename takes whatever is at the name by now.
Rename(p) ==
    LET i == id[p] IN
    /\ at[p] = "stubbed"
    /\ IF free[i] = Absent
       THEN Goto(p, "scan") /\ id' = [id EXCEPT ![p] = 0] /\ UNCHANGED <<free, claim>>
       ELSE /\ claim' = [claim EXCEPT ![p] = {<<i, free[i]>>}] /\ free' = [free EXCEPT ![i] = Absent]
            /\ Goto(p, "renamed") /\ UNCHANGED id
    /\ UNCHANGED <<work, done, bad, left, db, told, read, todo, refill, faults>>

\* It reads what it took; what is no stub goes back to its name.
Verify(p) ==
    LET i == id[p] IN
    /\ at[p] = "renamed"
    /\ IF claim[p] = {<<i, Stub>>}
       THEN Goto(p, "claimed") /\ UNCHANGED <<free, claim, id>>
       ELSE /\ free' = [free EXCEPT ![i] = (CHOOSE f \in claim[p] : TRUE)[2]]
            /\ claim' = [claim EXCEPT ![p] = {}] /\ id' = [id EXCEPT ![p] = 0] /\ Goto(p, "scan")
    /\ UNCHANGED <<work, done, bad, left, db, told, read, todo, refill, faults>>

WriteRequest(p) ==
    /\ at[p] = "claimed" /\ free' = [free EXCEPT ![id[p]] = RequestOf[p]] /\ Goto(p, "written")
    /\ UNCHANGED <<work, done, bad, claim, left, db, told, id, read, todo, refill, faults>>

WriteFails(p) ==
    /\ at[p] = "claimed" /\ Happens("io")
    /\ claim' = [claim EXCEPT ![p] = {}] /\ id' = [id EXCEPT ![p] = 0] /\ Goto(p, "over")
    /\ UNCHANGED <<free, work, done, bad, left, db, told, read, todo, refill>>

\* The claim file goes, the lock goes, the stubs are filled up, the caller is told.
Publish(p) ==
    /\ at[p] = "written"
    /\ claim' = [claim EXCEPT ![p] = {}] /\ id' = [id EXCEPT ![p] = 0]
    /\ told' = told \cup {p} /\ RefillStart(p) /\ Goto(p, "over")
    /\ UNCHANGED <<free, work, done, bad, left, db, read, todo, faults>>

(* ---- poll: free/ ---- *)

Poll(c) ==
    /\ at[c] = "idle" /\ todo' = [todo EXCEPT ![c] = Files(free)] /\ Goto(c, "claims")
    /\ UNCHANGED <<dirs, db, told, id, read, refill, faults>>

\* A file that is not there any more is an error of the read, and goes the way of the
\* unreadable ones.
LookFree(c) ==
    /\ at[c] = "claims" /\ todo[c] # {}
    /\ LET i == Min(todo[c]) IN
       /\ todo' = [todo EXCEPT ![c] = @ \ {i}]
       /\ IF free[i] = Stub THEN UNCHANGED <<at, id>>
          ELSE id' = [id EXCEPT ![c] = i] /\ Goto(c, IF free[i] = Absent THEN "badfree" ELSE "move")
    /\ UNCHANGED <<dirs, db, told, read, refill, faults>>

\* claim_file: the rename takes whatever is at the name by now.
ClaimFile(c) ==
    LET i == id[c] IN
    /\ at[c] = "move" /\ id' = [id EXCEPT ![c] = 0] /\ Goto(c, "claims")
    /\ IF free[i] = Absent
       THEN UNCHANGED <<free, work, refill>>
       ELSE /\ work' = [work EXCEPT ![i] = free[i]] /\ free' = [free EXCEPT ![i] = Absent]
            /\ RefillStart(c)
    /\ UNCHANGED <<done, bad, claim, left, db, told, read, todo, faults>>

\* Mutant: a file that cannot be applied is deleted.
Removed(dir, i) == bad
Quarantined(dir, i) == bad \cup (IF dir[i] = Absent THEN {} ELSE {<<i, dir[i]>>})

QuarantineFree(c) ==
    LET i == id[c] IN
    /\ at[c] = "badfree" /\ id' = [id EXCEPT ![c] = 0] /\ Goto(c, "claims")
    /\ bad' = Quarantined(free, i) /\ free' = [free EXCEPT ![i] = Absent] /\ RefillStart(c)
    /\ UNCHANGED <<work, done, claim, left, db, told, read, todo, faults>>

(* ---- poll: work/ ---- *)

ListWork(c) ==
    /\ at[c] = "claims" /\ todo[c] = {} /\ todo' = [todo EXCEPT ![c] = Files(work)] /\ Goto(c, "works")
    /\ UNCHANGED <<dirs, db, told, id, read, refill, faults>>

LookWork(c) ==
    /\ at[c] = "works" /\ todo[c] # {}
    /\ LET i == Min(todo[c]) IN
       /\ todo' = [todo EXCEPT ![c] = @ \ {i}] /\ id' = [id EXCEPT ![c] = i]
       /\ IF work[i] \in Requests
          THEN read' = [read EXCEPT ![c] = work[i]] /\ Goto(c, "apply")
          ELSE Goto(c, "badwork") /\ UNCHANGED read
    /\ UNCHANGED <<dirs, db, told, refill, faults>>

(* apply_request_tx: a modify or a delete is refused unless the app of the request made *)
(* the timer.  A delete resolves the timer's open run and drops its cursor with it.     *)
Refused(q) == Effect[q].op # "add" /\ owner[Effect[q].timer] # Effect[q].app
OwnerAfter(q) == CASE Effect[q].op = "add" -> Effect[q].app
                   [] Effect[q].op = "delete" -> Nobody
                   [] OTHER -> owner[Effect[q].timer]
AckedAfter(q) == CASE Effect[q].op = "delete" -> acked \ {Effect[q].timer}
                   [] OTHER -> IF Effect[q].ack THEN acked \cup {Effect[q].timer} ELSE acked
OpenAfter(q) == IF Effect[q].op = "delete" THEN open \ {Effect[q].timer} ELSE open
ApplyRequest(q) ==
    /\ owner' = [owner EXCEPT ![Effect[q].timer] = OwnerAfter(q)]
    /\ acked' = AckedAfter(q) /\ open' = OpenAfter(q)
    /\ times' = [times EXCEPT ![q] = @ + 1]

\* Mutant: the ledger is not asked.
Always(q) == TRUE
\* slot_execute_once: one transaction looks the request up, applies it and stores the
\* answer, a refusal too; a request that is in the ledger is answered from there.
Fresh(q) == ledger[q] = "none"
Execute(c) ==
    LET q == read[c] IN
    /\ at[c] = "apply" /\ Goto(c, "answer")
    /\ IF Fresh(q)
       THEN /\ ledger' = [ledger EXCEPT ![q] = IF Refused(q) THEN "err" ELSE "ok"]
            /\ IF Refused(q) THEN UNCHANGED <<owner, acked, open, times>> ELSE ApplyRequest(q)
       ELSE UNCHANGED db
    /\ UNCHANGED <<dirs, told, id, read, todo, refill, faults>>

\* Mutant: a failed transaction is answered.
AnswerAnyway(c) ==
    /\ at[c] = "apply" /\ Happens("store") /\ Goto(c, "answer")
    /\ UNCHANGED <<dirs, db, told, id, read, todo, refill>>
StoreFails(c) ==
    /\ at[c] = "apply" /\ Happens("store") /\ Goto(c, "badwork")
    /\ UNCHANGED <<dirs, db, told, id, read, todo, refill>>

WriteDone(c) ==
    /\ at[c] = "answer" /\ done' = [done EXCEPT ![id[c]] = read[c]] /\ Goto(c, "unlink")
    /\ UNCHANGED <<free, work, bad, claim, left, db, told, id, read, todo, refill, faults>>

DoneFails(c) ==
    /\ at[c] = "answer" /\ Happens("io") /\ Goto(c, "badwork")
    /\ UNCHANGED <<dirs, db, told, id, read, todo, refill>>

RemoveWork(c) ==
    /\ at[c] = "unlink" /\ work' = [work EXCEPT ![id[c]] = Absent]
    /\ id' = [id EXCEPT ![c] = 0] /\ read' = [read EXCEPT ![c] = Stub]
    /\ RefillStart(c) /\ Goto(c, "works")
    /\ UNCHANGED <<free, done, bad, claim, left, db, told, todo, faults>>

QuarantineWork(c) ==
    LET i == id[c] IN
    /\ at[c] = "badwork" /\ bad' = Quarantined(work, i) /\ work' = [work EXCEPT ![i] = Absent]
    /\ id' = [id EXCEPT ![c] = 0] /\ read' = [read EXCEPT ![c] = Stub]
    /\ RefillStart(c) /\ Goto(c, "works")
    /\ UNCHANGED <<free, done, claim, left, db, told, todo, faults>>

EndPoll(c) ==
    /\ at[c] = "works" /\ todo[c] = {} /\ RefillStart(c) /\ Goto(c, "idle")
    /\ UNCHANGED <<dirs, db, told, id, read, todo, faults>>

(* ---- the environment ---- *)

\* A process ends where it is; a consumer is started again.
Crash(a) ==
    /\ at[a] \notin {"closed", "over"} /\ Happens("crash")
    /\ Goto(a, IF a \in Producers THEN "over" ELSE "closed")
    /\ id' = [id EXCEPT ![a] = 0] /\ todo' = [todo EXCEPT ![a] = {}]
    /\ refill' = [refill EXCEPT ![a] = NoRefill]
    /\ IF a \in Producers
       THEN /\ left' = left \cup claim[a] /\ claim' = [claim EXCEPT ![a] = {}] /\ UNCHANGED read
       ELSE read' = [read EXCEPT ![a] = Stub] /\ UNCHANGED <<left, claim>>
    /\ UNCHANGED <<free, work, done, bad, db, told>>

\* The app, or gc_done after the retention, removes an answer.
Taken(i) ==
    /\ done[i] # Absent /\ Happens("taken") /\ done' = [done EXCEPT ![i] = Absent]
    /\ UNCHANGED <<free, work, bad, claim, left, db, told, at, id, read, todo, refill>>

\* A timer fires and its run stays open.
Fires(t) ==
    /\ owner[t] # Nobody /\ t \notin open /\ open' = open \cup {t}
    /\ UNCHANGED <<dirs, ledger, owner, acked, times, told, at, id, read, todo, refill, faults>>

ProducerStep(p) ==
    \/ ListFree(p) \/ NoFreeSlot(p) \/ TryLock(p) \/ Rename(p) \/ Verify(p)
    \/ WriteRequest(p) \/ WriteFails(p) \/ Publish(p)
ConsumerStep(c) ==
    \/ Poll(c) \/ LookFree(c) \/ ClaimFile(c) \/ QuarantineFree(c)
    \/ ListWork(c) \/ LookWork(c) \/ Execute(c) \/ StoreFails(c) \/ WriteDone(c) \/ DoneFails(c)
    \/ RemoveWork(c) \/ QuarantineWork(c) \/ EndPoll(c)
Step(a) ==
    \/ RefillCreate(a)
    \/ ~Filling(a) /\ (Open(a) \/ (a \in Producers /\ ProducerStep(a)) \/ (a \in Consumers /\ ConsumerStep(a)))

Next == (\E a \in Actors : Step(a) \/ Crash(a)) \/ (\E i \in Ids : Taken(i)) \/ (\E t \in Timers : Fires(t))

Spec == Init /\ [][Next]_vars
\* A process that runs goes on; nobody has to publish, but whoever starts goes on too.
FairSpec == Spec /\ \A a \in Actors : WF_vars(Step(a))

-----------------------------------------------------------------------------
(* ---- properties ---- *)

\* layout.rs:92 and service.rs:128: "Creation is EXCLUSIVE, never a replace", "so two
\* producers cannot overwrite the same reserved id".  A request on its name in free/ stays
\* there until a consumer moves it to work/ or into bad/: no stub, no claim and no other
\* producer replaces it, wherever processes end.
PublishedStays ==
    [][\A i \in Ids : free[i] \in Requests =>
           free'[i] = free[i] \/ work'[i] = free[i] \/ <<i, free[i]>> \in bad']_vars

\* A request whose producer was told that it is published is somewhere: waiting in
\* free/ or work/, answered in the ledger, or set aside in bad/ with its reason.  It does
\* not hold (README, section 4).
NoRequestLost ==
    \A p \in told : LET q == RequestOf[p] IN
        \/ ledger[q] # "none" \/ (\E i \in Ids : free[i] = q \/ work[i] = q)
        \/ (\E i \in Ids : <<i, q>> \in bad)

\* However often a request is submitted, polled by several consumers or taken up again
\* after a crash, it changes the timers at most once.
AppliedOnce == \A q \in Requests : times[q] <= 1

\* An answer is given only for what is durable.
AnswersAreDurable == \A i \in Ids : done[i] # Absent => ledger[done[i]] # "none"

\* Comments at service.rs:184 and layout.rs:62: bad/ is for garbage, and a consumer
\* that finds a slot absent while a producer holds it meets the request on a later scan.
\* It does not hold (README, section 4).
OnlyGarbageIsBad == \A f \in bad : f[2] \notin Requests

\* Every published request is settled in the end.
Settled(q) == ledger[q] # "none" \/ \E i \in Ids : <<i, q>> \in bad
EveryRequestSettles == \A p \in Producers : p \in told ~> Settled(RequestOf[p])
=============================================================================
