----------------------------- MODULE WakeProofs -----------------------------
(* An alarm another program set in a register that is free survives Bellman's use of    *)
(* the register, for any machine, any number of timers, commands, sleeps and changes of  *)
(* what the probes find, and also when commands overlap with power events, so long as no *)
(* write of the register fails.  An alarm of Bellman's own on a timerfd is there at      *)
(* every suspend, if they do not overlap.                                                *)
EXTENDS Wake, WellFoundedInduction, TLAPS

Usable(h) ==
    /\ {"rtc", "owned", "displaced"} \subseteq DOMAIN h
    /\ h.rtc \in Nat /\ h.displaced \in Nat /\ (h.owned = TRUE \/ h.owned = FALSE)

\* What is displaced is owed by the one who holds the register.
Loose(h) == Usable(h) /\ (h.displaced # None => h.owned = TRUE)

\* An alarm that is not exposed is in the register that Bellman does not hold, or remembered
\* by the controller that holds it.
Safe(h) ==
    /\ Loose(h)
    /\ foreign > now /\ exposed = FALSE => \/ h.owned = FALSE /\ h.rtc = foreign
                                           \/ h.owned = TRUE /\ h.displaced = foreign

Typed ==
    /\ now \in Nat /\ foreign \in Nat /\ facts \in Machines /\ exposed \in BOOLEAN
    /\ due \in [Timers -> Nat] /\ next \in [Threads -> Nat]

Inv == Typed /\ Safe(hw)

-----------------------------------------------------------------------------
(* Instants *)

LEMMA LeastIsThere ==
    ASSUME NEW T, T \subseteq Nat, T # {}
    PROVE  Min(T) \in T /\ \A y \in T : Min(T) <= y
<1> DEFINE R == OpToRel(<, Nat)
<1>1. IsWellFoundedOn(R, Nat)
  BY NatLessThanWellFounded
<1>2. \A x, y \in Nat : x < y => <<x, y>> \in R
  BY DEF OpToRel
<1> HIDE DEF R
<1>3. PICK x \in T : \A y \in T : ~(<<y, x>> \in R)
  BY <1>1, WFMin
<1>4. \A y \in T : x <= y
  <2> TAKE y \in T
  <2>1. x \in Nat /\ y \in Nat /\ ~(y < x)
    BY <1>2, <1>3
  <2> QED BY <2>1
<1> QED BY <1>4 DEF Min

LEMMA ElectedIsInstant == ASSUME Typed PROVE ElectNextWake \in Nat
<1>1. Candidates \subseteq Nat
  BY DEF Candidates, Typed
<1> QED BY <1>1, LeastIsThere DEF ElectNextWake, None

LEMMA ArmedIsInstant == ASSUME Typed, NEW d \in Nat PROVE ArmInstant(d) \in Nat \ {None}
<1> DEFINE S == {d - Slack, now + 1}
<1>1. d - Slack \in Int /\ now + 1 \in Int /\ now + 1 > 0
  BY BoundsAssumption DEF Typed
<1>2. \E x \in S : \A y \in S : x >= y
  BY <1>1
<1>3. Max(S) \in S /\ \A y \in S : Max(S) >= y
  BY <1>2 DEF Max
<1>4. Max(S) \in Int /\ Max(S) >= now + 1
  BY <1>1, <1>3
<1> HIDE DEF S
<1>5. Max(S) \in Nat \ {None}
  BY <1>1, <1>4 DEF None
<1> QED BY <1>5 DEF ArmInstant, S

-----------------------------------------------------------------------------
(* The controllers *)

Same(g, h) == DOMAIN g = DOMAIN h /\ g.rtc = h.rtc /\ g.owned = h.owned /\ g.displaced = h.displaced

\* Fields other than those of the register do not matter.
LEMMA Untouched ==
    ASSUME NEW h, NEW g, Same(g, h)
    PROVE  (Usable(h) => Usable(g)) /\ (Loose(h) => Loose(g)) /\ (Safe(h) => Safe(g))
BY DEF Same, Safe, Loose, Usable

LEMMA KnownMachine == ASSUME Typed PROVE facts.os \in {"linux", "windows", "macos"}
BY MachinesAssumption DEF Typed

LEMMA CancelMineSame == ASSUME NEW h, Usable(h) PROVE Same(CancelMine(h), h)
<1> DEFINE g == [h EXCEPT !.daemon = {}]
<1>1. DOMAIN g = DOMAIN h /\ g.rtc = h.rtc /\ g.displaced = h.displaced
  BY DEF Usable
<1>2. g.owned = h.owned
  BY DEF Usable
<1> HIDE DEF g
<1> QED BY <1>1, <1>2 DEF CancelMine, g, Same

LEMMA ReprobedSame == ASSUME Typed, NEW h, Usable(h) PROVE Same(Reprobed(h), h)
<1>1. ASSUME NEW k, Usable(k), NEW c PROVE Same([k EXCEPT !.cap = c], k)
  <2> DEFINE g == [k EXCEPT !.cap = c]
  <2>1. DOMAIN g = DOMAIN k /\ g.rtc = k.rtc /\ g.displaced = k.displaced
    BY <1>1 DEF Usable
  <2>2. g.owned = k.owned
    BY <1>1 DEF Usable
  <2> HIDE DEF g
  <2> QED BY <2>1, <2>2 DEF Same, g
<1>2. ASSUME NEW c, NEW o, NEW a PROVE Same([h EXCEPT !.cap = c, !.open = o, !.alarm = a], h)
  <2> DEFINE g == [h EXCEPT !.cap = c, !.open = o, !.alarm = a]
  <2>1. DOMAIN g = DOMAIN h /\ g.rtc = h.rtc /\ g.displaced = h.displaced
    BY DEF Usable
  <2>2. g.owned = h.owned
    BY DEF Usable
  <2> HIDE DEF g
  <2> QED BY <2>1, <2>2 DEF Same, g
<1>3. Same(ReprobedLinux(h), h)
  BY <1>2, Zenon DEF ReprobedLinux
<1>4. Same(Sentinel(h), h) /\ Usable(Sentinel(h))
  BY CancelMineSame, Untouched DEF Sentinel, Same
<1>5. CASE facts.os = "linux"
  <2>1. Reprobed(h) = ReprobedLinux(h)
    BY <1>5 DEF Reprobed
  <2> QED BY <1>3, <2>1
<1>6. CASE facts.os = "windows"
  <2>1. Reprobed(h) = [h EXCEPT !.cap = Probe(facts)]
    BY <1>6 DEF Reprobed
  <2> QED BY <1>1, <2>1
<1>7. CASE facts.os = "macos"
  <2>1. Reprobed(h) = [Sentinel(h) EXCEPT !.cap = Probe(facts)]
    BY <1>7 DEF Reprobed
  <2>2. Same([Sentinel(h) EXCEPT !.cap = Probe(facts)], Sentinel(h))
    BY <1>1, <1>4
  <2> QED BY <1>4, <2>1, <2>2 DEF Same
<1> QED BY <1>5, <1>6, <1>7, KnownMachine

\* Whatever a failing write leaves in the register, it is an instant or none.
LEMMA UnwrittenIsInstant == ASSUME NEW h, Usable(h) PROVE Unwritten(h) \subseteq Nat
BY DEF Unwritten, Usable, None

LEMMA GivenBackIsFree ==
    ASSUME NEW h, Usable(h), NEW r \in Nat
    PROVE  Loose(GivenBack(h, r)) /\ GivenBack(h, r).owned = FALSE /\ GivenBack(h, r).rtc = r
<1> DEFINE g == [h EXCEPT !.rtc = r, !.owned = FALSE, !.displaced = None]
<1>1. DOMAIN g = DOMAIN h /\ g.rtc = r /\ g.displaced = None
  BY DEF Usable
<1>2. g.owned = FALSE
  BY DEF Usable
<1>3. GivenBack(h, r) = g
  BY DEF GivenBack
<1> HIDE DEF g
<1>4. Loose(g)
  BY <1>1, <1>2 DEF Loose, Usable, None
<1> QED BY <1>1, <1>2, <1>3, <1>4

\* An alarm that is owed goes back into the register.
LEMMA GivenBackSafe ==
    ASSUME Typed, NEW h, Safe(h), h.owned = TRUE
    PROVE  Safe(GivenBack(h, Register(h.displaced)))
<1> DEFINE r == Register(h.displaced)
           g == GivenBack(h, r)
<1>1. r \in Nat /\ (foreign > now /\ exposed = FALSE => r = foreign)
  BY DEF Safe, Loose, Usable, Register, None, Typed
<1>2. Loose(g) /\ g.owned = FALSE /\ g.rtc = r
  BY <1>1, GivenBackIsFree DEF Safe, Loose
<1> HIDE DEF r, g
<1>3. Safe(g)
  BY <1>1, <1>2 DEF Safe
<1> QED BY <1>3 DEF g, r

LEMMA CancelRegisterSafe ==
    ASSUME Typed, NEW h, Safe(h), NEW g \in CancelRegister(h) PROVE Safe(g) /\ g.owned = FALSE
<1>1. CASE h.owned = FALSE
  <2>1. g = h
    BY <1>1 DEF CancelRegister
  <2> QED BY <1>1, <2>1
<1>2. CASE h.owned = TRUE /\ h.displaced = None
  <2>1. PICK r \in Unwritten(h) : g = GivenBack(h, r)
    BY <1>2 DEF CancelRegister
  <2>2. Loose(g) /\ g.owned = FALSE
    BY <2>1, UnwrittenIsInstant, GivenBackIsFree DEF Safe, Loose
  <2>3. ~(foreign > now /\ exposed = FALSE)
    BY <1>2 DEF Safe, None, Typed
  <2> QED BY <2>2, <2>3 DEF Safe
<1>3. CASE h.owned = TRUE /\ h.displaced # None
  <2>1. g \in {GivenBack(h, r) : r \in Written(Register(h.displaced))}
    BY <1>3 DEF CancelRegister
  <2>2. g = GivenBack(h, Register(h.displaced))
    BY <2>1 DEF Written
  <2>3. Safe(g)
    BY <1>3, <2>2, GivenBackSafe
  <2>4. Register(h.displaced) \in Nat
    BY DEF Safe, Loose, Usable, Register, None
  <2>5. g.owned = FALSE
    BY <2>2, <2>4, GivenBackIsFree DEF Safe, Loose
  <2> QED BY <2>3, <2>5
<1> QED BY <1>1, <1>2, <1>3 DEF Safe, Loose, Usable

LEMMA CancelFailsLoose ==
    ASSUME NEW h, Loose(h), NEW g \in CancelFails(h) PROVE Loose(g)
<1>1. PICK r \in Unwritten(h) : g = [h EXCEPT !.rtc = r, !.displaced = None]
  BY DEF CancelFails, CancelRegisterFails
<1>2. r \in Nat /\ Usable(h)
  BY <1>1, UnwrittenIsInstant DEF Loose
<1>3. DOMAIN g = DOMAIN h /\ g.rtc = r /\ g.displaced = None
  BY <1>1, <1>2 DEF Usable
<1>4. g.owned = h.owned
  BY <1>1, <1>2 DEF Usable
<1> QED BY <1>2, <1>3, <1>4 DEF Loose, Usable, None

\* A register that is to be programmed has been given back before.
LEMMA CancelledSafe ==
    ASSUME Typed, NEW h, Safe(h), NEW g \in Cancelled(h)
    PROVE  Safe(g) /\ (ByRegister(g) => g.owned = FALSE)
<1> USE DEF ByRegister
<1>1. Usable(h)
  BY DEF Safe, Loose
<1>2. CASE facts.os = "linux" /\ h.cap = "timerfd"
  <2>1. g = [h EXCEPT !.alarm = None]
    BY <1>2 DEF Cancelled, CancelledLinux
  <2>2. DOMAIN g = DOMAIN h /\ g.rtc = h.rtc /\ g.displaced = h.displaced /\ g.cap = h.cap
    BY <1>1, <1>2, <2>1 DEF Usable
  <2>3. g.owned = h.owned
    BY <1>1, <2>1 DEF Usable
  <2>4. Safe(g)
    BY <2>2, <2>3, Untouched DEF Same
  <2> QED BY <1>2, <2>2, <2>4
<1>3. CASE facts.os = "linux" /\ h.cap = "sysfs"
  <2>1. g \in CancelRegister(h)
    BY <1>3 DEF Cancelled, CancelledLinux
  <2> QED BY <2>1, CancelRegisterSafe
<1>4. CASE facts.os = "linux" /\ h.cap \notin {"timerfd", "sysfs"}
  <2>1. g = h
    BY <1>4 DEF Cancelled, CancelledLinux
  <2> QED BY <1>4, <2>1
<1>5. CASE facts.os = "windows"
  <2>1. g = [h EXCEPT !.alarm = None, !.armed = FALSE]
    BY <1>5 DEF Cancelled, CancelledWindows
  <2>2. DOMAIN g = DOMAIN h /\ g.rtc = h.rtc /\ g.displaced = h.displaced
    BY <1>1, <2>1 DEF Usable
  <2>3. g.owned = h.owned
    BY <1>1, <2>1 DEF Usable
  <2>4. Safe(g)
    BY <2>2, <2>3, Untouched DEF Same
  <2> QED BY <1>5, <2>4
<1>6. CASE facts.os = "macos"
  <2> DEFINE k == IF h.armed THEN CancelMine(h) ELSE h
  <2>1. Same(k, h) /\ Usable(k)
    BY <1>1, CancelMineSame, Untouched DEF Same
  <2>2. g = [k EXCEPT !.armed = FALSE]
    BY <1>6 DEF Cancelled, CancelledMac
  <2> HIDE DEF k
  <2>3. DOMAIN g = DOMAIN k /\ g.rtc = k.rtc /\ g.displaced = k.displaced
    BY <2>1, <2>2 DEF Usable
  <2>4. g.owned = k.owned
    BY <2>1, <2>2 DEF Usable
  <2>5. Safe(g)
    BY <2>1, <2>3, <2>4, Untouched DEF Same
  <2> QED BY <1>6, <2>5
<1> QED BY <1>2, <1>3, <1>4, <1>5, <1>6, KnownMachine

LEMMA RegisterSafe ==
    ASSUME Typed, NEW h, Safe(h), h.owned = FALSE, NEW t \in Nat \ {None}, NEW g \in ProgramRegister(h, t)
    PROVE  Safe(g)
<1>1. Usable(h)
  BY DEF Safe, Loose
<1>2. CASE KeepsForeign(h, t)
  <2>1. g = [h EXCEPT !.owned = FALSE, !.displaced = None]
    BY <1>2 DEF ProgramRegister
  <2>2. DOMAIN g = DOMAIN h /\ g.rtc = h.rtc /\ g.displaced = None
    BY <1>1, <2>1 DEF Usable
  <2>3. g.owned = FALSE
    BY <1>1, <2>1 DEF Usable
  <2> QED BY <2>2, <2>3 DEF Safe, Loose, Usable, None
<1>3. CASE ~KeepsForeign(h, t)
  <2> DEFINE x == IF Displaces(h, t) THEN h.rtc ELSE None
  <2>1. g = [h EXCEPT !.rtc = t, !.owned = TRUE, !.displaced = x]
    BY <1>3 DEF ProgramRegister, Written, Taken
  <2>2. x \in Nat /\ (h.rtc = foreign /\ foreign > now => x = foreign)
    BY <1>1, <1>3 DEF KeepsForeign, Displaces, Usable, None, Typed
  <2>3. foreign > now /\ exposed = FALSE => x = foreign
    BY <2>2 DEF Safe
  <2> HIDE DEF x
  <2>4. DOMAIN g = DOMAIN h /\ g.rtc = t /\ g.displaced = x
    BY <1>1, <2>1 DEF Usable
  <2>5. g.owned = TRUE
    BY <1>1, <2>1 DEF Usable
  <2> QED BY <1>1, <2>2, <2>3, <2>4, <2>5 DEF Safe, Loose, Usable, None
<1> QED BY <1>2, <1>3

LEMMA ProgramFailsLoose ==
    ASSUME NEW h, Loose(h), NEW t, NEW g \in ProgramFails(h, t)
    PROVE  Loose(g) /\ (~ByRegister(h) => g = h)
<1>1. CASE ~ByRegister(h)
  <2>1. g = h
    BY <1>1 DEF ProgramFails
  <2> QED BY <2>1
<1>2. CASE ByRegister(h)
  <2>1. PICK r : r \in Unwritten(h) \cup {h.rtc} /\ g = [h EXCEPT !.rtc = r]
    BY <1>2 DEF ProgramFails, ProgramRegisterFails
  <2>2. Usable(h) /\ r \in Nat
    BY <2>1, UnwrittenIsInstant DEF Loose, Usable
  <2>3. DOMAIN g = DOMAIN h /\ g.rtc = r /\ g.displaced = h.displaced
    BY <2>1, <2>2 DEF Usable
  <2>4. g.owned = h.owned
    BY <2>1, <2>2 DEF Usable
  <2>5. Loose(g)
    BY <2>2, <2>3, <2>4 DEF Loose, Usable
  <2> QED BY <1>2, <2>5
<1> QED BY <1>1, <1>2

LEMMA ProgrammedSafe ==
    ASSUME Typed, NEW h, Safe(h), ByRegister(h) => h.owned = FALSE, NEW t \in Nat \ {None},
           NEW g \in Programmed(h, t)
    PROVE  Safe(g)
<1>1. Usable(h)
  BY DEF Safe, Loose
<1>2. CASE ByRegister(h)
  <2>1. g \in ProgramRegister(h, t) /\ h.owned = FALSE
    BY <1>2 DEF Programmed
  <2> QED BY <2>1, RegisterSafe
<1>3. CASE ~ByRegister(h)
  <2>1. g = ProgrammedElsewhere(h, t)
    BY <1>3 DEF Programmed
  <2>2. PICK k : k \in {h, Schedule(h, t)} /\ \/ g = [k EXCEPT !.alarm = t]
                                              \/ g = [k EXCEPT !.alarm = t, !.armed = TRUE]
                                              \/ g = [k EXCEPT !.armed = TRUE]
    BY <2>1, KnownMachine DEF ProgrammedElsewhere
  <2>3. Same(k, h) /\ Usable(k)
    <3> DEFINE j == [h EXCEPT !.daemon = h.daemon \cup {t}]
    <3>1. DOMAIN j = DOMAIN h /\ j.rtc = h.rtc /\ j.displaced = h.displaced
      BY <1>1 DEF Usable
    <3>2. j.owned = h.owned
      BY <1>1 DEF Usable
    <3>3. k \in {h, j}
      BY <2>2 DEF Schedule
    <3> HIDE DEF j
    <3>4. Same(k, h)
      BY <3>1, <3>2, <3>3 DEF Same
    <3> QED BY <1>1, <3>4, Untouched
  <2>4. DOMAIN g = DOMAIN k /\ g.rtc = k.rtc /\ g.displaced = k.displaced
    BY <2>2, <2>3 DEF Usable
  <2>5. g.owned = k.owned
    BY <2>2, <2>3 DEF Usable
  <2>6. Same(g, h)
    BY <2>3, <2>4, <2>5 DEF Same
  <2> QED BY <2>6, Untouched
<1> QED BY <1>2, <1>3

LEMMA RestoredSafe == ASSUME Typed, NEW h, Safe(h), NEW g \in Restored(h) PROVE Safe(g)
<1>1. CASE Holds(h)
  <2>1. h.owned = TRUE
    BY <1>1 DEF Holds, Safe, Loose, Usable
  <2>2. g = GivenBack(h, Register(h.displaced))
    BY <1>1 DEF Restored, Written
  <2> QED BY <2>1, <2>2, GivenBackSafe
<1>2. CASE ~Holds(h)
  <2>1. g = h
    BY <1>2 DEF Restored
  <2> QED BY <2>1
<1> QED BY <1>1, <1>2

LEMMA RestoreFailsLoose == ASSUME NEW h, Usable(h), NEW g \in RestoreFails(h) PROVE Loose(g)
<1>1. PICK r \in Unwritten(h) : g = GivenBack(h, r)
  BY DEF RestoreFails
<1> QED BY <1>1, UnwrittenIsInstant, GivenBackIsFree

\* What a step leaves of the controller, with the same alarm wanted by the other program: a safe
\* one, or one that a failing write has exposed.
LEMMA StandsStill ==
    ASSUME NEW h, hw' = h, UNCHANGED <<now, foreign>>,
           \/ Safe(h) /\ exposed' = exposed
           \/ Loose(h) /\ exposed' = TRUE
    PROVE  Safe(hw)'
<1>1. Loose(h)
  BY DEF Safe
<1>2. Loose(hw)'
  BY <1>1 DEF Loose, Usable
<1> QED BY <1>2 DEF Safe

LEMMA RearmSafe ==
    ASSUME Inv, NEW d \in Nat, Rearm(d, hw), UNCHANGED <<now, foreign>>
    PROVE  Safe(hw)' /\ exposed' \in BOOLEAN
<1> DEFINE t == ArmInstant(d)
<1>1. Typed /\ Safe(hw) /\ Loose(hw) /\ t \in Nat \ {None} /\ exposed \in BOOLEAN
  BY ArmedIsInstant DEF Inv, Safe, Typed
<1>2. \/ hw' \in {hw} \cup Cancelled(hw) /\ exposed' = exposed
      \/ hw' \in CancelFails(hw) /\ exposed' = TRUE
      \/ \E c \in Cancelled(hw) :
            \/ hw' \in Programmed(c, t) /\ exposed' = exposed
            \/ (\E g \in ProgramFails(c, t) : hw' = Reprobed(g)) /\ exposed' = (exposed \/ ByRegister(c))
  BY DEF Rearm
<1> HIDE DEF t
<1>3. CASE hw' \in {hw} \cup Cancelled(hw) /\ exposed' = exposed
  <2>1. PICK h : h = hw'
    OBVIOUS
  <2>2. Safe(h)
    BY <1>1, <1>3, <2>1, CancelledSafe
  <2> QED BY <1>1, <1>3, <2>1, <2>2, StandsStill
<1>4. CASE hw' \in CancelFails(hw) /\ exposed' = TRUE
  <2>1. PICK h : h = hw'
    OBVIOUS
  <2>2. Loose(h)
    BY <1>1, <1>4, <2>1, CancelFailsLoose
  <2> QED BY <1>4, <2>1, <2>2, StandsStill
<1>5. CASE \E c \in Cancelled(hw) : hw' \in Programmed(c, t) /\ exposed' = exposed
  <2>1. PICK c \in Cancelled(hw) : hw' \in Programmed(c, t)
    BY <1>5
  <2>2. PICK h : h = hw'
    OBVIOUS
  <2>3. Safe(c) /\ (ByRegister(c) => c.owned = FALSE)
    BY <1>1, CancelledSafe
  <2>4. Safe(h)
    BY <1>1, <2>1, <2>2, <2>3, ProgrammedSafe
  <2> QED BY <1>1, <1>5, <2>2, <2>4, StandsStill
<1>6. CASE \E c \in Cancelled(hw) : (\E g \in ProgramFails(c, t) : hw' = Reprobed(g)) /\ exposed' = (exposed \/ ByRegister(c))
  <2>1. PICK c \in Cancelled(hw) : \E g \in ProgramFails(c, t) : hw' = Reprobed(g) /\ exposed' = (exposed \/ ByRegister(c))
    BY <1>6
  <2>2. PICK g \in ProgramFails(c, t) : hw' = Reprobed(g) /\ exposed' = (exposed \/ ByRegister(c))
    BY <2>1
  <2>3. Safe(c) /\ Loose(c)
    BY <1>1, CancelledSafe DEF Safe
  <2>4. Loose(g) /\ Usable(g) /\ (~ByRegister(c) => g = c)
    BY <2>3, ProgramFailsLoose DEF Loose
  <2>5. Same(Reprobed(g), g)
    BY <1>1, <2>4, ReprobedSame
  <2>6. Loose(Reprobed(g)) /\ (Safe(g) => Safe(Reprobed(g)))
    BY <2>4, <2>5, Untouched
  <2>7. CASE ByRegister(c)
    <3>1. exposed' = TRUE
      BY <2>2, <2>7
    <3> QED BY <2>2, <2>6, <3>1, StandsStill
  <2>8. CASE ~ByRegister(c)
    <3>1. exposed' = exposed
      BY <1>1, <2>2, <2>8
    <3>2. Safe(Reprobed(g))
      BY <2>3, <2>4, <2>6, <2>8
    <3> QED BY <1>1, <2>2, <3>1, <3>2, StandsStill
  <2> QED BY <2>7, <2>8
<1> QED BY <1>2, <1>3, <1>4, <1>5, <1>6

-----------------------------------------------------------------------------
(* Steps *)

LEMMA InvInit == Init => Inv
<1> SUFFICES ASSUME Init PROVE Inv
  OBVIOUS
<1>1. Typed
  BY DEF Init, Typed, None, Threads
<1>2. ~(foreign > now)
  BY DEF Init, None
<1>3. DOMAIN Off = {"cap", "open", "alarm", "rtc", "owned", "displaced", "daemon", "armed"}
  BY DEF Off
<1>4. Off.rtc = None /\ Off.displaced = None
  BY DEF Off
<1>5. Off.owned = FALSE
  BY DEF Off
<1>6. Safe(Off)
  BY <1>2, <1>3, <1>4, <1>5 DEF Safe, Loose, Usable, None
<1>7. Safe(Reprobed(Off))
  BY <1>1, <1>6, ReprobedSame, Untouched DEF Safe, Loose
<1> QED BY <1>1, <1>7 DEF Init, Inv

LEMMA TickKeeps == ASSUME Inv, Tick PROVE Inv'
<1> DEFINE t == now + 1
           left(a) == IF a = t THEN None ELSE a
           g == [hw EXCEPT !.alarm = left(hw.alarm), !.rtc = left(hw.rtc), !.daemon = hw.daemon \ {t}]
<1>1. now' = t /\ foreign' = left(foreign) /\ hw' = g /\ exposed' = exposed
  BY DEF Tick
<1>2. DOMAIN g = DOMAIN hw /\ g.rtc = left(hw.rtc) /\ g.displaced = hw.displaced
  BY DEF Inv, Safe, Loose, Usable
<1>3. g.owned = hw.owned
  BY DEF Inv, Safe, Loose, Usable
<1>4. now' = now + 1 /\ foreign' = (IF foreign = now + 1 THEN None ELSE foreign)
  BY <1>1
<1>5. /\ DOMAIN hw' = DOMAIN hw /\ hw'.displaced = hw.displaced /\ hw'.owned = hw.owned
      /\ hw'.rtc = (IF hw.rtc = now + 1 THEN None ELSE hw.rtc)
  BY <1>1, <1>2, <1>3
<1> HIDE DEF t, left, g
<1>6. Typed'
  BY <1>1, <1>4 DEF Inv, Typed, None, Tick
<1>7. Loose(hw)'
  BY <1>5 DEF Inv, Safe, Loose, Usable, None
<1>8. foreign' > now' => foreign > now /\ foreign' = foreign /\ foreign # now + 1
  BY <1>4 DEF Inv, Typed, None
<1>9. Safe(hw)'
  BY <1>1, <1>5, <1>7, <1>8 DEF Inv, Safe
<1> QED BY <1>6, <1>9 DEF Inv

LEMMA ForeignAlarmKeeps == ASSUME Inv, NEW t \in Times, ForeignAlarm(t) PROVE Inv'
<1> DEFINE g == [hw EXCEPT !.rtc = t]
<1>1. hw' = g /\ foreign' = t /\ now' = now /\ exposed' = hw.owned
  BY DEF ForeignAlarm
<1>2. t \in Nat /\ (hw.owned = TRUE \/ hw.owned = FALSE)
  BY BoundsAssumption DEF Times, Inv, Safe, Loose, Usable
<1>3. DOMAIN g = DOMAIN hw /\ g.rtc = t /\ g.displaced = hw.displaced
  BY DEF Inv, Safe, Loose, Usable
<1>4. g.owned = hw.owned
  BY DEF Inv, Safe, Loose, Usable
<1> HIDE DEF g
<1>5. DOMAIN hw' = DOMAIN hw /\ hw'.rtc = t /\ hw'.displaced = hw.displaced /\ hw'.owned = hw.owned
  BY <1>1, <1>3, <1>4
<1>6. Loose(hw)'
  BY <1>2, <1>5 DEF Inv, Safe, Loose, Usable
<1>7. Safe(hw)'
  BY <1>1, <1>2, <1>5, <1>6 DEF Safe
<1>8. Typed'
  BY <1>1, <1>2 DEF Inv, Typed, ForeignAlarm
<1> QED BY <1>7, <1>8 DEF Inv

LEMMA InvNext == ASSUME Inv, [Next]_vars PROVE Inv'
<1> USE DEF Inv
<1>1. ElectNextWake \in Nat
  BY ElectedIsInstant
<1>2. ASSUME Typed', UNCHANGED <<now, foreign, exposed, hw>> PROVE Inv'
  BY <1>2, StandsStill DEF Safe
<1>3. Times \subseteq Nat
  BY BoundsAssumption DEF Times
<1>4. ASSUME NEW t \in Timers, NEW d \in Times, EditTimer(t, d) \/ Fire(t, d) PROVE Inv'
  <2>1. Typed' /\ UNCHANGED <<now, foreign, exposed, hw>>
    BY <1>3, <1>4 DEF EditTimer, Fire, Typed
  <2> QED BY <1>2, <2>1
<1>5. ASSUME UNCHANGED vars \/ (\E b \in BOOLEAN : SetWakeEnabled(b)) \/ Sleep \/ WokenByUser
             \/ (\E f \in Machines : Flip(f))
      PROVE  Inv'
  <2>1. Typed' /\ UNCHANGED <<now, foreign, exposed, hw>>
    BY <1>5 DEF vars, SetWakeEnabled, Sleep, WokenByUser, Flip, Typed
  <2> QED BY <1>2, <2>1
<1>6. ASSUME ListCandidates \/ PrepareForSleep PROVE Inv'
  <2>1. Typed' /\ UNCHANGED <<now, foreign, exposed, hw>>
    BY <1>1, <1>6 DEF ListCandidates, PrepareForSleep, Typed
  <2> QED BY <1>2, <2>1
<1>7. ASSUME WakeReprobe PROVE Inv'
  <2>1. Safe(Reprobed(hw)) /\ hw' = Reprobed(hw)
    BY <1>7, ReprobedSame, Untouched DEF WakeReprobe, Safe, Loose
  <2>2. Typed' /\ UNCHANGED <<now, foreign, exposed>>
    BY <1>7 DEF WakeReprobe, Typed
  <2> QED BY <2>1, <2>2, StandsStill
<1>8. ASSUME NEW p \in Threads, Rearm(next[p], hw), next' = [next EXCEPT ![p] = None],
             UNCHANGED <<facts, due, now, foreign>>
      PROVE  Inv'
  <2>1. next[p] \in Nat
    BY <1>8 DEF Typed
  <2>3. Safe(hw)' /\ exposed' \in BOOLEAN
    BY <1>8, <2>1, RearmSafe
  <2>4. Typed'
    BY <1>8, <2>3 DEF Typed, None
  <2> QED BY <2>3, <2>4
<1>9. ASSUME RearmWake \/ Suspending \/ RearmResumed PROVE Inv'
  BY <1>8, <1>9 DEF RearmWake, Suspending, RearmResumed, Threads
<1>10. ASSUME Resumed PROVE Inv'
  <2>1. Usable(hw) /\ UNCHANGED <<now, foreign>>
    BY <1>10 DEF Resumed, Safe, Loose
  <2>2. CASE (\E g \in Restored(hw) : hw' = Reprobed(g)) /\ exposed' = exposed
    <3>1. PICK g \in Restored(hw) : hw' = Reprobed(g)
      BY <2>2
    <3>2. Safe(g) /\ Usable(g)
      BY RestoredSafe DEF Safe, Loose
    <3>3. Safe(Reprobed(g))
      BY <3>2, ReprobedSame, Untouched
    <3>4. Typed'
      BY <1>1, <1>10, <2>2 DEF Resumed, Typed
    <3> QED BY <2>1, <2>2, <3>1, <3>3, <3>4, StandsStill
  <2>3. CASE (\E g \in RestoreFails(hw) : hw' = Reprobed(g)) /\ exposed' = TRUE
    <3>1. PICK g \in RestoreFails(hw) : hw' = Reprobed(g)
      BY <2>3
    <3>2. Loose(g) /\ Usable(g)
      BY <2>1, RestoreFailsLoose DEF Loose
    <3>3. Loose(Reprobed(g))
      BY <3>2, ReprobedSame, Untouched
    <3>4. Typed'
      BY <1>1, <1>10, <2>3 DEF Resumed, Typed
    <3> QED BY <2>1, <2>3, <3>1, <3>3, <3>4, StandsStill
  <2> QED BY <1>10, <2>2, <2>3 DEF Resumed
<1> QED BY <1>4, <1>5, <1>6, <1>7, <1>9, <1>10, TickKeeps, ForeignAlarmKeeps DEF Next

-----------------------------------------------------------------------------
\* An alarm another program set while Bellman did not hold the register is, until it goes off, in the
\* register or owed to it by the controller that holds the register, through every command, probe,
\* suspend and resume, overlapping or not, until a write of the register fails (plan_sysfs_program,
\* cancel_sysfs and on_resumed of platform/wake/linux.rs).
THEOREM ForeignAlarmSurvives == Spec => []ForeignKept
<1>1. Inv => ForeignKept
  BY DEF Inv, Typed, Safe, ForeignKept, Kept
<1>2. Inv /\ [Next]_vars => Inv'
  BY InvNext
<1> QED BY <1>1, <1>2, InvInit, PTL DEF Spec

-----------------------------------------------------------------------------
(* The mechanism of a controller changes only when it is probed *)

Fields == {"cap", "open", "alarm", "rtc", "owned", "displaced", "daemon", "armed"}
Whole(h) == DOMAIN h = Fields

LEMMA CancelMineWhole == ASSUME NEW h, Whole(h) PROVE Whole(CancelMine(h)) /\ CancelMine(h).cap = h.cap
BY DEF Whole, Fields, CancelMine

LEMMA GivenBackWhole ==
    ASSUME NEW h, Whole(h), NEW r
    PROVE  LET g == GivenBack(h, r) IN Whole(g) /\ g.cap = h.cap /\ g.open = h.open /\ g.alarm = h.alarm
<1> DEFINE g == [h EXCEPT !.rtc = r, !.owned = FALSE, !.displaced = None]
<1>1. Whole(g) /\ g.cap = h.cap /\ g.alarm = h.alarm
  BY DEF Whole, Fields
<1>2. g.open = h.open
  BY DEF Whole, Fields
<1> HIDE DEF g
<1> QED BY <1>1, <1>2 DEF GivenBack, g

LEMMA CancelledWhole ==
    ASSUME Typed, NEW h, Whole(h), NEW g \in Cancelled(h) \cup CancelFails(h)
    PROVE  Whole(g) /\ g.cap = h.cap
<1>1. CASE facts.os = "linux" /\ g \in Cancelled(h)
  <2>1. g \in {[h EXCEPT !.alarm = None], h} \cup CancelRegister(h)
    BY <1>1 DEF Cancelled, CancelledLinux
  <2>2. PICK r : g = [h EXCEPT !.alarm = None] \/ g = h \/ g = GivenBack(h, r)
    BY <2>1 DEF CancelRegister
  <2>3. Whole([h EXCEPT !.alarm = None]) /\ [h EXCEPT !.alarm = None].cap = h.cap
    BY DEF Whole, Fields
  <2>4. Whole(GivenBack(h, r)) /\ GivenBack(h, r).cap = h.cap
    BY GivenBackWhole
  <2>5. CASE g = [h EXCEPT !.alarm = None]
    BY <2>3, <2>5
  <2> QED BY <2>2, <2>4, <2>5
<1>2. CASE facts.os = "windows" /\ g \in Cancelled(h)
  <2>1. g = [h EXCEPT !.alarm = None, !.armed = FALSE]
    BY <1>2 DEF Cancelled, CancelledWindows
  <2> QED BY <2>1 DEF Whole, Fields
<1>3. CASE facts.os = "macos" /\ g \in Cancelled(h)
  <2> DEFINE k == IF h.armed THEN CancelMine(h) ELSE h
  <2>1. Whole(k) /\ k.cap = h.cap
    BY CancelMineWhole
  <2>2. g = [k EXCEPT !.armed = FALSE]
    BY <1>3 DEF Cancelled, CancelledMac
  <2> HIDE DEF k
  <2> QED BY <2>1, <2>2 DEF Whole, Fields
<1>4. CASE g \in CancelFails(h)
  <2>1. PICK r : g = [h EXCEPT !.rtc = r, !.displaced = None]
    BY <1>4 DEF CancelFails, CancelRegisterFails
  <2> QED BY <2>1 DEF Whole, Fields
<1> QED BY <1>1, <1>2, <1>3, <1>4, KnownMachine

LEMMA ReprobedWhole ==
    ASSUME Typed, NEW h, Whole(h)
    PROVE  Whole(Reprobed(h)) /\ Reprobed(h).cap = Probe(facts)
<1>1. CASE facts.os = "linux"
  <2>1. PICK o, a : Reprobed(h) = [h EXCEPT !.cap = Probe(facts), !.open = o, !.alarm = a]
    BY <1>1, Zenon DEF Reprobed, ReprobedLinux
  <2> QED BY <2>1 DEF Whole, Fields
<1>2. CASE facts.os = "windows"
  <2>1. Reprobed(h) = [h EXCEPT !.cap = Probe(facts)]
    BY <1>2 DEF Reprobed
  <2> QED BY <2>1 DEF Whole, Fields
<1>3. CASE facts.os = "macos"
  <2>1. Whole(Sentinel(h))
    BY CancelMineWhole DEF Sentinel
  <2>2. Reprobed(h) = [Sentinel(h) EXCEPT !.cap = Probe(facts)]
    BY <1>3 DEF Reprobed
  <2> QED BY <2>1, <2>2 DEF Whole, Fields
<1> QED BY <1>1, <1>2, <1>3, KnownMachine

LEMMA ProgrammedWhole ==
    ASSUME Typed, NEW h, Whole(h), NEW t, NEW g \in Programmed(h, t) \cup ProgramFails(h, t)
    PROVE  Whole(g) /\ g.cap = h.cap
<1>1. CASE ByRegister(h) /\ g \in ProgramRegister(h, t)
  <2>1. PICK r, o, x : \/ g = [h EXCEPT !.owned = o, !.displaced = x]
                       \/ g = [h EXCEPT !.rtc = r, !.owned = o, !.displaced = x]
    BY <1>1 DEF ProgramRegister, Taken
  <2> QED BY <2>1 DEF Whole, Fields
<1>2. CASE ByRegister(h) /\ g \in ProgramRegisterFails(h, t)
  <2>1. PICK r : g = [h EXCEPT !.rtc = r]
    BY <1>2 DEF ProgramRegisterFails
  <2> QED BY <2>1 DEF Whole, Fields
<1>3. CASE ~ByRegister(h)
  <2>1. g = h \/ g = ProgrammedElsewhere(h, t)
    BY <1>3 DEF Programmed, ProgramFails
  <2>2. Whole(Schedule(h, t)) /\ Schedule(h, t).cap = h.cap
    BY DEF Whole, Fields, Schedule
  <2>3. PICK k : /\ k \in {h, Schedule(h, t)}
                 /\ \/ g = k \/ g = [k EXCEPT !.alarm = t]
                    \/ g = [k EXCEPT !.alarm = t, !.armed = TRUE] \/ g = [k EXCEPT !.armed = TRUE]
    BY <2>1, KnownMachine DEF ProgrammedElsewhere
  <2>4. Whole(k) /\ k.cap = h.cap
    BY <2>2, <2>3
  <2> QED BY <2>3, <2>4 DEF Whole, Fields
<1> QED BY <1>1, <1>2, <1>3 DEF Programmed, ProgramFails

LEMMA RestoredWhole ==
    ASSUME NEW h, Whole(h), NEW g \in Restored(h) \cup RestoreFails(h)
    PROVE  Whole(g) /\ g.cap = h.cap /\ g.open = h.open /\ g.alarm = h.alarm
<1>1. PICK r : g = h \/ g = GivenBack(h, r)
  BY DEF Restored, RestoreFails
<1> QED BY <1>1, GivenBackWhole

LEMMA RearmWhole ==
    ASSUME Typed, Whole(hw), NEW d, Rearm(d, hw)
    PROVE  Whole(hw') /\ (hw.cap = Probe(facts) => hw'.cap = Probe(facts))
<1> DEFINE t == ArmInstant(d)
<1>1. \/ hw' \in {hw} \cup Cancelled(hw) \cup CancelFails(hw)
      \/ \E c \in Cancelled(hw) : \/ hw' \in Programmed(c, t)
                                  \/ \E g \in ProgramFails(c, t) : hw' = Reprobed(g)
  BY DEF Rearm
<1> HIDE DEF t
<1>2. CASE hw' \in {hw} \cup Cancelled(hw) \cup CancelFails(hw)
  BY <1>2, CancelledWhole
<1>3. ASSUME NEW c \in Cancelled(hw), \/ hw' \in Programmed(c, t)
                                      \/ \E g \in ProgramFails(c, t) : hw' = Reprobed(g)
      PROVE  Whole(hw') /\ (hw.cap = Probe(facts) => hw'.cap = Probe(facts))
  <2>1. Whole(c) /\ c.cap = hw.cap
    BY CancelledWhole
  <2>2. CASE hw' \in Programmed(c, t)
    BY <2>1, <2>2, ProgrammedWhole
  <2>3. ASSUME NEW g \in ProgramFails(c, t), hw' = Reprobed(g)
        PROVE  Whole(hw') /\ (hw.cap = Probe(facts) => hw'.cap = Probe(facts))
    <3>1. Whole(g)
      BY <2>1, ProgrammedWhole
    <3> QED BY <2>3, <3>1, ReprobedWhole
  <2> QED BY <1>3, <2>2, <2>3
<1> QED BY <1>1, <1>2, <1>3

-----------------------------------------------------------------------------
(* A timerfd keeps its alarm *)

Places == {"idle", "stored", "elected", "suspending", "released", "asleep", "woken", "resumed"}

\* No command is under way while a power event is handled; login1 sleeps with the machine.
Alone ==
    /\ at \in [Threads -> Places]
    /\ at["command"] # "idle" => at["login1"] = "idle"
    /\ facts.os = "linux" => (asleep <=> at["login1"] = "asleep")

\* While the machine does not change the mechanism is the one a probe finds.
Probed == Whole(hw) /\ (flips = 0 => hw.cap = Probe(facts))

\* What a re-arm may rely on: the descriptor is open, and what last_target says is
\* programmed unless it has gone off.
Standing ==
    /\ hw.open = TRUE /\ hw.alarm \in Nat /\ target \in Nat
    /\ target = None \/ target <= now \/ hw.alarm = target

\* The fire that is about to be armed is none after the earliest,
Elected ==
    at["login1"] = "suspending" /\ ElectNextWake # None =>
        next["login1"] # None /\ next["login1"] <= ElectNextWake

\* and once it is armed the alarm is to come, and no later than the earliest, or next.
Covered ==
    at["login1"] \in {"released", "asleep"} /\ master = TRUE /\ ElectNextWake # None =>
        hw.alarm > now /\ (hw.alarm <= ElectNextWake \/ hw.alarm = now + 1)

ByTimerfd == flips = 0 /\ Probe(facts) = "timerfd"
WakeInv ==
    /\ Typed /\ flips \in Nat /\ master \in BOOLEAN /\ Alone /\ Probed
    /\ ByTimerfd => Standing /\ Elected /\ Covered

LEMMA OnlyLinuxHasTimerfd == ASSUME Typed, Probe(facts) = "timerfd" PROVE facts.os = "linux"
<1>1. CASE facts.os = "windows"
  <2>1. Probe(facts) = ProbeWindows(facts) /\ facts.arm \in {"ok", "failed", "unsupported"}
    BY <1>1, MachinesAssumption DEF Probe, Typed
  <2> QED BY <2>1 DEF ProbeWindows, ArmTest
<1>2. CASE facts.os = "macos"
  <2>1. Probe(facts) = ProbeMac(facts) /\ facts.helper \in {"Enabled", "RequiresApproval", "NotRegistered", "NotFound"}
    BY <1>2, MachinesAssumption DEF Probe, Typed
  <2> QED BY <2>1 DEF ProbeMac
<1> QED BY <1>1, <1>2, KnownMachine

LEMMA ArmedBeforeFire ==
    ASSUME Typed, NEW d \in Nat
    PROVE  ArmInstant(d) > now /\ (ArmInstant(d) <= d \/ ArmInstant(d) = now + 1)
<1> DEFINE S == {d - Slack, now + 1}
<1>1. d - Slack \in Int /\ now + 1 \in Int /\ d - Slack <= d
  BY BoundsAssumption DEF Typed
<1>2. \E x \in S : \A y \in S : x >= y
  BY <1>1
<1>3. Max(S) \in S /\ \A y \in S : Max(S) >= y
  BY <1>2 DEF Max
<1>4. Max(S) > now /\ (Max(S) <= d \/ Max(S) = now + 1)
  BY <1>1, <1>3 DEF Typed
<1> HIDE DEF S
<1> QED BY <1>4 DEF ArmInstant, S

LEMMA Election ==
    ASSUME Typed
    PROVE  /\ ElectNextWake # None => \E u \in Timers : due[u] # None /\ due[u] = ElectNextWake
           /\ \A u \in Timers : due[u] # None => ElectNextWake # None /\ ElectNextWake <= due[u]
<1>1. Candidates \subseteq Nat \ {None}
  BY DEF Candidates, Typed
<1>2. CASE Candidates = {}
  BY <1>2 DEF Candidates, ElectNextWake
<1>3. CASE Candidates # {}
  <2>1. ElectNextWake = Min(Candidates)
    BY <1>3 DEF ElectNextWake
  <2>2. Min(Candidates) \in Candidates /\ \A y \in Candidates : Min(Candidates) <= y
    BY <1>1, <1>3, LeastIsThere
  <2>3. \A u \in Timers : due[u] # None => due[u] \in Candidates
    BY DEF Candidates
  <2> QED BY <1>1, <2>1, <2>2, <2>3 DEF Candidates
<1> QED BY <1>2, <1>3

\* A fire moves the earliest wake-enabled fire on, if anywhere.
LEMMA FireIsLater ==
    ASSUME Typed, NEW t \in Timers, NEW d \in Times, Fire(t, d)
    PROVE  ElectNextWake # None /\ ElectNextWake' \in Nat /\ (ElectNextWake' = None \/ ElectNextWake' >= ElectNextWake)
<1> DEFINE e == ElectNextWake
<1>1. due[t] # None /\ due[t] <= now /\ (d = None \/ d > now) /\ due' = [due EXCEPT ![t] = d] /\ d \in Nat
  BY BoundsAssumption DEF Fire, Times
<1>2. due \in [Timers -> Nat] /\ now \in Nat /\ e \in Nat
  BY ElectedIsInstant DEF Typed
<1>3. e # None /\ e <= due[t] /\ \A u \in Timers : due[u] # None => e <= due[u]
  BY <1>1, Election
<1>4. \A u \in Timers : due'[u] # None => due'[u] \in Nat /\ e <= due'[u]
  BY <1>1, <1>2, <1>3
<1> HIDE DEF e
<1>5. CASE Candidates' = {}
  BY <1>3, <1>5 DEF ElectNextWake, e, None
<1>6. CASE Candidates' # {}
  <2>1. Candidates' \subseteq Nat /\ \A y \in Candidates' : e <= y
    BY <1>4 DEF Candidates
  <2>2. Min(Candidates') \in Candidates'
    BY <1>6, <2>1, LeastIsThere
  <2>3. ElectNextWake' = Min(Candidates')
    BY <1>6 DEF ElectNextWake
  <2> QED BY <1>2, <1>3, <2>1, <2>2, <2>3 DEF e
<1> QED BY <1>5, <1>6

-----------------------------------------------------------------------------
(* What the operations leave of an open timerfd *)

LEMMA TimerfdReprobed ==
    ASSUME NEW h, Whole(h), h.open = TRUE,
           facts.os = "linux", Probe(facts) = "timerfd"
    PROVE  LET g == Reprobed(h) IN
           Whole(g) /\ g.cap = "timerfd" /\ g.open = TRUE /\ g.alarm = h.alarm
<1> DEFINE g == [h EXCEPT !.cap = "timerfd", !.open = TRUE, !.alarm = h.alarm]
<1>1. Reprobed(h) = g
  BY DEF Reprobed, ReprobedLinux
<1>2. DOMAIN g = DOMAIN h /\ g.cap = "timerfd" /\ g.open = TRUE /\ g.alarm = h.alarm
  BY DEF Whole, Fields
<1> HIDE DEF g
<1> QED BY <1>1, <1>2 DEF Whole

\* A re-arm with waking on leaves the alarm at the instant to arm; with waking off, none.
LEMMA TimerfdRearmed ==
    ASSUME WakeInv, ByTimerfd, NEW d \in Nat, Rearm(d, hw)
    PROVE  /\ Whole(hw') /\ hw'.cap = "timerfd" /\ hw'.open = TRUE
           /\ hw'.alarm \in Nat /\ target' \in Nat
           /\ target' = None \/ hw'.alarm = target'
           /\ master = TRUE /\ d # None => hw'.alarm = ArmInstant(d)
<1>1. facts.os = "linux" /\ hw.cap = "timerfd" /\ Standing /\ Typed /\ Whole(hw)
  BY OnlyLinuxHasTimerfd DEF WakeInv, ByTimerfd, Probed
<1> DEFINE c == [hw EXCEPT !.alarm = None]
           t == ArmInstant(d)
           g == [c EXCEPT !.alarm = t]
<1>2. Cancelled(hw) = {c} /\ CancelFails(hw) = {}
  BY <1>1 DEF Cancelled, CancelledLinux, CancelFails, ByRegister
<1>3. DOMAIN c = DOMAIN hw /\ c.cap = "timerfd" /\ c.open = TRUE /\ c.alarm = None
  BY <1>1 DEF Whole, Fields, Standing
<1>4. DOMAIN g = DOMAIN hw /\ g.cap = "timerfd" /\ g.open = TRUE /\ g.alarm = t
  BY <1>1, <1>3 DEF Whole, Fields
<1>5. t \in Nat \ {None} /\ t > now
  BY <1>1, ArmedIsInstant, ArmedBeforeFire
<1>6. On(hw) <=> master = TRUE
  BY <1>1 DEF On, Mechanisms, WakeInv
<1>7. Programs(c)
  BY <1>1, <1>3 DEF Programs
<1>8. Programmed(c, t) = {g} /\ ProgramFails(c, t) = {}
  BY <1>1, <1>3, <1>7 DEF Programmed, ProgramFails, ProgrammedElsewhere, ByRegister
<1> HIDE DEF c, g, t
<1>9. CASE ~On(hw) \/ d = None
  BY <1>1, <1>2, <1>3, <1>6, <1>9 DEF Rearm, None, Standing, Whole
<1>10. CASE On(hw) /\ d # None
  <2>1. \/ target = t /\ hw' = hw /\ target' = target
        \/ target # t /\ hw' = g /\ target' = t
    BY <1>2, <1>7, <1>8, <1>10 DEF Rearm, t
  <2>2. CASE target = t /\ hw' = hw /\ target' = target
    <3>1. hw.alarm = t
      BY <1>1, <1>5, <2>2 DEF Standing, Typed
    <3> QED BY <1>1, <1>5, <2>2, <3>1 DEF Standing, t
  <2>3. CASE target # t /\ hw' = g /\ target' = t
    BY <1>1, <1>4, <1>5, <2>3 DEF Standing, t, Whole
  <2> QED BY <2>1, <2>2, <2>3
<1> QED BY <1>9, <1>10


-----------------------------------------------------------------------------
(* Steps of an alarm that is kept *)

LEMMA WakeInit == Init => WakeInv
<1> SUFFICES ASSUME Init PROVE WakeInv
  OBVIOUS
<1>1. Typed /\ flips = 0 /\ master \in BOOLEAN /\ target = None /\ ~asleep
  BY InvInit DEF Init, Inv
<1>2. Alone
  BY DEF Init, Alone, Threads, Places
<1>3. Whole(Off) /\ hw = Reprobed(Off)
  BY DEF Init, Off, Whole, Fields
<1>4. Probed
  BY <1>1, <1>3, ReprobedWhole DEF Probed
<1>5. ASSUME ByTimerfd PROVE Standing /\ Elected /\ Covered
  <2>1. facts.os = "linux" /\ Probe(facts) = "timerfd"
    BY <1>1, <1>5, OnlyLinuxHasTimerfd DEF ByTimerfd
  <2>2. Off.open = FALSE
    BY DEF Off
  <2>3. Reprobed(Off) = [Off EXCEPT !.cap = "timerfd", !.open = TRUE, !.alarm = None]
    BY <2>1, <2>2 DEF Reprobed, ReprobedLinux
  <2>4. hw.open = TRUE /\ hw.alarm = None
    BY <1>3, <2>3 DEF Whole, Fields
  <2>5. at["login1"] = "idle"
    BY DEF Init, Threads
  <2> QED BY <1>1, <2>4, <2>5 DEF Standing, Elected, Covered, None
<1> QED BY <1>1, <1>2, <1>4, <1>5 DEF WakeInv

LEMMA SameMachine ==
    ASSUME UNCHANGED <<facts, flips>> PROVE ByTimerfd' <=> ByTimerfd
BY DEF ByTimerfd

LEMMA SameElection == ASSUME UNCHANGED due PROVE ElectNextWake' = ElectNextWake
BY DEF ElectNextWake, Candidates

\* A step after which login1 is at a place where nothing is owed.
LEMMA NothingOwed ==
    ASSUME at'["login1"] \notin {"suspending", "released", "asleep"} PROVE Elected' /\ Covered'
BY DEF Elected, Covered

LEMMA StandingStays ==
    ASSUME Standing, hw'.open = hw.open, hw'.alarm = hw.alarm, UNCHANGED <<target, now>>
    PROVE  Standing'
BY DEF Standing

LEMMA CommandKeepsAlarm ==
    ASSUME WakeInv, ~Overlap, Typed',
           \/ \E t \in Timers, d \in Times : EditTimer(t, d)
           \/ \E b \in BOOLEAN : SetWakeEnabled(b)
           \/ ListCandidates
    PROVE  WakeInv'
<1>1. UNCHANGED <<facts, flips, hw, target, now, asleep>> /\ master' \in BOOLEAN
  BY DEF EditTimer, SetWakeEnabled, ListCandidates, WakeInv
<1>2. /\ at["login1"] = "idle" /\ at' \in [Threads -> Places]
      /\ at'["login1"] = "idle"
  <2>1. at \in [Threads -> Places] /\ (at["command"] # "idle" => at["login1"] = "idle")
    BY DEF WakeInv, Alone
  <2>2. \/ Clear /\ Step("command", "idle", "stored")
        \/ Step("command", "stored", "elected")
    BY DEF EditTimer, SetWakeEnabled, ListCandidates, Command
  <2>3. at["login1"] = "idle"
    BY <2>1, <2>2 DEF Clear, Step, Threads
  <2>4. \E s \in Places : at' = [at EXCEPT !["command"] = s]
    BY <2>2 DEF Step, Places
  <2> QED BY <2>1, <2>3, <2>4 DEF Threads
<1>3. Alone' /\ Probed'
  BY <1>1, <1>2 DEF WakeInv, Alone, Probed, Whole
<1>4. ASSUME ByTimerfd' PROVE Standing' /\ Elected' /\ Covered'
  BY <1>1, <1>2, <1>4, SameMachine, NothingOwed, StandingStays DEF WakeInv
<1> QED BY <1>1, <1>3, <1>4 DEF WakeInv

LEMMA RearmKeepsAlarm ==
    ASSUME WakeInv, Typed', NEW d \in Nat, Rearm(d, hw),
           UNCHANGED <<facts, flips, master, due, now, asleep>>, Alone',
           \/ at'["login1"] \in {"idle"}
           \/ at'["login1"] = "released" /\ (ElectNextWake # None => d # None /\ d <= ElectNextWake)
    PROVE  WakeInv'
<1>1. Probed'
  BY RearmWhole DEF WakeInv, Probed
<1>2. ASSUME ByTimerfd' PROVE Standing' /\ Elected' /\ Covered'
  <2>1. ByTimerfd
    BY <1>2, SameMachine
  <2>2. /\ hw'.open = TRUE /\ hw'.alarm \in Nat /\ target' \in Nat
        /\ target' = None \/ hw'.alarm = target'
        /\ master = TRUE /\ d # None => hw'.alarm = ArmInstant(d)
    BY <2>1, TimerfdRearmed
  <2>3. Standing'
    BY <2>2 DEF Standing
  <2>4. Elected'
    BY DEF Elected
  <2>5. Covered'
    <3>1. ArmInstant(d) > now /\ (ArmInstant(d) <= d \/ ArmInstant(d) = now + 1) /\ ArmInstant(d) \in Nat
      BY ArmedBeforeFire, ArmedIsInstant DEF WakeInv
    <3>2. ElectNextWake \in Nat /\ ElectNextWake' = ElectNextWake
      BY ElectedIsInstant, SameElection DEF WakeInv
    <3> QED BY <2>2, <3>1, <3>2 DEF Covered
  <2> QED BY <2>3, <2>4, <2>5
<1> QED BY <1>1, <1>2 DEF WakeInv

LEMMA TickKeepsAlarm ==
    ASSUME WakeInv, Typed', Tick PROVE WakeInv'
<1> DEFINE left(a) == IF a = now + 1 THEN None ELSE a
           g == [hw EXCEPT !.alarm = left(hw.alarm), !.rtc = left(hw.rtc), !.daemon = hw.daemon \ {now + 1}]
<1>1. /\ now' = now + 1 /\ hw' = g /\ at["login1"] \notin {"suspending", "released"}
      /\ UNCHANGED <<facts, due, master, target, flips>>
  BY DEF Tick
<1>2. Whole(hw)
  BY DEF WakeInv, Probed
<1>3. Whole(g) /\ g.cap = hw.cap /\ g.alarm = left(hw.alarm)
  BY <1>2 DEF Whole, Fields
<1>4. g.open = hw.open
  BY <1>2 DEF Whole, Fields
<1>5. /\ Whole(hw') /\ hw'.cap = hw.cap /\ hw'.open = hw.open
      /\ hw'.alarm = (IF hw.alarm = now + 1 THEN None ELSE hw.alarm)
  BY <1>1, <1>3, <1>4
<1> HIDE DEF left, g
<1>6. \/ UNCHANGED <<asleep, at>> /\ (asleep => hw.alarm # now + 1)
      \/ /\ asleep /\ asleep' = FALSE
         /\ at' = IF facts.os = "linux" THEN [at EXCEPT !["login1"] = "woken"] ELSE at
  BY DEF Tick, Awake, GoesOff
<1>7. Alone'
  <2>1. /\ at \in [Threads -> Places] /\ "woken" \in Places
        /\ at["command"] # "idle" => at["login1"] = "idle"
        /\ facts.os = "linux" => (asleep <=> at["login1"] = "asleep")
    BY DEF WakeInv, Alone, Places
  <2>2. CASE UNCHANGED <<asleep, at>>
    BY <1>1, <2>1, <2>2 DEF Alone
  <2>3. CASE asleep /\ asleep' = FALSE /\ facts.os = "linux" /\ at' = [at EXCEPT !["login1"] = "woken"]
    <3>1. at' \in [Threads -> Places] /\ at'["login1"] = "woken" /\ at'["command"] = at["command"]
      BY <2>1, <2>3 DEF Threads
    <3> QED BY <2>1, <2>3, <3>1 DEF Alone
  <2>4. CASE facts.os # "linux" /\ at' = at
    BY <1>1, <2>1, <2>4 DEF Alone
  <2> QED BY <1>6, <2>2, <2>3, <2>4
<1>8. Probed'
  BY <1>1, <1>5 DEF WakeInv, Probed
<1>9. ASSUME ByTimerfd' PROVE Standing' /\ Elected' /\ Covered'
  <2>1. ByTimerfd /\ facts.os = "linux" /\ Standing /\ Covered /\ Typed
    BY <1>1, <1>9, SameMachine, OnlyLinuxHasTimerfd DEF WakeInv, ByTimerfd
  <2>2. Standing'
    BY <1>1, <1>5, <2>1 DEF Standing, Typed, None
  <2>3. CASE asleep' = FALSE /\ at'["login1"] = "woken"
    BY <2>2, <2>3, NothingOwed
  <2>4. CASE UNCHANGED <<asleep, at>> /\ (asleep => hw.alarm # now + 1)
    <3>1. Elected'
      BY <1>1, <2>4 DEF Elected
    <3>2. ElectNextWake' = ElectNextWake /\ ElectNextWake \in Nat /\ now \in Nat
      BY <1>1, <2>1, SameElection, ElectedIsInstant DEF Typed
    <3>3. at["login1"] = "asleep" => asleep
      BY <2>1 DEF WakeInv, Alone
    <3>4. Covered'
      BY <1>1, <1>5, <2>1, <2>4, <3>2, <3>3 DEF Covered, Standing
    <3> QED BY <2>2, <3>1, <3>4
  <2>5. at \in [Threads -> Places] /\ "login1" \in Threads
    BY DEF WakeInv, Alone, Threads
  <2>6. CASE asleep' = FALSE /\ at' = [at EXCEPT !["login1"] = "woken"]
    BY <2>3, <2>5, <2>6
  <2> QED BY <1>6, <2>1, <2>4, <2>6
<1> QED BY <1>1, <1>7, <1>8, <1>9 DEF WakeInv

LEMMA SuspendKeepsAlarm ==
    ASSUME WakeInv, ~Overlap, Typed', PrepareForSleep \/ Sleep \/ WokenByUser PROVE WakeInv'
<1>1. UNCHANGED <<facts, flips, hw, target, now, master, due>>
  BY DEF PrepareForSleep, Sleep, WokenByUser
<1>2. /\ at \in [Threads -> Places] /\ Typed /\ {"suspending", "asleep", "woken"} \subseteq Places
      /\ Threads = {"command", "login1"}
  BY DEF WakeInv, Alone, Places, Threads
<1>3. \/ ~asleep /\ ~asleep' /\ facts.os = "linux" /\ Clear /\ Step("login1", "idle", "suspending")
      \/ asleep' = TRUE /\ facts.os = "linux" /\ Step("login1", "released", "asleep")
      \/ facts.os # "linux" /\ at' = at
      \/ asleep /\ ~asleep' /\ facts.os = "linux" /\ at' = [at EXCEPT !["login1"] = "woken"]
  BY DEF PrepareForSleep, Sleep, WokenByUser, Awake
<1>4. Alone'
  <2>1. CASE ~asleep /\ ~asleep' /\ facts.os = "linux" /\ Clear /\ Step("login1", "idle", "suspending")
    <3>1. /\ at' \in [Threads -> Places] /\ at'["login1"] = "suspending" /\ at'["command"] = at["command"]
          /\ at["command"] = "idle"
      BY <1>2, <2>1 DEF Step, Clear
    <3> QED BY <1>1, <2>1, <3>1 DEF Alone
  <2>2. CASE asleep' = TRUE /\ facts.os = "linux" /\ Step("login1", "released", "asleep")
    <3>1. /\ at' \in [Threads -> Places] /\ at'["login1"] = "asleep" /\ at'["command"] = at["command"]
          /\ at["command"] = "idle"
      BY <1>2, <2>2 DEF Step, WakeInv, Alone
    <3> QED BY <1>1, <2>2, <3>1 DEF Alone
  <2>3. CASE facts.os # "linux" /\ at' = at
    BY <1>1, <2>3 DEF WakeInv, Alone
  <2>4. CASE asleep /\ ~asleep' /\ facts.os = "linux" /\ at' = [at EXCEPT !["login1"] = "woken"]
    <3>1. /\ at' \in [Threads -> Places] /\ at'["login1"] = "woken" /\ at'["command"] = at["command"]
          /\ at["command"] = "idle"
      BY <1>2, <2>4 DEF WakeInv, Alone
    <3> QED BY <1>1, <2>4, <3>1 DEF Alone
  <2> QED BY <1>3, <2>1, <2>2, <2>3, <2>4
<1>5. Probed'
  BY <1>1 DEF WakeInv, Probed, Whole
<1>6. ASSUME ByTimerfd' PROVE Standing' /\ Elected' /\ Covered'
  <2>1. ByTimerfd /\ facts.os = "linux" /\ Standing /\ Covered
    BY <1>1, <1>2, <1>6, SameMachine, OnlyLinuxHasTimerfd DEF WakeInv, ByTimerfd
  <2>2. Standing'
    BY <1>1, <2>1, StandingStays
  <2>3. ElectNextWake' = ElectNextWake /\ ElectNextWake \in Nat
    BY <1>1, <1>2, SameElection, ElectedIsInstant
  <2>4. CASE PrepareForSleep
    <3>1. at'["login1"] = "suspending" /\ next'["login1"] = ElectNextWake
      BY <1>2, <2>4 DEF PrepareForSleep, Step, Typed
    <3> QED BY <2>2, <2>3, <3>1 DEF Elected, Covered
  <2>5. CASE Sleep
    <3>1. at["login1"] = "released" /\ at'["login1"] = "asleep"
      BY <1>2, <2>1, <2>5 DEF Sleep, Step
    <3> QED BY <1>1, <2>1, <2>2, <2>3, <3>1 DEF Elected, Covered
  <2>6. CASE WokenByUser
    <3>1. at'["login1"] = "woken"
      BY <1>2, <2>1, <2>6 DEF WokenByUser, Awake
    <3> QED BY <2>2, <3>1, NothingOwed
  <2> QED BY <2>4, <2>5, <2>6
<1> QED BY <1>1, <1>4, <1>5, <1>6 DEF WakeInv

LEMMA ProbeKeepsAlarm ==
    ASSUME WakeInv, ~Overlap, Typed', WakeReprobe \/ Resumed PROVE WakeInv'
<1>1. UNCHANGED <<facts, flips, target, now, master, due, asleep>>
  BY DEF WakeReprobe, Resumed
<1>2. /\ at \in [Threads -> Places] /\ "resumed" \in Places /\ Threads = {"command", "login1"}
      /\ Whole(hw) /\ Typed
  BY DEF WakeInv, Alone, Probed, Places, Threads
<1>3. /\ at' \in [Threads -> Places] /\ at'["command"] = "idle"
      /\ at'["login1"] \in {"idle", "resumed"} /\ (asleep => facts.os # "linux")
  <2>1. CASE WakeReprobe
    <3>1. at' = at /\ ~asleep /\ at["command"] = "idle" /\ at["login1"] = "idle"
      BY <1>2, <2>1 DEF WakeReprobe, Command, Clear
    <3> QED BY <1>2, <3>1
  <2>2. CASE Resumed
    <3>1. at["login1"] = "woken" /\ at' = [at EXCEPT !["login1"] = "resumed"]
      BY <2>2 DEF Resumed, Step
    <3> QED BY <1>2, <3>1 DEF WakeInv, Alone
  <2> QED BY <2>1, <2>2
<1>4. Alone'
  BY <1>1, <1>3 DEF WakeInv, Alone
<1>5. PICK h : /\ hw' = Reprobed(h) /\ Whole(h) /\ h.open = hw.open /\ h.alarm = hw.alarm
  <2>1. CASE WakeReprobe
    BY <1>2, <2>1 DEF WakeReprobe
  <2>2. CASE Resumed
    <3>1. PICK h \in Restored(hw) \cup RestoreFails(hw) : hw' = Reprobed(h)
      BY <2>2 DEF Resumed
    <3> QED BY <1>2, <3>1, RestoredWhole
  <2> QED BY <2>1, <2>2
<1>6. Probed'
  BY <1>1, <1>2, <1>5, ReprobedWhole DEF Probed
<1>7. ASSUME ByTimerfd' PROVE Standing' /\ Elected' /\ Covered'
  <2>1. facts.os = "linux" /\ Standing /\ Probe(facts) = "timerfd"
    BY <1>1, <1>2, <1>7, SameMachine, OnlyLinuxHasTimerfd DEF WakeInv, ByTimerfd
  <2>2. h.open = TRUE
    BY <1>5, <2>1 DEF Standing
  <2>3. hw'.open = TRUE /\ hw'.alarm = hw.alarm
    BY <1>5, <2>1, <2>2, TimerfdReprobed
  <2>4. Standing'
    BY <1>1, <2>1, <2>3, StandingStays DEF Standing
  <2> QED BY <1>3, <2>4, NothingOwed
<1> QED BY <1>1, <1>4, <1>6, <1>7 DEF WakeInv

LEMMA FireKeepsAlarm ==
    ASSUME WakeInv, Typed', NEW t \in Timers, NEW d \in Times, Fire(t, d) PROVE WakeInv'
<1>1. UNCHANGED <<facts, flips, target, now, master, hw, at, next, asleep>> /\ Typed
  BY DEF Fire, WakeInv
<1>2. ElectNextWake # None /\ ElectNextWake' \in Nat /\ (ElectNextWake' = None \/ ElectNextWake' >= ElectNextWake)
  BY <1>1, FireIsLater
<1>3. ElectNextWake \in Nat /\ now \in Nat /\ next \in [Threads -> Nat] /\ "login1" \in Threads
  BY <1>1, ElectedIsInstant DEF Typed, Threads
<1>4. ASSUME ByTimerfd' PROVE Standing' /\ Elected' /\ Covered'
  <2>1. Standing /\ Elected /\ Covered
    BY <1>1, <1>4, SameMachine DEF WakeInv
  <2>2. Standing'
    BY <1>1, <2>1, StandingStays
  <2>3. next["login1"] \in Nat /\ hw.alarm \in Nat
    BY <1>3, <2>1 DEF Standing
  <2>4. Elected' /\ Covered'
    BY <1>1, <1>2, <1>3, <2>1, <2>3 DEF Elected, Covered
  <2> QED BY <2>2, <2>4
<1> QED BY <1>1, <1>4 DEF WakeInv, Alone, Probed, Whole

LEMMA OthersKeepAlarm ==
    ASSUME WakeInv, Typed',
           \/ \E t \in Times : ForeignAlarm(t)
           \/ \E f \in Machines : Flip(f)
           \/ UNCHANGED vars
    PROVE  WakeInv'
<1>1. Whole(hw)
  BY DEF WakeInv, Probed
<1>2. CASE \E f \in Machines : Flip(f)
  <2>1. PICK f \in Machines : /\ flips' = flips + 1 /\ f.os = facts.os /\ facts' = f
                             /\ UNCHANGED <<at, master, hw, asleep>>
    BY <1>2 DEF Flip
  <2>2. flips' \in Nat /\ flips' # 0
    BY <2>1 DEF WakeInv
  <2> QED BY <1>1, <2>1, <2>2 DEF WakeInv, Alone, Probed, ByTimerfd, Whole
<1>3. CASE (\E t \in Times : ForeignAlarm(t)) \/ UNCHANGED vars
  <2>1. UNCHANGED <<facts, flips, target, now, master, due, at, next, asleep>>
    BY <1>3 DEF ForeignAlarm, vars
  <2>2. Whole(hw') /\ hw'.cap = hw.cap /\ hw'.open = hw.open /\ hw'.alarm = hw.alarm
    <3>1. PICK t : hw' = hw \/ hw' = [hw EXCEPT !.rtc = t]
      BY <1>3 DEF ForeignAlarm, vars
    <3> QED BY <1>1, <3>1 DEF Whole, Fields
  <2>3. ASSUME ByTimerfd' PROVE Standing' /\ Elected' /\ Covered'
    <3>1. Standing /\ Elected /\ Covered
      BY <2>1, <2>3, SameMachine DEF WakeInv
    <3>2. Standing'
      BY <2>1, <2>2, <3>1, StandingStays
    <3>3. ElectNextWake' = ElectNextWake
      BY <2>1, SameElection
    <3> QED BY <2>1, <2>2, <3>1, <3>2, <3>3 DEF Elected, Covered
  <2> QED BY <2>1, <2>2, <2>3 DEF WakeInv, Alone, Probed
<1> QED BY <1>2, <1>3

LEMMA WakeNext == ASSUME WakeInv, ~Overlap, Typed', [Next]_vars PROVE WakeInv'
<1>1. CASE RearmWake \/ Suspending \/ RearmResumed
  <2>1. /\ UNCHANGED <<facts, flips, master, due, now, asleep>> /\ Typed
        /\ at \in [Threads -> Places] /\ {"idle", "released"} \subseteq Places /\ Threads = {"command", "login1"}
    BY <1>1 DEF RearmWake, Suspending, RearmResumed, WakeInv, Alone, Places, Threads
  <2>2. next["command"] \in Nat /\ next["login1"] \in Nat
    BY <2>1 DEF Typed
  <2>3. CASE RearmWake
    <3>1. /\ at["login1"] = "idle" /\ at'["login1"] = "idle" /\ at'["command"] = "idle"
          /\ at' \in [Threads -> Places]
      BY <2>1, <2>3 DEF RearmWake, Step, WakeInv, Alone
    <3>2. Alone'
      BY <2>1, <3>1 DEF WakeInv, Alone
    <3> QED BY <2>1, <2>2, <2>3, <3>1, <3>2, RearmKeepsAlarm DEF RearmWake
  <2>4. CASE RearmResumed
    <3>1. /\ at["login1"] = "resumed" /\ at'["login1"] = "idle" /\ at'["command"] = at["command"]
          /\ at' \in [Threads -> Places]
      BY <2>1, <2>4 DEF RearmResumed, Step
    <3>2. Alone'
      BY <2>1, <3>1 DEF WakeInv, Alone
    <3> QED BY <2>1, <2>2, <2>4, <3>1, <3>2, RearmKeepsAlarm DEF RearmResumed
  <2>5. CASE Suspending
    <3>1. /\ at["login1"] = "suspending" /\ at'["login1"] = "released" /\ at'["command"] = at["command"]
          /\ at' \in [Threads -> Places]
      BY <2>1, <2>5 DEF Suspending, Step
    <3>2. Alone'
      BY <2>1, <3>1 DEF WakeInv, Alone
    <3>3. Rearm(next["login1"], hw)
      BY <2>5 DEF Suspending
    <3>4. CASE ByTimerfd
      <4>1. ElectNextWake # None => next["login1"] # None /\ next["login1"] <= ElectNextWake
        BY <3>1, <3>4 DEF WakeInv, Elected
      <4> QED BY <2>1, <2>2, <3>1, <3>2, <3>3, <4>1, RearmKeepsAlarm
    <3>5. CASE ~ByTimerfd
      <4>1. ~ByTimerfd'
        BY <2>1, <3>5, SameMachine
      <4>2. Probed'
        BY <2>1, <3>3, RearmWhole DEF WakeInv, Probed
      <4> QED BY <2>1, <3>2, <4>1, <4>2 DEF WakeInv
    <3> QED BY <3>4, <3>5
  <2> QED BY <1>1, <2>3, <2>4, <2>5
<1> QED BY <1>1, CommandKeepsAlarm, FireKeepsAlarm, ProbeKeepsAlarm, SuspendKeepsAlarm, TickKeepsAlarm, OthersKeepAlarm
        DEF Next

\* With a timerfd and probes that find the same, a machine that sleeps with waking on has its
\* alarm programmed in time for the earliest wake-enabled fire, whatever came before, so long
\* as no command is under way while a power event is handled (rearm and last_target of wake_bridge.rs).
THEOREM TimerfdWakes == ASSUME ~Overlap PROVE Spec => []WakesByTimerfd
<1>1. WakeInv => WakesByTimerfd
  <2> SUFFICES ASSUME WakeInv, flips = 0, hw.cap = "timerfd", asleep, Quiet, On(hw), ElectNextWake > now
               PROVE  Armed
    BY DEF WakesByTimerfd, WakesInTime, Steady
  <2>1. ByTimerfd /\ facts.os = "linux" /\ Standing /\ Covered /\ Typed
    BY OnlyLinuxHasTimerfd DEF WakeInv, Probed, ByTimerfd
  <2>2. at["login1"] = "asleep" /\ master = TRUE
    BY <2>1 DEF WakeInv, Alone, On
  <2>3. ElectNextWake \in Nat /\ now \in Nat /\ hw.alarm \in Nat
    BY <2>1, ElectedIsInstant DEF Typed, Standing
  <2>4. hw.alarm > now /\ (hw.alarm <= ElectNextWake \/ hw.alarm = now + 1)
    BY <2>1, <2>2, <2>3 DEF Covered, None
  <2>5. hw.alarm \in Alarms /\ hw.alarm <= ElectNextWake
    BY <2>3, <2>4 DEF Alarms, None
  <2> QED BY <2>5 DEF Armed
<1>2. Inv /\ WakeInv /\ [Next]_vars => Inv' /\ WakeInv'
  <2> SUFFICES ASSUME Inv, WakeInv, [Next]_vars PROVE Inv' /\ WakeInv'
    OBVIOUS
  <2>1. Inv'
    BY InvNext
  <2>2. Typed'
    BY <2>1 DEF Inv
  <2> QED BY <2>1, <2>2, WakeNext
<1> QED BY <1>1, <1>2, InvInit, WakeInit, PTL DEF Spec
=============================================================================
