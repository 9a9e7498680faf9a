-------------------------------- MODULE Wake --------------------------------
(***************************************************************************)
(* Waking the machine for a timer (platform/wake/): the bridge keeps one    *)
(* alarm programmed for the earliest wake-enabled fire.  Commands re-arm it *)
(* after every change of a timer; on Linux the login1 thread re-arms it     *)
(* before a suspend and after a resume.  The hardware is a Linux timerfd or *)
(* the shared RTC register, a Windows waitable timer, or the macOS helper   *)
(* daemon.                                                                  *)
(***************************************************************************)
EXTENDS Integers, FiniteSets, FiniteSetsExt

CONSTANTS
    Timers,      \* wake-enabled timers
    Machines,    \* what the probes may find: a set of facts
    Slack,       \* ARM_SLACK_SECS, in units of the clock
    MaxTime,     \* bound: the clock
    MaxEdits,    \* bound: commands
    MaxFlips,    \* bound: changes of what the probes find
    Overlap      \* whether commands run while a power event is handled

ASSUME BoundsAssumption == {Slack, MaxTime, MaxEdits, MaxFlips} \subseteq Nat
ASSUME MachinesAssumption ==
    \A f \in Machines : /\ f.os \in {"linux", "windows", "macos"}
                        /\ f.os = "windows" => f.arm \in {"ok", "failed", "unsupported"}
                        /\ f.os = "macos" => f.helper \in {"Enabled", "RequiresApproval", "NotRegistered", "NotFound"}
ASSUME OverlapAssumption == Overlap \in BOOLEAN

None == 0
Mechanisms == {"timerfd", "sysfs", "waitable", "daemon"}
Reasons == {"NoRtc", "RtcNotWakeCapable", "NoPermission", "ProbeFailed", "ResumeTimersUnsupported",
            "WakeTimersDisabledByPolicy", "HelperNotInstalled", "HelperAwaitingApproval", "MasterDisabled"}
Threads == {"command", "login1"}
Times == 0..MaxTime

VARIABLES
    facts,      \* what a probe of this machine finds
    due,        \* next_fire_utc of each timer, None for one that does not take part
    now,
    master,     \* wake.enabled
    target,     \* last_target: what the bridge believes is programmed
    hw,         \* the controller and its hardware
    foreign,    \* the alarm another program wants of the RTC register
    exposed,    \* history: it was set in a register Bellman took for its own, or a write has failed since
    at, next,   \* per thread: what it does next, the fire it has elected
    asleep,
    edits, flips

vars == <<facts, due, now, master, target, hw, foreign, exposed, at, next, asleep, edits, flips>>

(* ---- the probes ---- *)

ProbeLinux(f) ==
    CASE ~f.rtc -> "NoRtc"
      [] f.rtc /\ f.wakeup = "disabled" -> "RtcNotWakeCapable"
      [] f.rtc /\ f.wakeup # "disabled" /\ f.timerfd = "ok" -> "timerfd"
      [] f.rtc /\ f.wakeup # "disabled" /\ f.timerfd = "denied" -> IF f.writable THEN "sysfs" ELSE "NoPermission"
      [] OTHER -> "ProbeFailed"

\* Important-only counts as off; an unknown line status is read as mains.
RailValue(f) == IF f.line = "battery" THEN f.dc ELSE f.ac
ArmTest(f) == CASE f.arm = "unsupported" -> "ResumeTimersUnsupported"
                [] f.arm = "failed" -> "ProbeFailed"
                [] f.arm = "ok" -> "waitable"
ProbeWindows(f) ==
    CASE ~f.rtcWake -> "ResumeTimersUnsupported"
      [] f.rtcWake /\ RailValue(f) # "on" -> "WakeTimersDisabledByPolicy"
      [] OTHER -> ArmTest(f)

\* The helper's answer counts as success when it holds the word ok, and so does a refusal;
\* only a socket nobody serves is an error.
Answers(f) == f.daemon \in {"serves", "refuses"}
ProbeMac(f) ==
    CASE f.helper = "RequiresApproval" -> "HelperAwaitingApproval"
      [] f.helper \in {"NotRegistered", "NotFound"} -> "HelperNotInstalled"
      [] f.helper = "Enabled" -> IF Answers(f) THEN "daemon" ELSE "ProbeFailed"

Probe(f) == CASE f.os = "linux" -> ProbeLinux(f)
              [] f.os = "windows" -> ProbeWindows(f)
              [] f.os = "macos" -> ProbeMac(f)

(* ---- the controllers: functions of the hardware ---- *)

Off == [cap |-> "NoRtc", open |-> FALSE, alarm |-> None, rtc |-> None, owned |-> FALSE,
        displaced |-> None, daemon |-> {}, armed |-> FALSE]

\* The helper's set of wakes; a client it does not trust changes nothing.
Schedule(h, t) == IF facts.daemon = "serves" THEN [h EXCEPT !.daemon = @ \cup {t}] ELSE h
CancelMine(h) == IF facts.daemon = "serves" THEN [h EXCEPT !.daemon = {}] ELSE h

\* Mutant: every probe opens its own timerfd.
ReprobedAfresh(h) == [h EXCEPT !.cap = Probe(facts), !.open = (Probe(facts) = "timerfd"), !.alarm = None]
\* A timerfd stays open, and armed, only while the mechanism stays the same.
ReprobedLinux(h) ==
    LET keeps == Probe(facts) = "timerfd" /\ h.open IN
    [h EXCEPT !.cap = Probe(facts), !.open = (Probe(facts) = "timerfd"), !.alarm = IF keeps THEN @ ELSE None]
\* The macOS probe schedules a far wake and cancels it, and with it every wake of Bellman's.
Sentinel(h) == IF facts.helper = "Enabled" THEN CancelMine(h) ELSE h
Reprobed(h) ==
    CASE facts.os = "linux" -> ReprobedLinux(h)
      [] facts.os = "windows" -> [h EXCEPT !.cap = Probe(facts)]
      [] facts.os = "macos" -> [Sentinel(h) EXCEPT !.cap = Probe(facts)]

\* write_wakealarm_clear_set: a past time is no alarm.  The errors of the clear that comes first are
\* ignored, so a write that fails leaves the register as it was, or cleared.
Register(t) == IF t > now THEN t ELSE None
Written(t) == IF facts.writable THEN {t} ELSE {}
Unwritten(h) == IF facts.writable THEN {h.rtc, None} ELSE {h.rtc}

\* Mutant: the alarm that is taken over is not remembered.
DisplacesNothing(h, t) == FALSE
Displaces(h, t) == h.rtc > t
KeepsForeign(h, t) == h.rtc # None /\ h.rtc <= t
Taken(h, t, r) == [h EXCEPT !.rtc = r, !.owned = TRUE, !.displaced = IF Displaces(h, t) THEN h.rtc ELSE None]
ProgramRegister(h, t) == IF KeepsForeign(h, t) THEN {[h EXCEPT !.owned = FALSE, !.displaced = None]}
                         ELSE {Taken(h, t, r) : r \in Written(t)}
\* A read that fails changes nothing, a write that fails perhaps the register.
ProgramRegisterFails(h, t) == {[h EXCEPT !.rtc = r] : r \in IF KeepsForeign(h, t) THEN {h.rtc} ELSE Unwritten(h)}

\* cancel_sysfs: a clear never fails, done or not; the alarm that is owed is forgotten before it is
\* written, and when that write fails the register still counts as Bellman's.
GivenBack(h, r) == [h EXCEPT !.rtc = r, !.owned = FALSE, !.displaced = None]
CancelRegister(h) ==
    IF ~h.owned THEN {h}
    ELSE {GivenBack(h, r) : r \in IF h.displaced = None THEN Unwritten(h) ELSE Written(Register(h.displaced))}
CancelRegisterFails(h) == IF h.owned /\ h.displaced # None THEN {[h EXCEPT !.rtc = r, !.displaced = None] : r \in Unwritten(h)}
                          ELSE {}

\* cancel_wake, program_wake: the controllers they may leave when they succeed, and when they fail.
CancelledLinux(h) ==
    CASE h.cap = "timerfd" -> {[h EXCEPT !.alarm = None]}
      [] h.cap = "sysfs" -> CancelRegister(h)
      [] OTHER -> {h}
CancelledWindows(h) == [h EXCEPT !.alarm = None, !.armed = FALSE]
CancelledMac(h) == [(IF h.armed THEN CancelMine(h) ELSE h) EXCEPT !.armed = FALSE]
Cancelled(h) == CASE facts.os = "linux" -> CancelledLinux(h)
                  [] facts.os = "windows" -> {CancelledWindows(h)}
                  [] facts.os = "macos" -> {CancelledMac(h)}
ByRegister(h) == facts.os = "linux" /\ h.cap = "sysfs"
CancelFails(h) == IF ByRegister(h) THEN CancelRegisterFails(h) ELSE {}

\* Elsewhere it fails where the descriptor is missing or the system call refuses.
Programs(h) == CASE facts.os = "linux" -> h.cap = "timerfd" => h.open
                 [] facts.os = "windows" -> facts.arm = "ok"
                 [] facts.os = "macos" -> Answers(facts)
ProgrammedElsewhere(h, t) == CASE facts.os = "linux" -> [h EXCEPT !.alarm = t]
                               [] facts.os = "windows" -> [h EXCEPT !.alarm = t, !.armed = TRUE]
                               [] facts.os = "macos" -> [Schedule(h, t) EXCEPT !.armed = TRUE]
Programmed(h, t) == IF ByRegister(h) THEN ProgramRegister(h, t)
                    ELSE {g \in {ProgrammedElsewhere(h, t)} : Programs(h)}
ProgramFails(h, t) == IF ByRegister(h) THEN ProgramRegisterFails(h, t) ELSE {g \in {h} : ~Programs(h)}

\* on_resumed: the register is given back, or the one-shot in it cleared; its errors are ignored.
Holds(h) == facts.os = "linux" /\ (h.owned \/ h.displaced # None)
Restored(h) == IF Holds(h) THEN {GivenBack(h, r) : r \in Written(Register(h.displaced))} ELSE {h}
RestoreFails(h) == IF Holds(h) THEN {GivenBack(h, r) : r \in Unwritten(h)} ELSE {}

(* ---- the bridge ---- *)

Candidates == {due[t] : t \in {u \in Timers : due[u] # None}}
ElectNextWake == IF Candidates = {} THEN None ELSE Min(Candidates)
ArmInstant(d) == Max({d - Slack, now + 1})
On(h) == master /\ h.cap \in Mechanisms

\* Cancel, then program; nothing when the same instant is believed to be armed.
Rearm(d, h) ==
    LET t == ArmInstant(d)
        off == ~On(h) \/ d = None
    IN  \/ /\ off /\ hw' \in Cancelled(h) /\ target' = None /\ UNCHANGED exposed
        \/ /\ ~off /\ target = t /\ hw' = h /\ UNCHANGED <<target, exposed>>
        \/ /\ off \/ target # t
           /\ hw' \in CancelFails(h) /\ exposed' = TRUE /\ target' = IF On(h) THEN target ELSE None
        \/ /\ ~off /\ target # t
           /\ \E c \in Cancelled(h) :
                \/ hw' \in Programmed(c, t) /\ target' = t /\ UNCHANGED exposed
                \/ /\ \E g \in ProgramFails(c, t) : hw' = Reprobed(g)
                   /\ target' = None /\ exposed' = (exposed \/ ByRegister(c))

-----------------------------------------------------------------------------
Init ==
    /\ facts \in Machines /\ due = [t \in Timers |-> None] /\ now = 0 /\ master \in BOOLEAN
    /\ target = None /\ hw = Reprobed(Off) /\ foreign = None /\ exposed = FALSE
    /\ at = [p \in Threads |-> "idle"] /\ next = [p \in Threads |-> None]
    /\ asleep = FALSE /\ edits = 0 /\ flips = 0

TypeOK ==
    /\ facts \in Machines /\ due \in [Timers -> Times] /\ now \in Times /\ master \in BOOLEAN
    /\ target \in Times \cup {MaxTime + 1}
    /\ hw.cap \in Mechanisms \cup Reasons /\ {hw.open, hw.owned, hw.armed} \subseteq BOOLEAN
    /\ {hw.alarm, hw.rtc, hw.displaced} \cup hw.daemon \subseteq 0..MaxTime + 1
    /\ foreign \in 0..MaxTime + 1 /\ exposed \in BOOLEAN /\ next \in [Threads -> Times] /\ asleep \in BOOLEAN
    /\ at \in [Threads -> {"idle", "stored", "elected", "suspending", "released", "asleep", "woken", "resumed"}]
    /\ edits \in 0..MaxEdits /\ flips \in 0..MaxFlips

Step(p, from, to) == at[p] = from /\ at' = [at EXCEPT ![p] = to]
Clear == Overlap \/ \A p \in Threads : at[p] = "idle"
Command == ~asleep /\ Clear /\ edits < MaxEdits /\ edits' = edits + 1

\* A command stores its change of a timer, then re-arms from a fresh listing.
EditTimer(t, d) ==
    /\ Command /\ Step("command", "idle", "stored")
    /\ due[t] # d /\ (d = None \/ d > now) /\ due' = [due EXCEPT ![t] = d]
    /\ UNCHANGED <<facts, now, master, target, hw, foreign, exposed, next, asleep, flips>>

SetWakeEnabled(b) ==
    /\ Command /\ Step("command", "idle", "stored") /\ master # b /\ master' = b
    /\ UNCHANGED <<facts, due, now, target, hw, foreign, exposed, next, asleep, flips>>

\* The re-probe of the settings page does not re-arm.
WakeReprobe ==
    /\ Command /\ at["command"] = "idle" /\ hw' = Reprobed(hw)
    /\ UNCHANGED <<facts, due, now, master, target, foreign, exposed, at, next, asleep, flips>>

ListCandidates ==
    /\ ~asleep /\ Step("command", "stored", "elected")
    /\ next' = [next EXCEPT !["command"] = ElectNextWake]
    /\ UNCHANGED <<facts, due, now, master, target, hw, foreign, exposed, asleep, edits, flips>>

RearmWake ==
    /\ ~asleep /\ Step("command", "elected", "idle") /\ Rearm(next["command"], hw)
    /\ next' = [next EXCEPT !["command"] = None]
    /\ UNCHANGED <<facts, due, now, master, foreign, asleep, edits, flips>>

\* login1 tells of a suspend and waits until the inhibitor is released.
PrepareForSleep ==
    /\ ~asleep /\ facts.os = "linux" /\ Clear /\ Step("login1", "idle", "suspending")
    /\ next' = [next EXCEPT !["login1"] = ElectNextWake]
    /\ UNCHANGED <<facts, due, now, master, target, hw, foreign, exposed, asleep, edits, flips>>

Suspending ==
    /\ Step("login1", "suspending", "released") /\ Rearm(next["login1"], hw)
    /\ next' = [next EXCEPT !["login1"] = None]
    /\ UNCHANGED <<facts, due, now, master, foreign, asleep, edits, flips>>

\* Windows and macOS sleep without telling Bellman.
Sleep ==
    /\ ~asleep /\ asleep' = TRUE
    /\ IF facts.os = "linux" THEN Step("login1", "released", "asleep") ELSE Clear /\ UNCHANGED at
    /\ UNCHANGED <<facts, due, now, master, target, hw, foreign, exposed, next, edits, flips>>

Awake == /\ asleep' = FALSE
         /\ at' = IF facts.os = "linux" THEN [at EXCEPT !["login1"] = "woken"] ELSE at

WokenByUser ==
    /\ asleep /\ Awake
    /\ UNCHANGED <<facts, due, now, master, target, hw, foreign, exposed, next, edits, flips>>

Resumed ==
    /\ Step("login1", "woken", "resumed") /\ next' = [next EXCEPT !["login1"] = ElectNextWake]
    /\ \/ (\E g \in Restored(hw) : hw' = Reprobed(g)) /\ UNCHANGED exposed
       \/ (\E g \in RestoreFails(hw) : hw' = Reprobed(g)) /\ exposed' = TRUE
    /\ UNCHANGED <<facts, due, now, master, target, foreign, asleep, edits, flips>>

RearmResumed ==
    /\ Step("login1", "resumed", "idle") /\ Rearm(next["login1"], hw)
    /\ next' = [next EXCEPT !["login1"] = None]
    /\ UNCHANGED <<facts, due, now, master, foreign, asleep, edits, flips>>

\* The scheduler moves a timer on when it has fired; nothing re-arms then.
Fire(t, d) ==
    /\ ~asleep /\ due[t] # None /\ due[t] <= now /\ (d = None \/ d > now)
    /\ due' = [due EXCEPT ![t] = d]
    /\ UNCHANGED <<facts, now, master, target, hw, foreign, exposed, at, next, asleep, edits, flips>>

\* Time passes; an alarm that is reached goes off once, and wakes the machine.  One that
\* goes off on the way into a suspend ends it, so none passes unnoticed there.
GoesOff(t) == t \in {hw.alarm, hw.rtc} \cup hw.daemon
Tick ==
    LET t == now + 1
        left(a) == IF a = t THEN None ELSE a IN
    /\ now < MaxTime /\ now' = t /\ at["login1"] \notin {"suspending", "released"}
    /\ hw' = [hw EXCEPT !.alarm = left(@), !.rtc = left(@), !.daemon = @ \ {t}]
    /\ foreign' = left(foreign)
    /\ IF asleep /\ GoesOff(t) THEN Awake ELSE UNCHANGED <<asleep, at>>
    /\ UNCHANGED <<facts, due, master, target, exposed, next, edits, flips>>

\* Another program sets the register, whoever holds it.  Bellman believes the register its own from
\* its programming to the next cancel or resume, also when its alarm has long gone off.
ForeignAlarm(t) ==
    /\ ~asleep /\ facts.os = "linux" /\ t > now /\ t # foreign /\ edits < MaxEdits
    /\ foreign' = t /\ hw' = [hw EXCEPT !.rtc = t] /\ exposed' = hw.owned /\ edits' = edits + 1
    /\ UNCHANGED <<facts, due, now, master, target, at, next, asleep, flips>>

\* A permission, a policy, a power rail or the helper changes under a running Bellman.
Flip(f) ==
    /\ flips < MaxFlips /\ flips' = flips + 1 /\ f # facts /\ f.os = facts.os /\ facts' = f
    /\ UNCHANGED <<due, now, master, target, hw, foreign, exposed, at, next, asleep, edits>>

Next ==
    \/ \E t \in Timers, d \in Times : EditTimer(t, d) \/ Fire(t, d)
    \/ \E b \in BOOLEAN : SetWakeEnabled(b)
    \/ WakeReprobe \/ ListCandidates \/ RearmWake
    \/ PrepareForSleep \/ Suspending \/ Sleep \/ WokenByUser \/ Resumed \/ RearmResumed
    \/ Tick \/ (\E t \in Times : ForeignAlarm(t)) \/ (\E f \in Machines : Flip(f))

Spec == Init /\ [][Next]_vars

-----------------------------------------------------------------------------
(* ---- properties ---- *)

Quiet == at["command"] = "idle" /\ at["login1"] \in {"idle", "asleep"}
Steady == flips = 0
Alarms == ({hw.alarm, hw.rtc} \cup hw.daemon) \ {None}
Armed == \E a \in Alarms : a <= ElectNextWake

\* A machine that sleeps with waking on has an alarm programmed for the earliest
\* wake-enabled fire, or before it (rearm at every suspend and resume).
\* With an RTC alone it does not hold (README, section 4).
WakesInTime == (asleep /\ Quiet /\ On(hw) /\ ElectNextWake > now) => Armed

\* The same of a machine with a timerfd, while its probes find the same: whatever commands,
\* re-probes, fires and sleeps came before, last_target never stands for a lost alarm.
WakesByTimerfd == (Steady /\ hw.cap = "timerfd") => WakesInTime

\* An alarm another program has set in a register Bellman does not hold, and that is still to come,
\* is in the register, or the controller owns the register and holds that alarm for its return, so long
\* as no write of the register fails (plan_sysfs_program).
Kept == hw.rtc = foreign \/ (hw.owned /\ hw.displaced = foreign)
ForeignKept == foreign > now /\ ~exposed => Kept

\* Whenever it was set, and whatever fails.  It does not hold (README, section 4).
ForeignAlwaysKept == foreign > now => Kept

=============================================================================
