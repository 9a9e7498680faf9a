---------------------------- MODULE EventOutbox ----------------------------
(***************************************************************************)
(* The event log: producers commit events to an outbox table; the process  *)
(* that holds the publisher lease appends them to the current file, rotates *)
(* that file into archives through a journal, and prunes old archives.      *)
(* Any process may die between any two of these steps, and a write or a     *)
(* rename may fail.  Readers put the archives, the file being rotated and   *)
(* the current file together without a lock.                                *)
(*                                                                         *)
(* A file is the sequence of the events on its lines; Torn stands for a     *)
(* line no reader can parse.  A file operation and the directory sync that  *)
(* follows it are one step: nothing of this process happens between them.   *)
(***************************************************************************)
EXTENDS Integers, Sequences, FiniteSets, SequencesExt, FiniteSetsExt

CONSTANTS
    Procs,        \* processes with a publisher: the watcher, a CLI call, a prune
    Watcher,      \* the one whose loop publishes on every tick
    Faults,       \* of "io", "torn", "journal": what may fail
    MaxLines,     \* max_current_bytes, in lines
    TailScan,     \* TAIL_SCAN_BYTES, in lines
    Budget,       \* budget_bytes, in lines
    OneShots,     \* elapsed one-shot timers a prune may delete
    MaxEvents,    \* bound: events producers commit
    MaxPrunes,    \* bound: prunes that come due
    MaxFaults,    \* bound: failures
    MaxCrashes    \* bound: crashes

Torn == 0
Absent == <<-1>>          \* no such file
NoJournal == 0
None == "none"            \* nobody holds the lease
ASSUME ProcsAssumption == None \notin Procs

NoQuery == [at |-> "idle", missing |-> {}, quiet |-> FALSE]

VARIABLES
    outbox,       \* rows of event_outbox
    last,         \* events are numbered as they are committed
    journal,      \* the archive name of the rotation the journal row records
    current,      \* events.current.jsonl
    ragged,       \* the current file ends in part of a line
    rotating,     \* events.rotating.jsonl
    gz,           \* a temporary archive exists
    archives,     \* the archives, oldest first: [name, lines]
    gone,         \* events retention took out of the log
    stamped,      \* meta.last_prune, as the number of prunes stamped
    timers,       \* one-shot timers still stored
    lease,        \* holder of publisher.lock
    at,           \* what each process does next
    job,          \* why it holds the lease: "publish" or "prune"
    todo,         \* rows its drain has read and not yet handled, in the order of the events
    reader,       \* a log query: its next file, the events of the log it has not found
    faults, crashes

fileVars == <<current, ragged, rotating, gz, archives, gone>>
dbVars == <<outbox, last, journal, stamped, timers>>
boundVars == <<faults, crashes>>
vars == <<fileVars, dbVars, boundVars, lease, at, job, todo, reader>>

(* ---- reading the log ---- *)

Events(lines) == Range(lines) \ {Torn, -1}

\* Everything a reader could find in the files as they are.
Archived(files) == UNION {Events(files[i].lines) : i \in DOMAIN files}
FoundWith(files) == Archived(files) \cup Events(rotating) \cup Events(current)
Readable == FoundWith(archives)

\* The archives of a week are number 1, 2, ...; their names sort as strings, the
\* numbered names before the first, which has no number.
NameBefore(a, b) == a # 1 /\ (b = 1 \/ a < b)

\* read_log_tail: archives by name, then .rotating, then the current file.
History ==
    FlattenSeq([i \in DOMAIN archives |->
        SetToSortSeq(Range(archives), LAMBDA a, b : NameBefore(a.name, b.name))[i].lines])
    \o (IF rotating = Absent THEN <<>> ELSE rotating) \o current

\* Event ids in the last lines of a file; a torn line has none.
TailIds(lines) == {lines[i] : i \in {j \in DOMAIN lines : j > Len(lines) - TailScan}} \ {Torn, -1}

InTails == TailIds(current) \cup IF journal = NoJournal THEN {} ELSE TailIds(rotating)

\* The first archive name of the week that no archive has.
IsUniqueName(n) ==
    LET taken == {archives[i].name : i \in DOMAIN archives}
    IN  n \notin taken /\ 1..(n - 1) \subseteq taken

Size(files) == FoldLeft(LAMBDA sum, a : sum + Len(a.lines), Len(current), files)

(* ---- state ---- *)

TypeOK ==
    /\ faults \in 0..MaxFaults /\ crashes \in 0..MaxCrashes
    /\ last \in Nat /\ outbox \subseteq 1..last /\ gone \subseteq 1..last
    /\ journal \in Nat
    /\ current \in Seq(0..last)
    /\ rotating = Absent \/ rotating \in Seq(0..last)
    /\ \A i \in DOMAIN archives : archives[i].lines \in Seq(0..last)
    /\ ragged \in BOOLEAN /\ gz \in BOOLEAN
    /\ stamped \in 0..MaxPrunes /\ timers \subseteq OneShots
    /\ lease \in Procs \cup {None}
    /\ job \in [Procs -> {"publish", "prune"}]
    /\ todo \in [Procs -> SUBSET (1..last)]

Init ==
    /\ faults = 0 /\ crashes = 0
    /\ outbox = {} /\ last = 0 /\ journal = NoJournal /\ stamped = 0 /\ timers = OneShots
    /\ current = <<>> /\ ragged = FALSE /\ rotating = Absent /\ gz = FALSE
    /\ archives = <<>> /\ gone = {}
    /\ lease = None /\ at = [p \in Procs |-> "idle"]
    /\ job = [p \in Procs |-> "publish"] /\ todo = [p \in Procs |-> {}]
    /\ reader = NoQuery

Goto(p, step) == at' = [at EXCEPT ![p] = step]

\* The lease guard is dropped with the cycle, whatever ended it.
Release(p) ==
    /\ Goto(p, "idle") /\ lease' = None
    /\ todo' = [todo EXCEPT ![p] = {}] /\ job' = [job EXCEPT ![p] = "publish"]

\* enqueue_event: one committed row.
Committed == last' = last + 1 /\ outbox' = outbox \cup {last'}

(* ---- producers ---- *)

Enqueue ==
    /\ last < MaxEvents
    /\ Committed
    /\ UNCHANGED <<fileVars, boundVars, journal, stamped, timers, lease, at, job, todo, reader>>

(* ---- the publisher: election, recovery, reconciliation ---- *)

\* The weekly timer forces a prune; a start of the program runs one that is overdue.
PruneIsDue == stamped < MaxPrunes

\* publish_cycle, or a prune that is due; a held lease makes both return at once.
Elect(p, why) ==
    /\ at[p] = "idle" /\ lease = None
    /\ (why = "publish" \/ PruneIsDue)
    /\ lease' = p /\ Goto(p, "recover")
    /\ job' = [job EXCEPT ![p] = why]
    /\ reader' = [reader EXCEPT !.quiet = FALSE]
    /\ UNCHANGED <<fileVars, dbVars, boundVars, todo>>

\* What follows a finished recovery: a publish reconciles; a prune, or a drain
\* that is about to rotate, rotates.
Recovered(p) == Goto(p, IF job[p] = "publish" /\ todo[p] = {} THEN "reconcile" ELSE "rotate")

\* Without a journal row, or with one it could not read, recover_rotation has
\* nothing to recover.
JournalUnseen ==
    \/ journal = NoJournal /\ UNCHANGED faults
    \/ journal # NoJournal /\ "journal" \in Faults /\ faults < MaxFaults /\ faults' = faults + 1

RecoverNothing(p) ==
    /\ at[p] = "recover"
    /\ JournalUnseen
    /\ Recovered(p)
    /\ UNCHANGED <<fileVars, dbVars, crashes, lease, job, todo, reader>>

\* Rows of lines that are already in the current or the rotating file go.
RecoverRows(p) ==
    /\ at[p] = "recover" /\ journal # NoJournal
    /\ outbox' = outbox \ InTails
    /\ Goto(p, "recover files")
    /\ UNCHANGED <<fileVars, last, journal, stamped, timers, boundVars, lease, job, todo, reader>>

\* Mutant: a temporary archive counts as the final one.
FinalOrTemporary == gz \/ \E i \in DOMAIN archives : archives[i].name = journal

FinalExists == \E i \in DOMAIN archives : archives[i].name = journal

\* The archive is made from the plain source, never from a partial temporary.
RecoverArchive(p) ==
    /\ at[p] = "recover files" /\ ~FinalExists /\ rotating # Absent
    /\ archives' = Append(archives, [name |-> journal, lines |-> rotating])
    /\ gz' = FALSE
    /\ UNCHANGED <<current, ragged, rotating, gone, dbVars, boundVars, lease, at, job, todo, reader>>

\* The archive is there, or nothing was renamed: the left-overs go.
RecoverRemove(p) ==
    /\ at[p] = "recover files" /\ (FinalExists \/ rotating = Absent)
    /\ gz' = FALSE /\ rotating' = Absent
    /\ Goto(p, "recover clear")
    /\ UNCHANGED <<current, ragged, archives, gone, dbVars, boundVars, lease, job, todo, reader>>

RecoverClear(p) ==
    /\ at[p] = "recover clear"
    /\ journal' = NoJournal
    /\ Recovered(p)
    /\ UNCHANGED <<fileVars, outbox, last, stamped, timers, boundVars, lease, job, todo, reader>>

\* reconcile_tail, then the pending rows the drain will handle.
Reconcile(p) ==
    /\ at[p] = "reconcile"
    /\ outbox' = outbox \ InTails
    /\ todo' = [todo EXCEPT ![p] = outbox']
    /\ Goto(p, "drain")
    /\ UNCHANGED <<fileVars, last, journal, stamped, timers, boundVars, lease, job, reader>>

(* ---- the drain ---- *)

NeedsRotation == current # <<>> /\ Len(current) + 1 > MaxLines

\* Mutant: the lease is not given back.
DrainKeepsLease(p) ==
    /\ at[p] = "drain" /\ todo[p] = {}
    /\ Goto(p, "idle")
    /\ UNCHANGED <<fileVars, dbVars, boundVars, lease, job, todo, reader>>

DrainDone(p) ==
    /\ at[p] = "drain" /\ todo[p] = {}
    /\ Release(p)
    /\ UNCHANGED <<fileVars, dbVars, boundVars, reader>>

DrainRotates(p) ==
    /\ at[p] = "drain" /\ todo[p] # {} /\ NeedsRotation
    /\ Goto(p, "rotate")
    /\ UNCHANGED <<fileVars, dbVars, boundVars, lease, job, todo, reader>>

\* The head of the batch fits, or the rotation it needed is done.
Appends(p) ==
    \/ at[p] = "append"
    \/ /\ at[p] = "drain"
       /\ todo[p] # {} /\ ~NeedsRotation

\* append_line_synced: a line that follows part of a line is part of it.
AppendLine(p) ==
    /\ Appends(p)
    /\ current' = Append(current, IF ragged THEN Torn ELSE Min(todo[p]))
    /\ ragged' = FALSE
    /\ Goto(p, "mark")
    /\ UNCHANGED <<rotating, gz, archives, gone, dbVars, boundVars, lease, job, todo, reader>>

\* Mutant: an event whose append failed is marked published.
AppendFailsMarked(p) ==
    /\ Appends(p)
    /\ faults < MaxFaults /\ faults' = faults + 1
    /\ outbox' = outbox \ {Min(todo[p])}
    /\ Release(p)
    /\ UNCHANGED <<fileVars, last, journal, stamped, timers, crashes, reader>>

\* The write stops half way, or the line is written and its sync fails.
AppendFails(p) ==
    /\ Appends(p)
    /\ faults < MaxFaults /\ faults' = faults + 1
    /\ \/ "torn" \in Faults /\ ragged' = TRUE /\ UNCHANGED current
       \/ /\ "io" \in Faults
          /\ current' = Append(current, IF ragged THEN Torn ELSE Min(todo[p]))
          /\ ragged' = FALSE
    /\ Release(p)
    /\ UNCHANGED <<rotating, gz, archives, gone, dbVars, crashes, reader>>

\* mark_event_published deletes the row of a synced line.
Mark(p) ==
    /\ at[p] = "mark"
    /\ outbox' = outbox \ {Min(todo[p])}
    /\ todo' = [todo EXCEPT ![p] = @ \ {Min(@)}]
    /\ Goto(p, "drain")
    /\ UNCHANGED <<fileVars, last, journal, stamped, timers, boundVars, lease, job, reader>>

(* ---- the journaled rotation ---- *)

\* After the rotation: a drain notes it and appends, a prune goes on to retain.
RotateEmpty(p) ==
    /\ at[p] = "rotate" /\ current = <<>> /\ ~ragged
    /\ JournalUnseen
    /\ Goto(p, IF job[p] = "publish" THEN "append" ELSE "retain")
    /\ UNCHANGED <<fileVars, dbVars, crashes, lease, job, todo, reader>>

RotateRecovers(p) ==
    /\ at[p] = "rotate" /\ journal # NoJournal
    /\ outbox' = outbox \ InTails
    /\ Goto(p, "recover files")
    /\ UNCHANGED <<fileVars, last, journal, stamped, timers, boundVars, lease, job, todo, reader>>

\* A journal row that cannot be read is taken for none, and written over.
RotateJournal(p) ==
    /\ at[p] = "rotate"
    /\ current # <<>> \/ ragged
    /\ JournalUnseen
    /\ \E n \in 1..(Len(archives) + 1) : IsUniqueName(n) /\ journal' = n
    /\ Goto(p, "rename")
    /\ UNCHANGED <<fileVars, outbox, last, stamped, timers, crashes, lease, job, todo, reader>>

\* The rename replaces a .rotating file that may be there.
RotateRename(p) ==
    /\ at[p] = "rename"
    /\ rotating' = current /\ current' = <<>> /\ ragged' = FALSE
    /\ Goto(p, "gzip")
    /\ UNCHANGED <<gz, archives, gone, dbVars, boundVars, lease, job, todo, reader>>

RotateGzip(p) ==
    /\ at[p] = "gzip"
    /\ gz' = TRUE
    /\ Goto(p, "final")
    /\ UNCHANGED <<current, ragged, rotating, archives, gone, dbVars, boundVars, lease, job, todo, reader>>

\* Mutant: the rotation ends with its source still there.
RotateFinalKeepsSource(p) ==
    /\ at[p] = "final"
    /\ archives' = Append(archives, [name |-> journal, lines |-> rotating])
    /\ gz' = FALSE
    /\ Goto(p, "clear")
    /\ UNCHANGED <<current, ragged, rotating, gone, dbVars, boundVars, lease, job, todo, reader>>

RotateFinal(p) ==
    /\ at[p] = "final"
    /\ archives' = Append(archives, [name |-> journal, lines |-> rotating])
    /\ gz' = FALSE
    /\ Goto(p, "remove")
    /\ UNCHANGED <<current, ragged, rotating, gone, dbVars, boundVars, lease, job, todo, reader>>

RotateRemove(p) ==
    /\ at[p] = "remove"
    /\ rotating' = Absent
    /\ Goto(p, "clear")
    /\ UNCHANGED <<current, ragged, gz, archives, gone, dbVars, boundVars, lease, job, todo, reader>>

RotateClear(p) ==
    /\ at[p] = "clear"
    /\ journal' = NoJournal
    /\ Goto(p, IF job[p] = "publish" THEN "note" ELSE "retain")
    /\ UNCHANGED <<fileVars, outbox, last, stamped, timers, boundVars, lease, job, todo, reader>>

RotationNote(p) ==
    /\ at[p] = "note"
    /\ Committed
    /\ Goto(p, "append")
    /\ UNCHANGED <<fileVars, journal, stamped, timers, boundVars, lease, job, todo, reader>>

\* A file operation, or a store call, of the cycle fails: it ends there.
StepFails(p) ==
    /\ at[p] \in {"recover files", "mark", "rename", "gzip", "final", "remove", "note", "retain", "retained", "stamp"}
    /\ "io" \in Faults /\ faults < MaxFaults /\ faults' = faults + 1
    /\ Release(p)
    /\ UNCHANGED <<fileVars, dbVars, crashes, reader>>

(* ---- the prune ---- *)

\* retain: the archives that are too old go (the oldest aged of them), then the
\* oldest of the others while the log is too big.
Kept(aged) ==
    LET young == SubSeq(archives, aged + 1, Len(archives))
        fits(k) == Size(SubSeq(young, k, Len(young))) <= Budget
    IN  SubSeq(young, Min({k \in 1..(Len(young) + 1) : k = Len(young) + 1 \/ fits(k)}), Len(young))

Retain(p) ==
    /\ at[p] = "retain"
    /\ \E aged \in 0..Len(archives) : archives' = Kept(aged)
    /\ gz' = FALSE
    /\ gone' = gone \cup (Readable \ FoundWith(archives'))
    /\ Goto(p, IF archives' = archives THEN "timers" ELSE "retained")
    /\ UNCHANGED <<current, ragged, rotating, dbVars, boundVars, lease, job, todo, reader>>

\* What retention removed is noted after the fact.
RetentionNote(p) ==
    /\ at[p] = "retained"
    /\ Committed
    /\ Goto(p, "timers")
    /\ UNCHANGED <<fileVars, journal, stamped, timers, boundVars, lease, job, todo, reader>>

\* An elapsed one-shot is deleted in one commit, its tombstone is another.
PruneTimer(p) ==
    /\ at[p] = "timers"
    /\ \E t \in timers : timers' = timers \ {t}
    /\ Goto(p, "tombstone")
    /\ UNCHANGED <<fileVars, outbox, last, journal, stamped, boundVars, lease, job, todo, reader>>

Tombstone(p) ==
    /\ at[p] = "tombstone"
    /\ Committed
    /\ Goto(p, "timers")
    /\ UNCHANGED <<fileVars, journal, stamped, timers, boundVars, lease, job, todo, reader>>

PruneSwept(p) ==
    /\ at[p] = "timers" /\ timers = {}
    /\ Goto(p, "stamp")
    /\ UNCHANGED <<fileVars, dbVars, boundVars, lease, job, todo, reader>>

\* Mutant: the process that could not rotate stamps the prune.
NotLeaderStamps(p) ==
    /\ at[p] = "idle" /\ lease # None /\ PruneIsDue
    /\ stamped' = stamped + 1
    /\ UNCHANGED <<fileVars, outbox, last, journal, timers, boundVars, lease, at, job, todo, reader>>

\* run_prune gives up, unstamped, when another process holds the lease.
NotLeader(p) ==
    /\ at[p] = "idle" /\ lease # None /\ PruneIsDue
    /\ UNCHANGED vars

Stamp(p) ==
    /\ at[p] = "stamp"
    /\ stamped' = stamped + 1
    /\ Release(p)
    /\ UNCHANGED <<fileVars, outbox, last, journal, timers, boundVars, reader>>

(* ---- readers and crashes ---- *)

ReadArchives ==
    /\ reader = NoQuery
    /\ reader' = [at |-> "rotating", quiet |-> lease = None,
                  missing |-> Readable \ Archived(archives)]
    /\ UNCHANGED <<fileVars, dbVars, boundVars, lease, at, job, todo>>

\* Mutant: a half-done rotation is not looked for.
ReadNoRotating ==
    /\ reader.at = "rotating"
    /\ reader' = [reader EXCEPT !.at = "current"]
    /\ UNCHANGED <<fileVars, dbVars, boundVars, lease, at, job, todo>>

ReadRotating ==
    /\ reader.at = "rotating"
    /\ reader' = [reader EXCEPT !.at = "current", !.missing = @ \ Events(rotating)]
    /\ UNCHANGED <<fileVars, dbVars, boundVars, lease, at, job, todo>>

ReadCurrent ==
    /\ reader.at = "current"
    /\ reader' = [reader EXCEPT !.at = "done", !.missing = @ \ Events(current)]
    /\ UNCHANGED <<fileVars, dbVars, boundVars, lease, at, job, todo>>

QueryDone ==
    /\ reader.at = "done"
    /\ reader' = NoQuery
    /\ UNCHANGED <<fileVars, dbVars, boundVars, lease, at, job, todo>>

\* A process dies; the operating system frees its lock.
Crash(p) ==
    /\ at[p] # "idle" /\ crashes < MaxCrashes
    /\ crashes' = crashes + 1
    /\ Release(p)
    /\ UNCHANGED <<fileVars, dbVars, faults, reader>>

\* The next step of the cycle a process is in.
Step(p) ==
    \/ RecoverNothing(p) \/ RecoverRows(p) \/ RecoverArchive(p) \/ RecoverRemove(p)
    \/ RecoverClear(p) \/ Reconcile(p)
    \/ DrainDone(p) \/ DrainRotates(p) \/ AppendLine(p) \/ Mark(p)
    \/ RotateEmpty(p) \/ RotateRecovers(p) \/ RotateJournal(p) \/ RotateRename(p) \/ RotateGzip(p)
    \/ RotateFinal(p) \/ RotateRemove(p) \/ RotateClear(p) \/ RotationNote(p)
    \/ Retain(p) \/ RetentionNote(p) \/ PruneTimer(p) \/ Tombstone(p) \/ PruneSwept(p) \/ Stamp(p)

Next ==
    \/ Enqueue \/ ReadArchives \/ ReadRotating \/ ReadCurrent \/ QueryDone
    \/ \E p \in Procs : \/ Step(p) \/ AppendFails(p) \/ StepFails(p) \/ Crash(p)
                        \/ Elect(p, "publish") \/ Elect(p, "prune") \/ NotLeader(p)

Spec == Init /\ [][Next]_vars

\* A process that began a cycle gets on with it, and the watcher's loop starts
\* one on every tick it finds the lease free.
Fairness ==
    /\ \A p \in Procs : WF_vars(Step(p))
    /\ WF_vars(Elect(Watcher, "publish"))

FairSpec == Spec /\ Fairness

(* ---- properties ---- *)

\* A committed event is never lost: it waits in the outbox, a reader of the
\* files finds it, or retention took it out of the log.
NothingLost == 1..last \subseteq outbox \cup Readable \cup gone

\* Nothing of a rotation is left lying about: a rotating file or a temporary
\* archive is there only while the journal says so.
ArtifactsAreJournaled == (rotating # Absent \/ gz) => journal # NoJournal

\* A query that met no publisher at work returns every event of the log, a
\* rotation left half done included.
QuietHistoryIsWhole == reader.at = "done" /\ reader.quiet => reader.missing = {}

\* A query returns every event that was in the log when it began and that
\* retention has not taken since.  This does not hold (README, section 4).
HistoryIsWhole == reader.at = "done" => reader.missing \subseteq gone

\* The end of the history is the newest event of the log.  This does not hold
\* (README, section 4).
TailIsNewest ==
    History # <<>> => \A e \in Events(History) : e <= Last(History)

\* A prune is stamped only when it rotated: nothing is left in the current file.
StampedAfterRotation ==
    [][stamped' # stamped => current = <<>> /\ journal = NoJournal]_vars

\* The files, the journal and the outbox implement an at-least-once log.
Log == INSTANCE AtLeastOnceLog WITH waiting <- outbox, readable <- Readable, expired <- gone
ImplementsLog == Log!Spec

\* The outbox empties: every committed event is published in the end.
OutboxDrains == <>[](outbox = {})
=============================================================================
