---------------------------- MODULE OutboxProofs ----------------------------
(* The event log loses nothing and implements an at-least-once log, for any     *)
(* number of processes, events, crashes and failed calls, as long as a line is  *)
(* written whole and the journal row can be read.  The holder of the lease is   *)
(* the only one who touches files and rows, so the argument follows the place   *)
(* it is at: what the journal, the rotating file and the archive are there.     *)
EXTENDS EventOutbox, WellFoundedInduction, TLAPS

\* What the theorems assume: a write may fail, but it leaves whole lines or none,
\* and the journal row can be read.
Whole == Faults \subseteq {"io"}

Lines == Seq(Nat)
Archive == [name : Nat, lines : Lines]

DbTypes == last \in Nat /\ outbox \subseteq 1..last /\ journal \in Nat
FileTypes ==
    /\ current \in Lines /\ ragged = FALSE
    /\ rotating = Absent \/ rotating \in Lines
    /\ archives \in Seq(Archive)
    /\ gz \in BOOLEAN
Places == {"idle", "recover", "recover files", "recover clear", "reconcile", "drain", "append", "mark",
           "rotate", "rename", "gzip", "final", "remove", "clear", "note",
           "retain", "retained", "timers", "tombstone", "stamp"}
TurnTypes ==
    /\ at \in [Procs -> Places] /\ todo \in [Procs -> SUBSET Nat]
    /\ job \in [Procs -> {"publish", "prune"}]

\* What is in the log was committed.
Bounded == Readable \cup gone \subseteq 1..last

\* An archive of the name the journal records holds what the source holds.
Covered == journal # NoJournal /\ FinalExists => Events(rotating) \subseteq Archived(archives)

\* Where the files and the journal are at each place of a cycle.
Rotating == {"rename", "gzip", "final", "remove", "clear"}
Pruning == {"retain", "retained", "timers", "tombstone", "stamp"}
Phase(p) ==
    /\ at[p] \in {"idle", "recover", "recover files", "recover clear", "reconcile"} => todo[p] = {}
    /\ at[p] \in {"reconcile", "drain", "append", "mark", "rotate", "note"} \cup Pruning => journal = NoJournal
    /\ at[p] \in {"recover files"} \cup Rotating => journal # NoJournal
    /\ at[p] = "rename" => rotating = Absent /\ ~FinalExists
    /\ at[p] \in {"gzip", "final"} => rotating \in Lines
    /\ at[p] \in {"gzip", "final", "remove", "clear"} \cup Pruning => current = <<>>
    /\ at[p] = "remove" => ~gz /\ Events(rotating) \subseteq Archived(archives)
    /\ at[p] \in {"clear", "recover clear"} => rotating = Absent /\ ~gz
    /\ at[p] \in {"reconcile", "drain", "append", "mark", "note"} => job[p] = "publish"
    /\ at[p] \in {"rotate", "append", "mark", "note"} \cup Rotating /\ job[p] = "publish" => todo[p] # {}
    /\ at[p] = "mark" => Min(todo[p]) \in Events(current)

Turn(p) == (at[p] # "idle" => lease = p) /\ todo[p] \subseteq outbox /\ Phase(p)

Inv ==
    /\ DbTypes /\ FileTypes /\ TurnTypes
    /\ Bounded /\ NothingLost
    /\ ArtifactsAreJournaled /\ Covered
    /\ \A p \in Procs : Turn(p)

\* A step of the abstract log, in the words of the model.
Commits == outbox \subseteq outbox' /\ (outbox' \ outbox) \cap (Readable \cup gone) = {} /\ Readable' = Readable /\ gone' = gone
Publishes == \E e \in outbox : Readable' = Readable \cup {e} /\ outbox' = outbox /\ gone' = gone
Settles == outbox' \subseteq outbox /\ outbox \ outbox' \subseteq Readable \cup gone /\ Readable' = Readable /\ gone' = gone
Expires == Readable' \subseteq Readable /\ gone' = gone \cup (Readable \ Readable') /\ outbox' = outbox
Moves == Commits \/ Publishes \/ Settles \/ Expires

-----------------------------------------------------------------------------
(* Files *)

LEMMA LeastIsThere ==
    ASSUME NEW T, T \subseteq Nat, T # {}
    PROVE  Min(T) \in T /\ \A y \in T : Min(T) <= y
<1> DEFINE R == OpToRel(<, Nat)
<1>1. IsWellFoundedOn(R, Nat)
  BY NatLessThanWellFounded
<1>2. \A x, y \in Nat : x < y => <<x, y>> \in R
  BY DEF OpToRel
<1> HIDE DEF R
<1>3. PICK x \in T : \A y \in T : ~(<<y, x>> \in R)
  BY <1>1, WFMin
<1>4. \A y \in T : x <= y
  <2> TAKE y \in T
  <2>1. x \in Nat /\ y \in Nat /\ ~(y < x)
    BY <1>2, <1>3
  <2> QED BY <2>1
<1> QED BY <1>4 DEF Min

LEMMA LineAdded ==
    ASSUME NEW s \in Lines, NEW e \in Nat
    PROVE  Append(s, e) \in Lines /\ Events(Append(s, e)) = Events(s) \cup ({e} \ {Torn})
<1>1. Append(s, e) \in Lines /\ Len(Append(s, e)) = Len(s) + 1 /\ Len(s) \in Nat
  BY DEF Lines
<1>2. \A i \in 1..Len(s) : Append(s, e)[i] = s[i]
  BY DEF Lines
<1>3. Append(s, e)[Len(s) + 1] = e
  BY DEF Lines
<1>4. Range(Append(s, e)) = Range(s) \cup {e}
  <2>1. DOMAIN s = 1..Len(s) /\ DOMAIN Append(s, e) = 1..(Len(s) + 1)
    BY <1>1 DEF Lines
  <2>2. 1..(Len(s) + 1) = 1..Len(s) \cup {Len(s) + 1}
    BY <1>1
  <2> QED BY <1>2, <1>3, <2>1, <2>2 DEF Range
<1> QED BY <1>1, <1>4 DEF Events, Torn

LEMMA ArchiveAdded ==
    ASSUME NEW f \in Seq(Archive), NEW a \in Archive
    PROVE  Append(f, a) \in Seq(Archive) /\ Archived(Append(f, a)) = Archived(f) \cup Events(a.lines)
<1>1. Append(f, a) \in Seq(Archive) /\ Len(Append(f, a)) = Len(f) + 1 /\ Len(f) \in Nat
  OBVIOUS
<1>2. DOMAIN f = 1..Len(f) /\ DOMAIN Append(f, a) = 1..Len(f) \cup {Len(f) + 1}
  BY <1>1
<1>3. (\A i \in 1..Len(f) : Append(f, a)[i] = f[i]) /\ Append(f, a)[Len(f) + 1] = a
  OBVIOUS
<1> HIDE DEF Archive
<1> QED BY <1>1, <1>2, <1>3 DEF Archived

LEMMA ArchivesDropped ==
    ASSUME NEW f \in Seq(Archive), NEW k \in 1..(Len(f) + 1)
    PROVE  SubSeq(f, k, Len(f)) \in Seq(Archive) /\ Archived(SubSeq(f, k, Len(f))) \subseteq Archived(f)
<1> DEFINE g == SubSeq(f, k, Len(f))
<1>1. g \in Seq(Archive) /\ Len(g) = Len(f) - k + 1 /\ Len(f) \in Nat
  OBVIOUS
<1>2. \A i \in 1..Len(g) : g[i] = f[k + i - 1] /\ k + i - 1 \in 1..Len(f)
  BY <1>1
<1>3. DOMAIN g = 1..Len(g) /\ DOMAIN f = 1..Len(f)
  BY <1>1
<1> HIDE DEF Archive, g
<1>4. Archived(g) \subseteq Archived(f)
  BY <1>2, <1>3 DEF Archived
<1> QED BY <1>1, <1>4 DEF g

LEMMA TailsAreRead == InTails \subseteq Readable
<1>1. ASSUME NEW s PROVE TailIds(s) \subseteq Events(s)
  BY DEF TailIds, Events, Range
<1> QED BY <1>1 DEF InTails, Readable, FoundWith

LEMMA AbsentIsEmpty == Events(Absent) = {}
BY DEF Events, Absent, Range, Torn

-----------------------------------------------------------------------------
(* Frames *)

\* A step of the abstract log keeps the book.
LEMMA BookKept ==
    ASSUME DbTypes, Bounded, NothingLost, Moves,
           \/ last' = last /\ outbox' \subseteq outbox
           \/ last' = last + 1 /\ outbox' = outbox \cup {last'}
    PROVE  last' \in Nat /\ outbox' \subseteq 1..last' /\ Bounded' /\ NothingLost'
<1>1. CASE last' = last /\ outbox' \subseteq outbox
  <2>1. last' \in Nat /\ outbox' \subseteq 1..last'
    BY <1>1 DEF DbTypes
  <2>2. Readable' \cup gone' \subseteq Readable \cup gone \cup outbox
    BY DEF Moves, Commits, Publishes, Settles, Expires
  <2>3. Bounded'
    BY <1>1, <2>2 DEF Bounded, DbTypes
  <2>4. outbox \cup Readable \cup gone \subseteq outbox' \cup Readable' \cup gone'
    BY DEF Moves, Commits, Publishes, Settles, Expires
  <2> QED BY <1>1, <2>1, <2>3, <2>4 DEF NothingLost
<1>2. CASE last' = last + 1 /\ outbox' = outbox \cup {last'}
  <2>1. last' \in Nat /\ 1..last' = 1..last \cup {last'} /\ last' \notin 1..last
    BY <1>2 DEF DbTypes
  <2>2. outbox' \subseteq 1..last'
    BY <1>2, <2>1 DEF DbTypes
  <2>3. Readable' \cup gone' \subseteq Readable \cup gone \cup outbox
    BY DEF Moves, Commits, Publishes, Settles, Expires
  <2>4. Bounded'
    BY <2>1, <2>3 DEF Bounded, DbTypes
  <2>5. outbox \cup Readable \cup gone \subseteq outbox' \cup Readable' \cup gone'
    BY <1>2 DEF Moves, Commits, Publishes, Settles, Expires
  <2> QED BY <1>2, <2>1, <2>2, <2>4, <2>5 DEF NothingLost
<1> QED BY <1>1, <1>2

\* While one process works the others are idle.
LEMMA OthersKeep ==
    ASSUME Inv, NEW p \in Procs, lease \in {p, None},
           \A q \in Procs \ {p} : at'[q] = at[q] /\ todo'[q] = todo[q],
           Turn(p)'
    PROVE  \A q \in Procs : Turn(q)'
<1> SUFFICES ASSUME NEW q \in Procs, q # p PROVE Turn(q)'
  OBVIOUS
<1>1. at[q] = "idle"
  BY ProcsAssumption DEF Inv, Turn
<1>2. todo[q] = {}
  BY <1>1 DEF Inv, Turn, Phase
<1>3. at'[q] = "idle" /\ todo'[q] = {}
  BY <1>1, <1>2
<1> QED BY <1>3 DEF Turn, Phase, Rotating, Pruning

\* What a step has to show of itself; the rest follows.
LEMMA StepKeeps ==
    ASSUME Inv, NEW p \in Procs, lease \in {p, None},
           TurnTypes', \A q \in Procs \ {p} : at'[q] = at[q] /\ todo'[q] = todo[q],
           Turn(p)', FileTypes', journal' \in Nat, ArtifactsAreJournaled', Covered', Moves,
           \/ last' = last /\ outbox' \subseteq outbox
           \/ last' = last + 1 /\ outbox' = outbox \cup {last'}
    PROVE  Inv'
<1>1. last' \in Nat /\ outbox' \subseteq 1..last' /\ Bounded' /\ NothingLost'
  BY BookKept DEF Inv
<1>2. \A q \in Procs : Turn(q)'
  BY OthersKeep
<1> QED BY <1>1, <1>2 DEF Inv, DbTypes

Still == UNCHANGED <<current, ragged, rotating, gz, archives, gone, journal>>

\* Rows change and the files do not.
LEMMA StillMoves ==
    ASSUME Inv, Still,
           \/ last' = last /\ outbox' \subseteq outbox /\ outbox \ outbox' \subseteq Readable
           \/ last' = last + 1 /\ outbox' = outbox \cup {last'}
    PROVE  /\ Moves /\ FileTypes' /\ journal' \in Nat /\ ArtifactsAreJournaled' /\ Covered'
           /\ \/ last' = last /\ outbox' \subseteq outbox
              \/ last' = last + 1 /\ outbox' = outbox \cup {last'}
<1>1. Readable' = Readable /\ gone' = gone
  BY DEF Still, Readable, FoundWith, Archived
<1>2. FileTypes' /\ journal' \in Nat
  BY DEF Inv, FileTypes, DbTypes, Still
<1>3. ArtifactsAreJournaled' /\ Covered'
  BY DEF Inv, ArtifactsAreJournaled, Covered, FinalExists, Archived, Still
<1>4. CASE last' = last /\ outbox' \subseteq outbox /\ outbox \ outbox' \subseteq Readable
  <2>1. Settles
    BY <1>1, <1>4 DEF Settles
  <2> QED BY <1>2, <1>3, <1>4, <2>1 DEF Moves
<1>5. CASE last' = last + 1 /\ outbox' = outbox \cup {last'}
  <2>1. last' \notin 1..last
    BY <1>5 DEF Inv, DbTypes
  <2>2. Commits
    BY <1>1, <1>5, <2>1 DEF Commits, Inv, Bounded
  <2> QED BY <1>2, <1>3, <1>5, <2>2 DEF Moves
<1> QED BY <1>4, <1>5

LEMMA StillKeeps ==
    ASSUME Inv, Still, NEW p \in Procs, lease \in {p, None},
           TurnTypes', \A q \in Procs \ {p} : at'[q] = at[q] /\ todo'[q] = todo[q],
           Turn(p)',
           \/ last' = last /\ outbox' \subseteq outbox /\ outbox \ outbox' \subseteq Readable
           \/ last' = last + 1 /\ outbox' = outbox \cup {last'}
    PROVE  Inv' /\ Moves
BY StillMoves, StepKeeps

\* The end of a cycle, whatever ended it.
LEMMA ReleaseTurns ==
    ASSUME Inv, NEW p \in Procs, Release(p)
    PROVE  TurnTypes' /\ Turn(p)' /\ \A q \in Procs \ {p} : at'[q] = at[q] /\ todo'[q] = todo[q]
<1>1. TurnTypes'
  <2>1. at' \in [Procs -> Places]
    BY DEF Inv, TurnTypes, Release, Goto, Places
  <2>2. todo' \in [Procs -> SUBSET Nat]
    BY DEF Inv, TurnTypes, Release
  <2>3. job' \in [Procs -> {"publish", "prune"}]
    BY DEF Inv, TurnTypes, Release
  <2> QED BY <2>1, <2>2, <2>3 DEF TurnTypes
<1>2. at'[p] = "idle" /\ todo'[p] = {}
  BY DEF Inv, TurnTypes, Release, Goto
<1>3. Turn(p)'
  BY <1>2 DEF Turn, Phase, Rotating, Pruning
<1> QED BY <1>1, <1>3 DEF Inv, TurnTypes, Release, Goto

LEMMA WorksAlone ==
    ASSUME Inv, NEW p \in Procs, at[p] # "idle"
    PROVE  lease \in {p, None}
BY DEF Inv, Turn

\* A place entered with the work list as it was.
LEMMA GoTurns ==
    ASSUME Inv, NEW p \in Procs, NEW step \in Places, Goto(p, step), UNCHANGED <<job, todo>>
    PROVE  /\ TurnTypes' /\ at'[p] = step /\ todo'[p] = todo[p] /\ job'[p] = job[p]
           /\ \A q \in Procs \ {p} : at'[q] = at[q] /\ todo'[q] = todo[q]
BY DEF Inv, TurnTypes, Goto

-----------------------------------------------------------------------------
(* Producers, readers, and the steps that end a cycle *)

LEMMA EnqueueKeeps ==
    ASSUME Inv, Enqueue PROVE Inv' /\ Moves
<1>1. Still /\ last' = last + 1 /\ outbox' = outbox \cup {last'}
  BY DEF Enqueue, Still, fileVars, Committed
<1>2. UNCHANGED <<lease, at, job, todo>>
  BY DEF Enqueue
<1>3. Moves /\ FileTypes' /\ journal' \in Nat /\ ArtifactsAreJournaled' /\ Covered'
  BY <1>1, StillMoves
<1>4. last' \in Nat /\ outbox' \subseteq 1..last' /\ Bounded' /\ NothingLost'
  BY <1>1, <1>3, BookKept DEF Inv
<1>5. ASSUME NEW q \in Procs PROVE Turn(q)'
  BY <1>1, <1>2 DEF Inv, Turn, Phase, Still, FinalExists, Archived, Rotating, Pruning
<1>6. TurnTypes'
  BY <1>2 DEF Inv, TurnTypes
<1> QED BY <1>3, <1>4, <1>5, <1>6 DEF Inv, DbTypes

LEMMA ReadersKeep ==
    ASSUME Inv, UNCHANGED <<fileVars, dbVars, lease, at, job, todo>> PROVE Inv' /\ Moves
<1>1. Still /\ last' = last /\ outbox' = outbox
  BY DEF Still, fileVars, dbVars
<1>3. Moves /\ FileTypes' /\ journal' \in Nat /\ ArtifactsAreJournaled' /\ Covered'
  BY <1>1, StillMoves
<1>4. last' \in Nat /\ outbox' \subseteq 1..last' /\ Bounded' /\ NothingLost'
  BY <1>1, <1>3, BookKept DEF Inv
<1>5. ASSUME NEW q \in Procs PROVE Turn(q)'
  BY <1>1 DEF Inv, Turn, Phase, Still, FinalExists, Archived, Rotating, Pruning
<1>6. TurnTypes'
  BY DEF Inv, TurnTypes
<1> QED BY <1>3, <1>4, <1>5, <1>6 DEF Inv, DbTypes

LEMMA EndsKeep ==
    ASSUME Inv, NEW p \in Procs, at[p] # "idle", Release(p), UNCHANGED <<fileVars, outbox, last, journal>>
    PROVE  Inv' /\ Moves
<1>1. Still /\ last' = last /\ outbox' = outbox
  BY DEF Still, fileVars
<1> QED BY <1>1, ReleaseTurns, WorksAlone, StillKeeps

LEMMA ElectKeeps ==
    ASSUME Inv, NEW p \in Procs, NEW why \in {"publish", "prune"}, Elect(p, why) PROVE Inv' /\ Moves
<1>1. Still /\ last' = last /\ outbox' = outbox /\ lease = None /\ lease' = p
  BY DEF Elect, Still, fileVars, dbVars
<1>2. TurnTypes' /\ at'[p] = "recover" /\ todo'[p] = todo[p]
  <2>1. at' \in [Procs -> Places] /\ at'[p] = "recover" /\ todo' = todo
    BY DEF Elect, Inv, TurnTypes, Goto, Places
  <2>2. job' \in [Procs -> {"publish", "prune"}]
    BY DEF Elect, Inv, TurnTypes
  <2> QED BY <2>1, <2>2 DEF Inv, TurnTypes
<1>3. \A q \in Procs \ {p} : at'[q] = at[q] /\ todo'[q] = todo[q]
  BY DEF Elect, Inv, TurnTypes, Goto
<1>4. todo[p] = {}
  BY DEF Elect, Inv, Turn, Phase
<1>5. Turn(p)'
  BY <1>1, <1>2, <1>4 DEF Turn, Phase, Rotating, Pruning
<1> QED BY <1>1, <1>2, <1>3, <1>5, StillKeeps

-----------------------------------------------------------------------------
(* Steps of a cycle that leave the files alone *)

\* A step that moves on without touching a row, a file or the journal.
LEMMA GoKeeps ==
    ASSUME Inv, NEW p \in Procs, at[p] # "idle", NEW step \in Places, Goto(p, step), Still,
           UNCHANGED <<last, outbox, lease, job, todo>>, Phase(p)'
    PROVE  Inv' /\ Moves
<1>1. /\ TurnTypes' /\ \A q \in Procs \ {p} : at'[q] = at[q] /\ todo'[q] = todo[q]
  BY GoTurns
<1>2. Turn(p)'
  BY DEF Inv, Turn
<1> QED BY <1>1, <1>2, WorksAlone, StillKeeps

LEMMA RecoverNothingKeeps ==
    ASSUME Whole, Inv, NEW p \in Procs, RecoverNothing(p) PROVE Inv' /\ Moves
<1>1. at[p] = "recover" /\ journal = NoJournal
  BY DEF RecoverNothing, JournalUnseen, Whole
<1>2. Still /\ UNCHANGED <<last, outbox, lease, job, todo>>
  BY DEF RecoverNothing, Still, fileVars, dbVars
<1>3. todo[p] = {}
  BY <1>1 DEF Inv, Turn, Phase
<1>4. CASE job[p] = "publish"
  <2>1. Goto(p, "reconcile")
    BY <1>3, <1>4 DEF RecoverNothing, Recovered
  <2>2. at'[p] = "reconcile" /\ todo'[p] = {} /\ job'[p] = "publish" /\ journal' = NoJournal
    BY <1>1, <1>2, <1>3, <1>4, <2>1, GoTurns DEF Places, Still
  <2>3. Phase(p)'
    BY <2>2 DEF Phase, Rotating, Pruning
  <2> QED BY <1>1, <1>2, <2>1, <2>3, GoKeeps DEF Places
<1>5. CASE job[p] # "publish"
  <2>1. Goto(p, "rotate")
    BY <1>3, <1>5 DEF RecoverNothing, Recovered
  <2>2. at'[p] = "rotate" /\ job'[p] # "publish" /\ journal' = NoJournal
    BY <1>1, <1>2, <1>3, <1>5, <2>1, GoTurns DEF Places, Still
  <2>3. Phase(p)'
    BY <2>2 DEF Phase, Rotating, Pruning
  <2> QED BY <1>1, <1>2, <2>1, <2>3, GoKeeps DEF Places
<1> QED BY <1>4, <1>5

LEMMA RecoverRowsKeeps ==
    ASSUME Inv, NEW p \in Procs, RecoverRows(p) PROVE Inv' /\ Moves
<1>1. at[p] = "recover" /\ journal # NoJournal /\ outbox' = outbox \ InTails /\ last' = last
  BY DEF RecoverRows
<1>2. Still /\ UNCHANGED <<lease, job, todo>> /\ Goto(p, "recover files")
  BY DEF RecoverRows, Still, fileVars
<1>3. todo[p] = {} /\ lease = p
  BY <1>1 DEF Inv, Turn, Phase
<1>4. /\ TurnTypes' /\ at'[p] = "recover files" /\ todo'[p] = {}
      /\ \A q \in Procs \ {p} : at'[q] = at[q] /\ todo'[q] = todo[q]
  BY <1>2, <1>3, GoTurns DEF Places
<1>5. Turn(p)'
  BY <1>1, <1>2, <1>3, <1>4 DEF Turn, Phase, Rotating, Pruning, Still
<1> QED BY <1>1, <1>2, <1>3, <1>4, <1>5, TailsAreRead, StillKeeps

LEMMA ReconcileKeeps ==
    ASSUME Inv, NEW p \in Procs, Reconcile(p) PROVE Inv' /\ Moves
<1>1. at[p] = "reconcile" /\ outbox' = outbox \ InTails /\ last' = last
  BY DEF Reconcile
<1>2. Still /\ UNCHANGED <<lease, job>> /\ Goto(p, "drain") /\ todo' = [todo EXCEPT ![p] = outbox']
  BY DEF Reconcile, Still, fileVars
<1>3. lease = p /\ journal = NoJournal /\ job[p] = "publish"
  BY <1>1 DEF Inv, Turn, Phase
<1>4. outbox' \subseteq Nat
  <2>1. 1..last \subseteq Nat
    BY DEF Inv, DbTypes
  <2> QED BY <1>1, <2>1 DEF Inv, DbTypes
<1>5. TurnTypes' /\ at'[p] = "drain" /\ todo'[p] = outbox'
  <2>1. at' \in [Procs -> Places] /\ at'[p] = "drain"
    BY <1>2 DEF Inv, TurnTypes, Goto, Places
  <2>2. todo' \in [Procs -> SUBSET Nat] /\ todo'[p] = outbox'
    BY <1>2, <1>4 DEF Inv, TurnTypes
  <2> QED BY <1>2, <2>1, <2>2 DEF Inv, TurnTypes
<1>6. \A q \in Procs \ {p} : at'[q] = at[q] /\ todo'[q] = todo[q]
  BY <1>2 DEF Inv, TurnTypes, Goto
<1>7. Turn(p)'
  BY <1>2, <1>3, <1>5 DEF Turn, Phase, Rotating, Pruning, Still
<1> QED BY <1>1, <1>2, <1>3, <1>5, <1>6, <1>7, TailsAreRead, StillKeeps

LEMMA MarkKeeps ==
    ASSUME Inv, NEW p \in Procs, Mark(p) PROVE Inv' /\ Moves
<1> DEFINE e == Min(todo[p])
<1>1. at[p] = "mark" /\ outbox' = outbox \ {e} /\ last' = last
  BY DEF Mark
<1>2. Still /\ UNCHANGED <<lease, job>> /\ Goto(p, "drain") /\ todo' = [todo EXCEPT ![p] = todo[p] \ {e}]
  BY DEF Mark, Still, fileVars
<1>3. lease = p /\ journal = NoJournal /\ job[p] = "publish" /\ e \in Events(current) /\ todo[p] \subseteq outbox
  BY <1>1 DEF Inv, Turn, Phase
<1>4. e \in Readable
  BY <1>3 DEF Readable, FoundWith
<1> HIDE DEF e
<1>5. TurnTypes' /\ at'[p] = "drain" /\ todo'[p] = todo[p] \ {e}
  <2>1. at' \in [Procs -> Places] /\ at'[p] = "drain"
    BY <1>2 DEF Inv, TurnTypes, Goto, Places
  <2>2. todo' \in [Procs -> SUBSET Nat] /\ todo'[p] = todo[p] \ {e}
    BY <1>2 DEF Inv, TurnTypes
  <2> QED BY <1>2, <2>1, <2>2 DEF Inv, TurnTypes
<1>6. \A q \in Procs \ {p} : at'[q] = at[q] /\ todo'[q] = todo[q]
  BY <1>2 DEF Inv, TurnTypes, Goto
<1>7. Turn(p)'
  BY <1>1, <1>2, <1>3, <1>5 DEF Turn, Phase, Rotating, Pruning, Still
<1> QED BY <1>1, <1>2, <1>3, <1>4, <1>5, <1>6, <1>7, StillKeeps

LEMMA DrainRotatesKeeps ==
    ASSUME Inv, NEW p \in Procs, DrainRotates(p) PROVE Inv' /\ Moves
<1>1. at[p] = "drain" /\ todo[p] # {} /\ Goto(p, "rotate")
  BY DEF DrainRotates
<1>2. Still /\ UNCHANGED <<last, outbox, lease, job, todo>>
  BY DEF DrainRotates, Still, fileVars, dbVars
<1>3. journal = NoJournal /\ at'[p] = "rotate" /\ todo'[p] = todo[p]
  BY <1>1, <1>2, GoTurns DEF Inv, Turn, Phase, Places
<1>4. Phase(p)'
  BY <1>1, <1>2, <1>3 DEF Phase, Rotating, Pruning, Still
<1> QED BY <1>1, <1>2, <1>4, GoKeeps DEF Places

LEMMA RotateEmptyKeeps ==
    ASSUME Whole, Inv, NEW p \in Procs, RotateEmpty(p) PROVE Inv' /\ Moves
<1>1. at[p] = "rotate" /\ journal = NoJournal /\ current = <<>>
  BY DEF RotateEmpty, JournalUnseen, Whole
<1>2. Still /\ UNCHANGED <<last, outbox, lease, job, todo>>
  BY DEF RotateEmpty, Still, fileVars, dbVars
<1>3. job[p] = "publish" => todo[p] # {}
  BY <1>1 DEF Inv, Turn, Phase
<1>4. CASE job[p] = "publish"
  <2>1. Goto(p, "append")
    BY <1>4 DEF RotateEmpty
  <2>2. at'[p] = "append" /\ todo'[p] # {} /\ job'[p] = "publish"
    BY <1>2, <1>3, <1>4, <2>1, GoTurns DEF Places
  <2>3. Phase(p)'
    BY <1>1, <1>2, <2>2 DEF Phase, Rotating, Pruning, Still
  <2> QED BY <1>1, <1>2, <2>1, <2>3, GoKeeps DEF Places
<1>5. CASE job[p] # "publish"
  <2>1. Goto(p, "retain")
    BY <1>5 DEF RotateEmpty
  <2>2. at'[p] = "retain"
    BY <1>2, <2>1, GoTurns DEF Places
  <2>3. Phase(p)'
    BY <1>1, <1>2, <2>2 DEF Phase, Rotating, Pruning, Still
  <2> QED BY <1>1, <1>2, <2>1, <2>3, GoKeeps DEF Places
<1> QED BY <1>4, <1>5

\* A note is a new row; the cycle goes on.
LEMMA NoteKeeps ==
    ASSUME Inv, NEW p \in Procs, at[p] # "idle", NEW step \in Places, Goto(p, step), Committed, Still,
           UNCHANGED <<lease, job, todo>>, Phase(p)'
    PROVE  Inv' /\ Moves
<1>1. /\ TurnTypes' /\ \A q \in Procs \ {p} : at'[q] = at[q] /\ todo'[q] = todo[q]
  BY GoTurns
<1>2. Turn(p)'
  BY DEF Inv, Turn, Committed
<1> QED BY <1>1, <1>2, WorksAlone, StillKeeps DEF Committed

LEMMA RotationNoteKeeps ==
    ASSUME Inv, NEW p \in Procs, RotationNote(p) PROVE Inv' /\ Moves
<1>1. at[p] = "note" /\ Goto(p, "append") /\ Committed /\ Still /\ UNCHANGED <<lease, job, todo>>
  BY DEF RotationNote, Still, fileVars
<1>2. at'[p] = "append" /\ todo'[p] = todo[p] /\ job'[p] = job[p]
  BY <1>1, GoTurns DEF Places
<1>3. Phase(p)'
  BY <1>1, <1>2 DEF Inv, Turn, Phase, Rotating, Pruning, Still
<1> QED BY <1>1, <1>3, NoteKeeps DEF Places

LEMMA PruneNotesKeep ==
    ASSUME Inv, NEW p \in Procs, RetentionNote(p) \/ Tombstone(p) PROVE Inv' /\ Moves
<1>1. at[p] \in Pruning /\ Goto(p, "timers") /\ Committed /\ Still /\ UNCHANGED <<lease, job, todo>>
  BY DEF RetentionNote, Tombstone, Still, fileVars, Pruning
<1>2. at'[p] = "timers"
  BY <1>1, GoTurns DEF Places
<1>3. Phase(p)'
  BY <1>1, <1>2 DEF Inv, Turn, Phase, Rotating, Pruning, Still
<1> QED BY <1>1, <1>3, NoteKeeps DEF Places, Pruning

LEMMA PruneStepsKeep ==
    ASSUME Inv, NEW p \in Procs, PruneTimer(p) \/ PruneSwept(p) PROVE Inv' /\ Moves
<1>1. /\ at[p] = "timers" /\ (Goto(p, "tombstone") \/ Goto(p, "stamp"))
      /\ Still /\ UNCHANGED <<last, outbox, lease, job, todo>>
  BY DEF PruneTimer, PruneSwept, Still, fileVars, dbVars
<1>2. PICK step \in {"tombstone", "stamp"} : Goto(p, step)
  BY <1>1
<1>3. at'[p] = step
  BY <1>1, <1>2, GoTurns DEF Places
<1>4. journal = NoJournal /\ current = <<>>
  BY <1>1 DEF Inv, Turn, Phase, Pruning
<1>5. Phase(p)'
  BY <1>1, <1>3, <1>4 DEF Phase, Rotating, Pruning, Still
<1> QED BY <1>1, <1>2, <1>5, GoKeeps DEF Places, PruneTimer, PruneSwept

-----------------------------------------------------------------------------
(* Recovery of a rotation *)

LEMMA RecoverArchiveKeeps ==
    ASSUME Inv, NEW p \in Procs, RecoverArchive(p) PROVE Inv' /\ Moves
<1> DEFINE a == [name |-> journal, lines |-> rotating]
<1>1. at[p] = "recover files" /\ rotating # Absent /\ archives' = Append(archives, a) /\ gz' = FALSE
  BY DEF RecoverArchive
<1>2. UNCHANGED <<current, ragged, rotating, gone, outbox, last, journal, lease, at, job, todo>>
  BY DEF RecoverArchive, dbVars
<1>3. rotating \in Lines /\ journal \in Nat /\ journal # NoJournal /\ lease = p /\ todo[p] = {}
  BY <1>1 DEF Inv, FileTypes, DbTypes, Turn, Phase
<1>4. a \in Archive /\ a.lines = rotating
  BY <1>3 DEF Archive
<1> HIDE DEF a
<1>5. archives' \in Seq(Archive) /\ Archived(archives') = Archived(archives) \cup Events(rotating)
  BY <1>1, <1>4, ArchiveAdded DEF Inv, FileTypes
<1>6. Readable' = Readable
  BY <1>2, <1>5 DEF Readable, FoundWith
<1>7. Moves
  BY <1>2, <1>6 DEF Moves, Settles
<1>8. FileTypes' /\ journal' \in Nat
  BY <1>1, <1>2, <1>3, <1>5 DEF Inv, FileTypes
<1>9. ArtifactsAreJournaled' /\ Covered'
  BY <1>2, <1>3, <1>5 DEF ArtifactsAreJournaled, Covered
<1>10. TurnTypes' /\ Turn(p)'
  BY <1>1, <1>2, <1>3 DEF Inv, TurnTypes, Turn, Phase, Rotating, Pruning
<1> QED BY <1>2, <1>3, <1>7, <1>8, <1>9, <1>10, StepKeeps

LEMMA RecoverRemoveKeeps ==
    ASSUME Inv, NEW p \in Procs, RecoverRemove(p) PROVE Inv' /\ Moves
<1>1. /\ at[p] = "recover files" /\ (FinalExists \/ rotating = Absent) /\ rotating' = Absent /\ gz' = FALSE
      /\ Goto(p, "recover clear")
  BY DEF RecoverRemove
<1>2. UNCHANGED <<current, ragged, archives, gone, outbox, last, journal, lease, job, todo>>
  BY DEF RecoverRemove, dbVars
<1>3. journal \in Nat /\ journal # NoJournal /\ lease = p /\ todo[p] = {}
  BY <1>1 DEF Inv, DbTypes, Turn, Phase
<1>4. Events(rotating) \subseteq Archived(archives) /\ Events(rotating') = {}
  BY <1>1, <1>3, AbsentIsEmpty DEF Inv, Covered
<1>5. Readable' = Readable
  BY <1>2, <1>4 DEF Readable, FoundWith, Archived
<1>6. Moves
  BY <1>2, <1>5 DEF Moves, Settles
<1>7. FileTypes' /\ journal' \in Nat
  BY <1>1, <1>2, <1>3 DEF Inv, FileTypes
<1>8. ArtifactsAreJournaled' /\ Covered'
  BY <1>1, <1>2, <1>3, <1>4 DEF ArtifactsAreJournaled, Covered
<1>9. /\ TurnTypes' /\ at'[p] = "recover clear" /\ todo'[p] = todo[p]
      /\ \A q \in Procs \ {p} : at'[q] = at[q] /\ todo'[q] = todo[q]
  BY <1>1, <1>2, GoTurns DEF Places
<1>10. Turn(p)'
  BY <1>1, <1>2, <1>3, <1>9 DEF Turn, Phase, Rotating, Pruning
<1> QED BY <1>2, <1>3, <1>6, <1>7, <1>8, <1>9, <1>10, StepKeeps

\* Clearing the journal, with nothing of the rotation left.
LEMMA ClearKeeps ==
    ASSUME Inv, NEW p \in Procs, at[p] \in {"clear", "recover clear"}, journal' = NoJournal,
           UNCHANGED <<current, ragged, rotating, gz, archives, gone, outbox, last, lease, job, todo>>,
           NEW step \in Places, Goto(p, step), Phase(p)'
    PROVE  Inv' /\ Moves
<1>1. rotating = Absent /\ ~gz /\ lease = p
  BY DEF Inv, Turn, Phase
<1>2. Readable' = Readable
  BY DEF Readable, FoundWith, Archived
<1>3. Moves
  BY <1>2 DEF Moves, Settles
<1>4. FileTypes' /\ journal' \in Nat
  BY DEF Inv, FileTypes, NoJournal
<1>5. ArtifactsAreJournaled' /\ Covered'
  BY <1>1 DEF ArtifactsAreJournaled, Covered
<1>6. TurnTypes' /\ \A q \in Procs \ {p} : at'[q] = at[q] /\ todo'[q] = todo[q]
  BY GoTurns
<1>7. Turn(p)'
  BY <1>1 DEF Inv, Turn
<1> QED BY <1>1, <1>3, <1>4, <1>5, <1>6, <1>7, StepKeeps

LEMMA RecoverClearKeeps ==
    ASSUME Inv, NEW p \in Procs, RecoverClear(p) PROVE Inv' /\ Moves
<1>1. at[p] = "recover clear" /\ journal' = NoJournal /\ Recovered(p)
  BY DEF RecoverClear
<1>2. UNCHANGED <<current, ragged, rotating, gz, archives, gone, outbox, last, lease, job, todo>>
  BY DEF RecoverClear, fileVars
<1>3. todo[p] = {}
  BY <1>1 DEF Inv, Turn, Phase
<1>4. CASE job[p] = "publish"
  <2>1. Goto(p, "reconcile")
    BY <1>1, <1>3, <1>4 DEF Recovered
  <2>2. at'[p] = "reconcile" /\ todo'[p] = {} /\ job'[p] = "publish"
    BY <1>2, <1>3, <1>4, <2>1, GoTurns DEF Places
  <2>3. Phase(p)'
    BY <1>1, <2>2 DEF Phase, Rotating, Pruning
  <2> QED BY <1>1, <1>2, <2>1, <2>3, ClearKeeps DEF Places
<1>5. CASE job[p] # "publish"
  <2>1. Goto(p, "rotate")
    BY <1>1, <1>5 DEF Recovered
  <2>2. at'[p] = "rotate" /\ job'[p] # "publish"
    BY <1>2, <1>5, <2>1, GoTurns DEF Places
  <2>3. Phase(p)'
    BY <1>1, <2>2 DEF Phase, Rotating, Pruning
  <2> QED BY <1>1, <1>2, <2>1, <2>3, ClearKeeps DEF Places
<1> QED BY <1>4, <1>5

LEMMA RotateClearKeeps ==
    ASSUME Inv, NEW p \in Procs, RotateClear(p) PROVE Inv' /\ Moves
<1>1. at[p] = "clear" /\ journal' = NoJournal
  BY DEF RotateClear
<1>2. UNCHANGED <<current, ragged, rotating, gz, archives, gone, outbox, last, lease, job, todo>>
  BY DEF RotateClear, fileVars
<1>3. current = <<>> /\ (job[p] = "publish" => todo[p] # {})
  BY <1>1 DEF Inv, Turn, Phase, Rotating
<1>4. CASE job[p] = "publish"
  <2>1. Goto(p, "note")
    BY <1>4 DEF RotateClear
  <2>2. at'[p] = "note" /\ todo'[p] # {} /\ job'[p] = "publish"
    BY <1>2, <1>3, <1>4, <2>1, GoTurns DEF Places
  <2>3. Phase(p)'
    BY <1>1, <2>2 DEF Phase, Rotating, Pruning
  <2> QED BY <1>1, <1>2, <2>1, <2>3, ClearKeeps DEF Places
<1>5. CASE job[p] # "publish"
  <2>1. Goto(p, "retain")
    BY <1>5 DEF RotateClear
  <2>2. at'[p] = "retain"
    BY <1>2, <2>1, GoTurns DEF Places
  <2>3. Phase(p)'
    BY <1>1, <1>2, <1>3, <2>2 DEF Phase, Rotating, Pruning
  <2> QED BY <1>1, <1>2, <2>1, <2>3, ClearKeeps DEF Places
<1> QED BY <1>4, <1>5

-----------------------------------------------------------------------------
(* Appending a line *)

\* The head of the batch is a row of the outbox.
LEMMA HeadWaits ==
    ASSUME Inv, NEW p \in Procs, todo[p] # {}
    PROVE  Min(todo[p]) \in todo[p] /\ Min(todo[p]) \in outbox /\ Min(todo[p]) \in 1..last
<1>1. todo[p] \subseteq Nat /\ todo[p] \subseteq outbox /\ outbox \subseteq 1..last
  BY DEF Inv, TurnTypes, Turn, DbTypes
<1> QED BY <1>1, LeastIsThere

LEMMA Appended ==
    ASSUME Inv, NEW p \in Procs, todo[p] # {}, current' = Append(current, Min(todo[p])),
           UNCHANGED <<rotating, gz, archives, gone, outbox, last, journal>>, ragged' = FALSE
    PROVE  /\ Moves /\ FileTypes' /\ journal' \in Nat /\ ArtifactsAreJournaled' /\ Covered'
           /\ Min(todo[p]) \in Events(current')
<1> DEFINE e == Min(todo[p])
<1>1. e \in outbox /\ e \in Nat /\ e # Torn
  BY HeadWaits DEF Torn, Inv, DbTypes
<1> HIDE DEF e
<1>2. current' = Append(current, e)
  BY DEF e
<1>3. current' \in Lines /\ Events(current') = Events(current) \cup {e}
  BY <1>1, <1>2, LineAdded DEF Inv, FileTypes
<1>4. Readable' = Readable \cup {e}
  BY <1>3 DEF Readable, FoundWith, Archived
<1>5. Moves
  BY <1>1, <1>4 DEF Moves, Publishes
<1>6. FileTypes' /\ journal' \in Nat
  BY <1>3 DEF Inv, FileTypes, DbTypes
<1>7. ArtifactsAreJournaled' /\ Covered'
  BY DEF Inv, ArtifactsAreJournaled, Covered, FinalExists, Archived
<1> QED BY <1>3, <1>5, <1>6, <1>7 DEF e

LEMMA AppendsWith ==
    ASSUME Inv, NEW p \in Procs, Appends(p)
    PROVE  todo[p] # {} /\ at[p] # "idle" /\ lease = p /\ job[p] = "publish" /\ journal = NoJournal
BY DEF Appends, Inv, Turn, Phase

LEMMA AppendLineKeeps ==
    ASSUME Inv, NEW p \in Procs, AppendLine(p) PROVE Inv' /\ Moves
<1>1. todo[p] # {} /\ at[p] # "idle" /\ lease = p /\ job[p] = "publish" /\ journal = NoJournal
  BY AppendsWith DEF AppendLine
<1>2. /\ current' = Append(current, Min(todo[p])) /\ ragged' = FALSE /\ Goto(p, "mark")
      /\ UNCHANGED <<rotating, gz, archives, gone, outbox, last, journal, lease, job, todo>>
  BY DEF AppendLine, Inv, FileTypes, dbVars
<1>3. /\ Moves /\ FileTypes' /\ journal' \in Nat /\ ArtifactsAreJournaled' /\ Covered'
      /\ Min(todo[p]) \in Events(current')
  BY <1>1, <1>2, Appended
<1>4. /\ TurnTypes' /\ at'[p] = "mark" /\ todo'[p] = todo[p] /\ job'[p] = job[p]
      /\ \A q \in Procs \ {p} : at'[q] = at[q] /\ todo'[q] = todo[q]
  BY <1>2, GoTurns DEF Places
<1>5. Turn(p)'
  BY <1>1, <1>2, <1>3, <1>4 DEF Inv, Turn, Phase, Rotating, Pruning
<1> QED BY <1>1, <1>2, <1>3, <1>4, <1>5, StepKeeps

\* The line is there and its sync failed: the row stays.
LEMMA AppendFailsKeeps ==
    ASSUME Whole, Inv, NEW p \in Procs, AppendFails(p) PROVE Inv' /\ Moves
<1>1. todo[p] # {} /\ lease = p
  BY AppendsWith DEF AppendFails
<1>2. /\ current' = Append(current, Min(todo[p])) /\ ragged' = FALSE /\ Release(p)
      /\ UNCHANGED <<rotating, gz, archives, gone, outbox, last, journal>>
  BY DEF AppendFails, Whole, Inv, FileTypes, dbVars
<1>3. Moves /\ FileTypes' /\ journal' \in Nat /\ ArtifactsAreJournaled' /\ Covered'
  BY <1>1, <1>2, Appended
<1> QED BY <1>1, <1>2, <1>3, ReleaseTurns, StepKeeps

-----------------------------------------------------------------------------
(* The rotation *)

LEMMA RotateJournalKeeps ==
    ASSUME Whole, Inv, NEW p \in Procs, RotateJournal(p) PROVE Inv' /\ Moves
<1>1. at[p] = "rotate" /\ journal = NoJournal /\ Goto(p, "rename")
  BY DEF RotateJournal, JournalUnseen, Whole
<1>2. UNCHANGED <<current, ragged, rotating, gz, archives, gone, outbox, last, lease, job, todo>>
  BY DEF RotateJournal, fileVars
<1>3. journal' \in Nat /\ journal' # NoJournal /\ \A i \in DOMAIN archives : archives[i].name # journal'
  <2>1. PICK n \in 1..(Len(archives) + 1) : IsUniqueName(n) /\ journal' = n
    BY DEF RotateJournal
  <2>2. Len(archives) \in Nat
    BY DEF Inv, FileTypes
  <2>3. n \in Nat /\ n # NoJournal
    BY <2>1, <2>2 DEF NoJournal
  <2>4. \A i \in DOMAIN archives : archives[i].name # n
    BY <2>1 DEF IsUniqueName
  <2> QED BY <2>1, <2>3, <2>4
<1>4. rotating = Absent /\ ~gz /\ lease = p /\ (job[p] = "publish" => todo[p] # {})
  BY <1>1 DEF Inv, ArtifactsAreJournaled, Turn, Phase, Rotating
<1>5. ~FinalExists'
  BY <1>2, <1>3 DEF FinalExists
<1>6. Readable' = Readable
  BY <1>2 DEF Readable, FoundWith, Archived
<1>7. Moves
  BY <1>2, <1>6 DEF Moves, Settles
<1>8. FileTypes'
  BY <1>2 DEF Inv, FileTypes
<1>9. ArtifactsAreJournaled' /\ Covered'
  BY <1>3, <1>5 DEF ArtifactsAreJournaled, Covered
<1>10. /\ TurnTypes' /\ at'[p] = "rename" /\ todo'[p] = todo[p] /\ job'[p] = job[p]
       /\ \A q \in Procs \ {p} : at'[q] = at[q] /\ todo'[q] = todo[q]
  BY <1>1, <1>2, GoTurns DEF Places
<1>11. Turn(p)'
  BY <1>2, <1>3, <1>4, <1>5, <1>10 DEF Inv, Turn, Phase, Rotating, Pruning
<1> QED BY <1>2, <1>3, <1>4, <1>7, <1>8, <1>9, <1>10, <1>11, StepKeeps

\* A step of the rotation proper: the journal stands, the files change and nothing else.
LEMMA RotationKeeps ==
    ASSUME Inv, NEW p \in Procs, at[p] \in Rotating, NEW step \in Rotating, Goto(p, step),
           UNCHANGED <<outbox, last, journal, lease, job, todo, gone>>,
           FileTypes', Readable' = Readable, Covered',
           /\ step = "rename" => rotating' = Absent /\ ~FinalExists'
           /\ step \in {"gzip", "final"} => rotating' \in Lines
           /\ step \in {"gzip", "final", "remove", "clear"} => current' = <<>>
           /\ step = "remove" => ~gz' /\ Events(rotating') \subseteq Archived(archives')
           /\ step = "clear" => rotating' = Absent /\ ~gz'
    PROVE  Inv' /\ Moves
<1>1. journal # NoJournal /\ journal \in Nat /\ lease = p /\ (job[p] = "publish" => todo[p] # {})
  BY DEF Inv, DbTypes, Turn, Phase, Rotating
<1>2. Moves
  BY DEF Moves, Settles
<1>3. ArtifactsAreJournaled' /\ journal' \in Nat
  BY <1>1 DEF ArtifactsAreJournaled
<1>4. step \in Places
  BY DEF Rotating, Places
<1>5. /\ TurnTypes' /\ at'[p] = step /\ todo'[p] = todo[p] /\ job'[p] = job[p]
      /\ \A q \in Procs \ {p} : at'[q] = at[q] /\ todo'[q] = todo[q]
  BY <1>4, GoTurns
<1>6. Phase(p)'
  BY <1>1, <1>5 DEF Phase, Rotating, Pruning
<1>7. Turn(p)'
  BY <1>1, <1>5, <1>6 DEF Inv, Turn
<1> QED BY <1>1, <1>2, <1>3, <1>5, <1>7, StepKeeps

LEMMA RotateRenameKeeps ==
    ASSUME Inv, NEW p \in Procs, RotateRename(p) PROVE Inv' /\ Moves
<1>1. /\ at[p] = "rename" /\ rotating' = current /\ current' = <<>> /\ ragged' = FALSE /\ Goto(p, "gzip")
      /\ UNCHANGED <<gz, archives, gone, outbox, last, journal, lease, job, todo>>
  BY DEF RotateRename, dbVars
<1>2. rotating = Absent /\ ~FinalExists /\ current \in Lines
  BY <1>1 DEF Inv, Turn, Phase, FileTypes
<1>3. FileTypes'
  BY <1>1, <1>2 DEF Inv, FileTypes, Lines
<1>4. Events(rotating) = {} /\ Events(current') = {}
  BY <1>1, <1>2, AbsentIsEmpty DEF Events, Range
<1>5. Readable' = Readable
  BY <1>1, <1>4 DEF Readable, FoundWith, Archived
<1>6. Covered'
  BY <1>1, <1>2 DEF Covered, FinalExists
<1> QED BY <1>1, <1>2, <1>3, <1>5, <1>6, RotationKeeps DEF Rotating

LEMMA RotateGzipKeeps ==
    ASSUME Inv, NEW p \in Procs, RotateGzip(p) PROVE Inv' /\ Moves
<1>1. /\ at[p] = "gzip" /\ gz' = TRUE /\ Goto(p, "final")
      /\ UNCHANGED <<current, ragged, rotating, archives, gone, outbox, last, journal, lease, job, todo>>
  BY DEF RotateGzip, dbVars
<1>2. rotating \in Lines /\ current = <<>>
  BY <1>1 DEF Inv, Turn, Phase
<1>3. FileTypes'
  BY <1>1 DEF Inv, FileTypes
<1>4. Readable' = Readable /\ Covered'
  BY <1>1 DEF Readable, FoundWith, Archived, Inv, Covered, FinalExists
<1> QED BY <1>1, <1>2, <1>3, <1>4, RotationKeeps DEF Rotating

LEMMA RotateFinalKeeps ==
    ASSUME Inv, NEW p \in Procs, RotateFinal(p) PROVE Inv' /\ Moves
<1> DEFINE a == [name |-> journal, lines |-> rotating]
<1>1. /\ at[p] = "final" /\ archives' = Append(archives, a) /\ gz' = FALSE /\ Goto(p, "remove")
      /\ UNCHANGED <<current, ragged, rotating, gone, outbox, last, journal, lease, job, todo>>
  BY DEF RotateFinal, dbVars
<1>2. rotating \in Lines /\ current = <<>> /\ journal \in Nat
  BY <1>1 DEF Inv, Turn, Phase, DbTypes
<1>3. a \in Archive /\ a.lines = rotating
  BY <1>2 DEF Archive
<1> HIDE DEF a
<1>4. archives' \in Seq(Archive) /\ Archived(archives') = Archived(archives) \cup Events(rotating)
  BY <1>1, <1>3, ArchiveAdded DEF Inv, FileTypes
<1>5. FileTypes'
  BY <1>1, <1>4 DEF Inv, FileTypes
<1>6. Readable' = Readable /\ Covered'
  BY <1>1, <1>4 DEF Readable, FoundWith, Covered
<1> QED BY <1>1, <1>2, <1>4, <1>5, <1>6, RotationKeeps DEF Rotating

LEMMA RotateRemoveKeeps ==
    ASSUME Inv, NEW p \in Procs, RotateRemove(p) PROVE Inv' /\ Moves
<1>1. /\ at[p] = "remove" /\ rotating' = Absent /\ Goto(p, "clear")
      /\ UNCHANGED <<current, ragged, gz, archives, gone, outbox, last, journal, lease, job, todo>>
  BY DEF RotateRemove, dbVars
<1>2. ~gz /\ Events(rotating) \subseteq Archived(archives) /\ current = <<>>
  BY <1>1 DEF Inv, Turn, Phase
<1>3. FileTypes'
  BY <1>1 DEF Inv, FileTypes
<1>4. Events(rotating') = {}
  BY <1>1, AbsentIsEmpty
<1>5. Readable' = Readable /\ Covered'
  BY <1>1, <1>2, <1>4 DEF Readable, FoundWith, Archived, Covered
<1> QED BY <1>1, <1>2, <1>3, <1>5, RotationKeeps DEF Rotating

-----------------------------------------------------------------------------
(* Retention *)

LEMMA KeptIsRest ==
    ASSUME NEW aged \in 0..Len(archives), archives \in Seq(Archive)
    PROVE  Kept(aged) \in Seq(Archive) /\ Archived(Kept(aged)) \subseteq Archived(archives)
<1> DEFINE young == SubSeq(archives, aged + 1, Len(archives))
           fits(k) == Size(SubSeq(young, k, Len(young))) <= Budget
           Ks == {k \in 1..(Len(young) + 1) : k = Len(young) + 1 \/ fits(k)}
<1>1. Len(archives) \in Nat /\ aged + 1 \in 1..(Len(archives) + 1)
  OBVIOUS
<1>2. young \in Seq(Archive) /\ Archived(young) \subseteq Archived(archives)
  BY <1>1, ArchivesDropped
<1>3. Kept(aged) = SubSeq(young, Min(Ks), Len(young))
  BY DEF Kept
<1> HIDE DEF young, fits
<1>4. Len(young) \in Nat
  BY <1>2
<1>5. Ks \subseteq Nat /\ Len(young) + 1 \in Ks /\ Ks \subseteq 1..(Len(young) + 1)
  BY <1>4
<1> HIDE DEF Ks
<1>6. Min(Ks) \in 1..(Len(young) + 1)
  BY <1>5, LeastIsThere
<1>7. /\ SubSeq(young, Min(Ks), Len(young)) \in Seq(Archive)
      /\ Archived(SubSeq(young, Min(Ks), Len(young))) \subseteq Archived(young)
  BY <1>2, <1>6, ArchivesDropped
<1> QED BY <1>2, <1>3, <1>7

LEMMA RetainKeeps ==
    ASSUME Inv, NEW p \in Procs, Retain(p) PROVE Inv' /\ Moves
<1>1. /\ at[p] = "retain" /\ gz' = FALSE /\ gone' = gone \cup (Readable \ FoundWith(archives'))
      /\ UNCHANGED <<current, ragged, rotating, outbox, last, journal, lease, job, todo>>
  BY DEF Retain, dbVars
<1>2. archives' \in Seq(Archive) /\ Archived(archives') \subseteq Archived(archives)
  <2>1. PICK aged \in 0..Len(archives) : archives' = Kept(aged)
    BY DEF Retain
  <2> QED BY <2>1, KeptIsRest DEF Inv, FileTypes
<1>3. lease = p /\ journal = NoJournal /\ current = <<>> /\ journal \in Nat
  BY <1>1 DEF Inv, Turn, Phase, Pruning, DbTypes
<1>4. Readable' = FoundWith(archives') /\ Readable' \subseteq Readable
  BY <1>1, <1>2 DEF Readable, FoundWith
<1>5. Moves
  BY <1>1, <1>4 DEF Moves, Expires
<1>6. FileTypes' /\ journal' \in Nat
  BY <1>1, <1>2, <1>3 DEF Inv, FileTypes
<1>7. ArtifactsAreJournaled' /\ Covered'
  BY <1>1, <1>3 DEF Inv, ArtifactsAreJournaled, Covered
<1>8. PICK step \in {"timers", "retained"} : Goto(p, step)
  BY DEF Retain
<1>9. /\ TurnTypes' /\ at'[p] = step /\ todo'[p] = todo[p]
      /\ \A q \in Procs \ {p} : at'[q] = at[q] /\ todo'[q] = todo[q]
  BY <1>1, <1>8, GoTurns DEF Places
<1>10. Turn(p)'
  BY <1>1, <1>3, <1>9 DEF Inv, Turn, Phase, Rotating, Pruning
<1> QED BY <1>1, <1>3, <1>5, <1>6, <1>7, <1>9, <1>10, StepKeeps

-----------------------------------------------------------------------------
(* The invariant *)

LEMMA InvInit == Init => Inv
<1> SUFFICES ASSUME Init PROVE Inv
  OBVIOUS
<1>1. DbTypes /\ NothingLost
  BY DEF Init, DbTypes, NothingLost, NoJournal
<1>2. FileTypes /\ TurnTypes
  <2>1. <<>> \in Lines /\ <<>> \in Seq(Archive)
    BY DEF Lines
  <2>2. FileTypes
    BY <2>1 DEF Init, FileTypes
  <2>3. at \in [Procs -> Places] /\ todo \in [Procs -> SUBSET Nat]
    BY DEF Init, Places
  <2>4. job \in [Procs -> {"publish", "prune"}]
    BY DEF Init
  <2> QED BY <2>2, <2>3, <2>4 DEF TurnTypes
<1>3. Readable = {} /\ gone = {}
  BY AbsentIsEmpty DEF Init, Readable, FoundWith, Archived, Events, Range
<1>4. Bounded /\ ArtifactsAreJournaled /\ Covered
  BY <1>3 DEF Init, Bounded, ArtifactsAreJournaled, Covered
<1>5. ASSUME NEW p \in Procs PROVE Turn(p)
  BY DEF Init, Turn, Phase, Rotating, Pruning
<1> QED BY <1>1, <1>2, <1>4, <1>5 DEF Inv

LEMMA StepInv ==
    ASSUME Whole, Inv, NEW p \in Procs, Step(p) PROVE Inv' /\ Moves
<1>1. ASSUME DrainDone(p) PROVE Inv' /\ Moves
  BY <1>1, EndsKeep DEF DrainDone, dbVars
<1>2. ASSUME Stamp(p) PROVE Inv' /\ Moves
  BY <1>2, EndsKeep DEF Stamp
<1>3. ASSUME RotateRecovers(p) PROVE FALSE
  BY <1>3 DEF RotateRecovers, Inv, Turn, Phase
<1> QED BY <1>1, <1>2, <1>3, RecoverNothingKeeps, RecoverRowsKeeps, RecoverArchiveKeeps, RecoverRemoveKeeps,
        RecoverClearKeeps, ReconcileKeeps, DrainRotatesKeeps, AppendLineKeeps, MarkKeeps, RotateEmptyKeeps,
        RotateJournalKeeps, RotateRenameKeeps, RotateGzipKeeps, RotateFinalKeeps, RotateRemoveKeeps,
        RotateClearKeeps, RotationNoteKeeps, RetainKeeps, PruneNotesKeep, PruneStepsKeep DEF Step

LEMMA InvNext ==
    ASSUME Whole, Inv, [Next]_vars PROVE Inv' /\ Moves
<1>1. ASSUME UNCHANGED vars PROVE Inv' /\ Moves
  BY <1>1, ReadersKeep DEF vars, boundVars
<1>2. ASSUME ReadArchives \/ ReadRotating \/ ReadCurrent \/ QueryDone PROVE Inv' /\ Moves
  <2>1. UNCHANGED <<fileVars, dbVars, lease, at, job, todo>>
    BY <1>2 DEF ReadArchives, ReadRotating, ReadCurrent, QueryDone
  <2> QED BY <2>1, ReadersKeep
<1>3. ASSUME NEW p \in Procs, StepFails(p) \/ Crash(p) PROVE Inv' /\ Moves
  BY <1>3, EndsKeep DEF StepFails, Crash, dbVars
<1>4. ASSUME NEW p \in Procs, NotLeader(p) PROVE Inv' /\ Moves
  BY <1>1, <1>4 DEF NotLeader
<1>5. ASSUME NEW p \in Procs, Elect(p, "publish") \/ Elect(p, "prune") PROVE Inv' /\ Moves
  BY <1>5, ElectKeeps
<1> QED BY <1>1, <1>2, <1>3, <1>4, <1>5, EnqueueKeeps, StepInv, AppendFailsKeeps DEF Next

LEMMA InvAlways == ASSUME Whole PROVE Spec => []Inv
<1>1. Inv /\ [Next]_vars => Inv'
  BY InvNext
<1> QED BY <1>1, InvInit, PTL DEF Spec

-----------------------------------------------------------------------------
(* Theorems *)

\* Whatever crash, failed append, failed file operation or failed store call ends a cycle of the
\* publisher or the pruner, a committed event waits, is readable, or was taken by retention
\* (EventPublisher, events/publisher.rs).
THEOREM NothingIsLost == ASSUME Whole PROVE Spec => []NothingLost
<1>1. Inv => NothingLost
  BY DEF Inv
<1> QED BY <1>1, InvAlways, PTL

\* A rotating file or a temporary archive is never there without the journal row that recovers it
\* (rotate_journaled, recover_rotation).
THEOREM LeftoversAreJournaled == ASSUME Whole PROVE Spec => []ArtifactsAreJournaled
<1>1. Inv => ArtifactsAreJournaled
  BY DEF Inv
<1> QED BY <1>1, InvAlways, PTL

\* The prune stamps its time only after a rotation that left nothing behind (run_prune).
THEOREM StampsAreEarned == ASSUME Whole PROVE Spec => StampedAfterRotation
<1>1. ASSUME Inv, [Next]_vars, stamped' # stamped PROVE current = <<>> /\ journal = NoJournal
  <2>1. PICK p \in Procs : Stamp(p)
    <3>1. ASSUME UNCHANGED stamped PROVE FALSE
      BY <1>1, <3>1
    <3> QED BY <1>1, <3>1 DEF Next, vars, dbVars, Step, Enqueue, ReadArchives, ReadRotating, ReadCurrent, QueryDone,
             RecoverNothing, RecoverRows, RecoverArchive, RecoverRemove, RecoverClear, Reconcile, DrainDone,
             DrainRotates, AppendLine, Mark, RotateEmpty, RotateRecovers, RotateJournal, RotateRename,
             RotateGzip, RotateFinal, RotateRemove, RotateClear, RotationNote, Retain, RetentionNote,
             PruneTimer, Tombstone, PruneSwept, AppendFails, StepFails, Crash, Elect, NotLeader
  <2>2. at[p] = "stamp"
    BY <2>1 DEF Stamp
  <2> QED BY <1>1, <2>2 DEF Inv, Turn, Phase, Pruning
<1>2. Inv /\ [Next]_vars => [stamped' # stamped => current = <<>> /\ journal = NoJournal]_vars
  BY <1>1
<1> QED BY <1>2, InvAlways, PTL DEF Spec, StampedAfterRotation

\* The outbox, the files and the journal implement the at-least-once log: an event leaves the outbox
\* only once it can be read, and what can be read stays so until retention takes it.
THEOREM OutboxImplementsLog == ASSUME Whole PROVE Spec => ImplementsLog
<1>1. Init => Log!Init
  <2>1. Init => Readable = {}
    BY AbsentIsEmpty DEF Init, Readable, FoundWith, Archived, Events, Range
  <2> QED BY <2>1 DEF Init, Log!Init
<1>2. Inv /\ [Next]_vars => [Log!Next]_(Log!logVars)
  <2>1. Moves => Log!Next
    BY DEF Moves, Commits, Publishes, Settles, Expires, Log!Next, Log!Commit, Log!Publish, Log!Settle, Log!Expire
  <2> QED BY <2>1, InvNext
<1> QED BY <1>1, <1>2, InvAlways, PTL DEF Spec, ImplementsLog, Log!Spec

-----------------------------------------------------------------------------
(* A query of the log.  Nothing here needs Whole.                            *)

\* Whoever is in a cycle holds the lease, whatever fails.
Leased == at = [p \in Procs |-> at[p]] /\ \A p \in Procs : at[p] # "idle" => lease = p

\* What a query has not found yet is in the files it has still to read, as long
\* as nobody was elected since it began.
StillToFind ==
    reader.quiet =>
        /\ reader.at # "idle" => lease = None
        /\ reader.at = "rotating" => reader.missing \subseteq Events(rotating) \cup Events(current)
        /\ reader.at = "current" => reader.missing \subseteq Events(current)
        /\ reader.at = "done" => reader.missing = {}

IsQuery ==
    /\ reader = [at |-> reader.at, missing |-> reader.missing, quiet |-> reader.quiet]
    /\ reader.at \in {"idle", "rotating", "current", "done"} /\ reader.quiet \in BOOLEAN

QueryInv == IsQuery /\ Leased /\ StillToFind

\* A cycle belongs to the holder of the lease: it goes on, or ends and gives it back.
LEMMA CycleKeepsQueries ==
    ASSUME QueryInv, NEW p \in Procs, at[p] # "idle", UNCHANGED reader,
           \/ UNCHANGED lease /\ \E step : Goto(p, step)
           \/ Release(p)
    PROVE  QueryInv'
<1>1. lease = p /\ lease # None
  BY ProcsAssumption DEF QueryInv, Leased
<1>2. Leased'
  <2>1. PICK step : at' = [at EXCEPT ![p] = step] /\ (lease' = lease \/ (lease' = None /\ step = "idle"))
    BY DEF Goto, Release
  <2> QED BY <1>1, <2>1 DEF QueryInv, Leased
<1>3. reader.quiet => reader.at = "idle"
  BY <1>1 DEF QueryInv, StillToFind
<1> QED BY <1>2, <1>3 DEF QueryInv, IsQuery, StillToFind

LEMMA StepIsOfACycle ==
    ASSUME QueryInv, NEW p \in Procs, Step(p) \/ AppendFails(p) \/ StepFails(p) \/ Crash(p)
    PROVE  /\ at[p] # "idle" /\ UNCHANGED reader
           /\ \/ UNCHANGED lease /\ \E step : Goto(p, step)
              \/ Release(p)
<1>1. at[p] # "idle" /\ UNCHANGED reader
  BY DEF Step, RecoverNothing, RecoverRows, RecoverArchive, RecoverRemove, RecoverClear, Reconcile, DrainDone,
         DrainRotates, AppendLine, Appends, Mark, RotateEmpty, RotateRecovers, RotateJournal, RotateRename,
         RotateGzip, RotateFinal, RotateRemove, RotateClear, RotationNote, Retain, RetentionNote,
         PruneTimer, Tombstone, PruneSwept, Stamp, AppendFails, StepFails, Crash
<1>2. ASSUME DrainDone(p) \/ Stamp(p) \/ AppendFails(p) \/ StepFails(p) \/ Crash(p) PROVE Release(p)
  BY <1>2 DEF DrainDone, Stamp, AppendFails, StepFails, Crash
<1>3. ASSUME RecoverArchive(p) PROVE UNCHANGED lease /\ Goto(p, at[p])
  <2>1. at = [at EXCEPT ![p] = at[p]]
    BY DEF QueryInv, Leased
  <2> QED BY <1>3, <2>1 DEF RecoverArchive, Goto
<1>4. ASSUME RecoverNothing(p) \/ RecoverRows(p) \/ RecoverRemove(p) \/ RecoverClear(p) \/ Reconcile(p) \/ DrainRotates(p)
      PROVE  UNCHANGED lease /\ \E step : Goto(p, step)
  BY <1>4 DEF RecoverNothing, RecoverRows, RecoverRemove, RecoverClear, Reconcile, DrainRotates, Recovered
<1>5. ASSUME AppendLine(p) \/ Mark(p) \/ RotateEmpty(p) \/ RotateRecovers(p) \/ RotateJournal(p) \/ RotateRename(p)
      PROVE  UNCHANGED lease /\ \E step : Goto(p, step)
  BY <1>5 DEF AppendLine, Mark, RotateEmpty, RotateRecovers, RotateJournal, RotateRename
<1>6. ASSUME RotateGzip(p) \/ RotateFinal(p) \/ RotateRemove(p) \/ RotateClear(p) \/ RotationNote(p) \/ Retain(p)
      PROVE  UNCHANGED lease /\ \E step : Goto(p, step)
  BY <1>6 DEF RotateGzip, RotateFinal, RotateRemove, RotateClear, RotationNote, Retain
<1>7. ASSUME RetentionNote(p) \/ PruneTimer(p) \/ Tombstone(p) \/ PruneSwept(p)
      PROVE  UNCHANGED lease /\ \E step : Goto(p, step)
  BY <1>7 DEF RetentionNote, PruneTimer, Tombstone, PruneSwept
<1> QED BY <1>1, <1>2, <1>3, <1>4, <1>5, <1>6, <1>7 DEF Step

\* What is in the log is in the archives, the file being rotated or the current file.
LEMMA ReadersKeepQueries ==
    ASSUME QueryInv, ReadArchives \/ ReadRotating \/ ReadCurrent \/ QueryDone PROVE QueryInv'
<1>1. UNCHANGED <<rotating, current, lease, at>>
  BY DEF ReadArchives, ReadRotating, ReadCurrent, QueryDone, fileVars
<1>2. Leased'
  BY <1>1 DEF QueryInv, Leased
<1>3. ASSUME ReadArchives PROVE IsQuery' /\ StillToFind'
  <2>1. reader' = [at |-> "rotating", quiet |-> lease = None, missing |-> Readable \ Archived(archives)]
    BY <1>3 DEF ReadArchives
  <2>2. Readable \ Archived(archives) \subseteq Events(rotating) \cup Events(current)
    BY DEF Readable, FoundWith
  <2>3. Events(rotating)' = Events(rotating) /\ Events(current)' = Events(current)
    BY <1>1 DEF Events
  <2> QED BY <1>1, <2>1, <2>2, <2>3 DEF IsQuery, StillToFind
<1>4. ASSUME ReadRotating PROVE IsQuery' /\ StillToFind'
  <2>1. /\ reader.at = "rotating" /\ reader'.at = "current" /\ reader'.quiet = reader.quiet
        /\ reader'.missing = reader.missing \ Events(rotating)
        /\ reader' = [at |-> reader'.at, missing |-> reader'.missing, quiet |-> reader'.quiet]
    BY <1>4 DEF ReadRotating, QueryInv, IsQuery
  <2>2. Events(current)' = Events(current)
    BY <1>1 DEF Events
  <2> QED BY <1>1, <2>1, <2>2 DEF QueryInv, IsQuery, StillToFind
<1>5. ASSUME ReadCurrent PROVE IsQuery' /\ StillToFind'
  <2>1. /\ reader.at = "current" /\ reader'.at = "done" /\ reader'.quiet = reader.quiet
        /\ reader'.missing = reader.missing \ Events(current)
        /\ reader' = [at |-> reader'.at, missing |-> reader'.missing, quiet |-> reader'.quiet]
    BY <1>5 DEF ReadCurrent, QueryInv, IsQuery
  <2> QED BY <1>1, <2>1 DEF QueryInv, IsQuery, StillToFind
<1>6. ASSUME QueryDone PROVE IsQuery' /\ StillToFind'
  BY <1>6 DEF QueryDone, NoQuery, IsQuery, StillToFind
<1> QED BY <1>2, <1>3, <1>4, <1>5, <1>6 DEF QueryInv

LEMMA QueryNext == ASSUME QueryInv, [Next]_vars PROVE QueryInv'
<1>1. ASSUME UNCHANGED <<current, rotating, lease, at, reader>> PROVE QueryInv'
  BY <1>1 DEF QueryInv, IsQuery, Leased, StillToFind, Events
<1>2. ASSUME Enqueue \/ UNCHANGED vars \/ \E p \in Procs : NotLeader(p) PROVE QueryInv'
  BY <1>1, <1>2 DEF Enqueue, NotLeader, vars, fileVars
<1>3. ASSUME NEW p \in Procs, Step(p) \/ AppendFails(p) \/ StepFails(p) \/ Crash(p) PROVE QueryInv'
  BY <1>3, StepIsOfACycle, CycleKeepsQueries
<1>4. ASSUME NEW p \in Procs, Elect(p, "publish") \/ Elect(p, "prune") PROVE QueryInv'
  <2>1. lease = None /\ lease' = p /\ Goto(p, "recover") /\ reader' = [reader EXCEPT !.quiet = FALSE]
    BY <1>4 DEF Elect
  <2>2. reader'.at = reader.at /\ reader'.quiet = FALSE
        /\ reader' = [at |-> reader'.at, missing |-> reader'.missing, quiet |-> reader'.quiet]
    BY <2>1 DEF QueryInv, IsQuery
  <2>3. Leased'
    BY <2>1, ProcsAssumption DEF QueryInv, Leased, Goto
  <2> QED BY <2>2, <2>3 DEF QueryInv, IsQuery, StillToFind
<1> QED BY <1>2, <1>3, <1>4, ReadersKeepQueries DEF Next

\* A query that met no publisher at work, from its first file to its last, returns every event of
\* the log, whatever crash or failed call left half a rotation behind (read_log_tail,
\* service/log_query.rs).
THEOREM QuietQueriesAreWhole == Spec => []QuietHistoryIsWhole
<1>1. Init => QueryInv
  BY DEF Init, NoQuery, QueryInv, IsQuery, Leased, StillToFind
<1>2. QueryInv /\ [Next]_vars => QueryInv'
  BY QueryNext
<1>3. QueryInv => QuietHistoryIsWhole
  BY DEF QueryInv, StillToFind, QuietHistoryIsWhole
<1> QED BY <1>1, <1>2, <1>3, PTL DEF Spec
=============================================================================
