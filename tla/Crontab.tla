------------------------------ MODULE Crontab -------------------------------
(***************************************************************************)
(* The only foreign file Bellman writes: the crontab of its user            *)
(* (visible/cron/).  A command re-scans for the task it was given, reads    *)
(* the crontab a second time, rewrites one line of it, saves a backup named *)
(* by the second and installs the new text with `crontab -`.  Between any   *)
(* two of these steps the user or another command may install a text too.   *)
(* A line is a record: what it says, how it is spaced and how many markers  *)
(* of a disabled job stand before it.  The command of a job stands for the  *)
(* command with its input after `%`, the pair the parser splits and every   *)
(* rewrite joins again.                                                     *)
(***************************************************************************)
EXTENDS Integers, Sequences, FiniteSets, SequencesExt

CONSTANTS
    Commands,    \* what a job runs
    Schedules,   \* when
    Spacings,    \* how the user spaces a line: "single", "wide", "trailing"
    Texts,       \* the crontabs a run begins with
    Clis,        \* processes of the command line
    MaxBackups,  \* MAX_BACKUPS
    MaxLines,    \* bound: lines of a text that still grows
    MaxSeconds,  \* bound: the clock
    MaxCommands, \* bound: commands
    MaxEdits,    \* bound: edits by the user
    ReadFails    \* whether `crontab -l` may fail

ASSUME CronBoundsAssumption ==
    {MaxBackups, MaxLines, MaxSeconds, MaxCommands, MaxEdits} \subseteq Nat /\ MaxBackups > 0
ASSUME ReadFailsAssumption == ReadFails \in BOOLEAN

None == "none"
Line(k, c, s, space, m) == [kind |-> k, command |-> c, schedule |-> s, spacing |-> space, marks |-> m]
Job(c, s) == Line("job", c, s, "single", 0)
Plain(k) == Line(k, None, None, "single", 0)
Kinds == {"job", "note", "begin", "end", "id"}
Lines == [kind : Kinds, command : Commands \cup {None}, schedule : Schedules \cup {None},
          spacing : Spacings \cup {"single"}, marks : Nat]
ASSUME TextsAssumption == Texts \subseteq Seq(Lines)

VARIABLES
    crontab,    \* the installed text
    backups,    \* the backup directory: what each second's file holds
    now,        \* the second
    stage,      \* per process: "idle", "scanned", "read", "saved"
    op, task,   \* per process: the operation, the task the re-scan found
    before, after,  \* per process: the text it read, the text it will install
    calm,       \* per process, history: nobody has installed a text since its scan
    commands, edits

cronVars == <<crontab, backups, now, stage, op, task, before, after, calm, commands, edits>>

Changes == [kind : {"disable", "enable"}] \cup [kind : {"edit"}, schedule : Schedules]
CronOperations == Changes \cup [kind : {"new"}, line : Lines]
NoOp == [kind |-> "disable"]
NoTask == [no |-> 0, raw |-> Plain("note")]

CronTypeOK ==
    /\ crontab \in Seq(Lines) /\ now \in 0..MaxSeconds
    /\ DOMAIN backups \subseteq 0..MaxSeconds /\ \A s \in DOMAIN backups : backups[s] \in Seq(Lines)
    /\ stage \in [Clis -> {"idle", "scanned", "read", "saved"}]
    /\ \A p \in Clis : /\ op[p] \in CronOperations /\ task[p].no \in Nat /\ task[p].raw \in Lines
                       /\ before[p] \in Seq(Lines) /\ after[p] \in Seq(Lines)
    /\ calm \in [Clis -> BOOLEAN] /\ commands \in 0..MaxCommands /\ edits \in 0..MaxEdits

(* ---- parsing ---- *)

\* One marker is read off a line; what stands behind a second one is a comment.
IsTask(line) == line.kind = "job" /\ line.marks < 2
Enabled(line) == line.marks = 0
Tasks(text) == {[no |-> i, raw |-> text[i]] : i \in {j \in DOMAIN text : IsTask(text[j])}}

\* Mutant: the line is put together again from its parsed fields.
OriginalFromFields(line) == [line EXCEPT !.marks = 0, !.spacing = "single"]

\* The parser trims a line before it looks behind the marker.
DisabledOriginal(line) ==
    [line EXCEPT !.marks = 0, !.spacing = IF @ = "trailing" THEN "single" ELSE @]

FirstSuch(text, Test(_)) ==
    LET hits == {i \in DOMAIN text : Test(text[i])}
    IN  IF hits = {} THEN 0 ELSE CHOOSE i \in hits : \A j \in hits : i <= j

(* ---- rewriting ---- *)

\* The exact line, else whatever stands at its number, else a job that says the same.
FindJobLine(text, t) ==
    LET exact == FirstSuch(text, LAMBDA line : line = t.raw)
        same == FirstSuch(text, LAMBDA line :
                    /\ IsTask(line) /\ Enabled(line) = Enabled(t.raw)
                    /\ line.command = t.raw.command /\ line.schedule = t.raw.schedule)
    IN  IF exact # 0 THEN exact
        ELSE IF t.no <= Len(text) THEN t.no
        ELSE same

Disabled(line) == [line EXCEPT !.marks = @ + 1]
Edited(line, t, schedule) ==
    [Job(t.raw.command, schedule) EXCEPT !.marks = IF line.marks = 0 THEN 0 ELSE 1]

\* transform_disable, transform_enable, transform_edit on the line they have found.
Transformed(line, t, o) ==
    CASE o.kind = "disable" -> Disabled(line)
      [] o.kind = "enable" -> DisabledOriginal(t.raw)
      [] o.kind = "edit" -> Edited(line, t, o.schedule)

Fence(text, kind) == FirstSuch(text, LAMBDA line : line.kind = kind /\ line.marks = 0)

\* Mutant: the text after the fence is taken from one line too late.
InsertOverEnd(text, line) ==
    LET begin == Fence(text, "begin")
        end == Fence(text, "end")
    IN  IF begin # 0 /\ end > begin
        THEN SubSeq(text, 1, end - 1) \o <<Plain("id"), line>> \o SubSeq(text, end + 1, Len(text))
        ELSE text \o <<Plain("begin"), Plain("id"), line, Plain("end")>>

InsertIntoFence(text, line) ==
    LET begin == Fence(text, "begin")
        end == Fence(text, "end")
    IN  IF begin # 0 /\ end > begin
        THEN SubSeq(text, 1, end - 1) \o <<Plain("id"), line>> \o SubSeq(text, end, Len(text))
        ELSE text \o <<Plain("begin"), Plain("id"), line, Plain("end")>>

Rewrite(text, t, o) ==
    IF o.kind = "new" THEN InsertIntoFence(text, o.line)
    ELSE LET i == FindJobLine(text, t) IN [text EXCEPT ![i] = Transformed(@, t, o)]

(* ---- a command ---- *)

Become(p, state) == stage' = [stage EXCEPT ![p] = state]
Hold(p, o, t, text, rewritten) ==
    /\ op' = [op EXCEPT ![p] = o] /\ task' = [task EXCEPT ![p] = t]
    /\ before' = [before EXCEPT ![p] = text] /\ after' = [after EXCEPT ![p] = rewritten]
Return(p) == Become(p, "idle") /\ Hold(p, NoOp, NoTask, <<>>, <<>>)

\* require_task: the id names a line number and a text, so it is found only where both still agree.
RequireTask(p) ==
    /\ stage[p] = "idle" /\ commands < MaxCommands
    /\ \E t \in Tasks(crontab), o \in Changes :
          /\ o.kind = "disable" => Enabled(t.raw)
          /\ o.kind = "enable" => ~Enabled(t.raw)
          /\ Hold(p, o, t, <<>>, <<>>)
    /\ Become(p, "scanned")
    /\ calm' = [calm EXCEPT ![p] = TRUE] /\ commands' = commands + 1
    /\ UNCHANGED <<crontab, backups, now, edits>>

\* finish_write_raw up to the backup: a text that would not change is not written.
Plan(p, o, t, text) ==
    LET rewritten == Rewrite(text, t, o)
    IN  IF rewritten = text THEN Return(p) ELSE Become(p, "read") /\ Hold(p, o, t, text, rewritten)

ReadCrontab(p) ==
    /\ stage[p] = "scanned"
    /\ FindJobLine(crontab, task[p]) # 0
    /\ Plan(p, op[p], task[p], crontab)
    /\ UNCHANGED <<crontab, backups, now, calm, commands, edits>>

\* The crontab cannot be read, or the task is neither at its number nor anywhere else.
GiveUp(p) ==
    /\ stage[p] = "scanned"
    /\ ReadFails \/ FindJobLine(crontab, task[p]) = 0
    /\ Return(p)
    /\ UNCHANGED <<crontab, backups, now, calm, commands, edits>>

\* task new re-scans nothing; it takes a crontab it cannot read for an empty one.
NewCronTask(p) ==
    /\ stage[p] = "idle" /\ commands < MaxCommands /\ Len(crontab) < MaxLines
    /\ \E c \in Commands, s \in Schedules, text \in {crontab} \cup (IF ReadFails THEN {<<>>} ELSE {}) :
          Plan(p, [kind |-> "new", line |-> Job(c, s)], NoTask, text)
    /\ calm' = [calm EXCEPT ![p] = TRUE] /\ commands' = commands + 1
    /\ UNCHANGED <<crontab, backups, now, edits>>

\* Mutant: the files that sort first are kept.
PrunedFromTheEnd(files) ==
    LET kept == {s \in DOMAIN files : Cardinality({r \in DOMAIN files : r < s}) < MaxBackups}
    IN  [s \in kept |-> files[s]]

\* prune_backups keeps the names that sort last.
Pruned(files) ==
    LET kept == {s \in DOMAIN files : Cardinality({r \in DOMAIN files : r > s}) < MaxBackups}
    IN  [s \in kept |-> files[s]]
Saved(files, text) == Pruned([s \in DOMAIN files \cup {now} |-> IF s = now THEN text ELSE files[s]])

BackupCrontab(p) ==
    /\ stage[p] = "read"
    /\ backups' = Saved(backups, before[p])
    /\ Become(p, "saved")
    /\ UNCHANGED <<crontab, now, op, task, before, after, calm, commands, edits>>

\* Whoever installs a text disturbs the commands under way.
Installed(text, others) ==
    /\ crontab' = text
    /\ calm' = [p \in Clis |-> calm[p] /\ p \notin others]

InstallUserCrontab(p) ==
    /\ stage[p] = "saved"
    /\ Installed(after[p], Clis \ {p}) /\ Return(p)
    /\ UNCHANGED <<backups, now, commands, edits>>

\* crontab(1) refuses the text, or the process is killed.
Abandon(p) ==
    /\ stage[p] \in {"read", "saved"}
    /\ Return(p)
    /\ UNCHANGED <<crontab, backups, now, calm, commands, edits>>

(* ---- the user and the clock ---- *)

\* `crontab -e`: a line goes, a line comes, or one is spaced otherwise.
UserTexts(text) ==
    {RemoveAt(text, i) : i \in DOMAIN text}
    \cup {InsertAt(text, i, Plain("note")) : i \in 1..Len(text) + 1}
    \cup {[text EXCEPT ![i].spacing = s] : i \in DOMAIN text, s \in Spacings}

UserEdit ==
    /\ edits < MaxEdits /\ edits' = edits + 1
    /\ \E text \in UserTexts(crontab) :
          text # crontab /\ Len(text) <= MaxLines /\ Installed(text, Clis)
    /\ UNCHANGED <<backups, now, stage, op, task, before, after, commands>>

Tick ==
    /\ now < MaxSeconds /\ now' = now + 1
    /\ UNCHANGED <<crontab, backups, stage, op, task, before, after, calm, commands, edits>>

CronInit ==
    /\ crontab \in Texts /\ backups = <<>> /\ now = 0
    /\ stage = [p \in Clis |-> "idle"]
    /\ op = [p \in Clis |-> NoOp] /\ task = [p \in Clis |-> NoTask]
    /\ before = [p \in Clis |-> <<>>] /\ after = [p \in Clis |-> <<>>]
    /\ calm = [p \in Clis |-> FALSE] /\ commands = 0 /\ edits = 0

CronNext ==
    \/ \E p \in Clis : \/ RequireTask(p) \/ ReadCrontab(p) \/ GiveUp(p) \/ NewCronTask(p)
                       \/ BackupCrontab(p) \/ InstallUserCrontab(p) \/ Abandon(p)
    \/ UserEdit \/ Tick

CronSpec == CronInit /\ [][CronNext]_cronVars

(* ---- properties ---- *)

\* Whose text this step installs, when nobody has touched the crontab since that command looked.
Undisturbed(p) == stage[p] = "saved" /\ calm[p] /\ stage'[p] = "idle" /\ crontab' # crontab

\* Outside the one line a command is about, every line of the crontab stays as it is and where it is:
\* a change of a task rewrites a line that read as the task did, a new task only adds lines
\* (transform_*, insert_into_fence; "outside the bellman-managed fence, preserve lines byte-for-byte").
RewritesOneLine(p) == \E i \in DOMAIN crontab :
    /\ crontab[i] = task[p].raw
    /\ crontab' = [crontab EXCEPT ![i] = crontab'[i]]
    /\ crontab'[i].command = task[p].raw.command
AddsLines == \E i \in 0..Len(crontab) :
    /\ SubSeq(crontab', 1, i) = SubSeq(crontab, 1, i)
    /\ IsSuffix(SubSeq(crontab, i + 1, Len(crontab)), crontab')
    /\ Len(crontab') > Len(crontab)
SparesTheOthers == [][\A p \in Clis : Undisturbed(p) =>
                        IF op[p].kind = "new" THEN AddsLines ELSE RewritesOneLine(p)]_cronVars

\* Whatever is disabled and enabled, in any order and number, every line keeps what it says and how
\* it is spaced: taking the markers away gives the text the user wrote (transform_disable,
\* transform_enable; "disable comments out and stores the exact original; enable restores it").
Bare(text) == [i \in DOMAIN text |-> [text[i] EXCEPT !.marks = 0]]
RestoreIsExact == [][\A p \in Clis : (Undisturbed(p) /\ op[p].kind \in {"disable", "enable"}) =>
                        Bare(crontab') = Bare(crontab)]_cronVars

\* With one command line at a time, a text is replaced only once a backup file holds the text the new
\* one was made from, whatever the prune of older backups has removed (finish_write_raw,
\* backup_crontab, prune_backups).  With two it does not hold (README, section 4).
BackedUp == \A p \in Clis : stage[p] = "saved" => \E s \in DOMAIN backups : backups[s] = before[p]

\* What Bellman disabled it can find again: no job stands behind two markers (find_job_line_index;
\* "it may have changed; re-scan").  It does not hold (README, section 4).
DisabledIsTask == \A i \in DOMAIN crontab : crontab[i].kind = "job" => IsTask(crontab[i])
=============================================================================
