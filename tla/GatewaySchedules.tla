-------------------------- MODULE GatewaySchedules ---------------------------
(***************************************************************************)
(* The schedules of the gateway: a file of schedules, a thread that runs   *)
(* those that are due, and the sessions that list, edit and run them.      *)
(* GATEWAY_SCHEDULE_LOCK covers each operation, and a run of the due ones  *)
(* from the read of the file to its write.  A cron expression is the set   *)
(* of minutes it matches.                                                  *)
(***************************************************************************)
EXTENDS Integers, FiniteSets

CONSTANTS
    Editor,       \* threads of relay sessions and of the control API
    Schedules,    \* 1 .. Schedules are the ids, in the order of the file
    Crons,        \* cron expressions that are used
    Year,         \* how far validate_gateway_cron_expr() looks
    MaxTime,      \* bound: minutes
    MaxEdits,     \* bound: operations of editors
    MaxRestarts   \* bound: the gateway is killed and started

Loop == "loop"
NoOne == "nobody"

ASSUME SchedulesAssumption ==
    /\ {Schedules, Year, MaxTime, MaxEdits, MaxRestarts} \subseteq Nat
    /\ \A cron \in Crons : cron \subseteq Nat
    /\ Loop \notin Editor /\ NoOne \notin Editor

VARIABLES
    now,          \* the minute
    file,         \* schedules.json
    locked,       \* who holds GATEWAY_SCHEDULE_LOCK
    copy,         \* what its holder read, and changes
    turn,         \* the schedule that run_due_once() looks at
    started,      \* the minute in which it began
    missing,      \* whether the terminals of schedules do not exist
    edits, restarts,
    ran,          \* history: the minutes for which a schedule was run
    twice,        \* history: a schedule was run again for the same minute
    deleted,      \* history: schedules that were deleted
    lapsed        \* history: a schedule was left without a next minute

scheduleFacts == <<now, file, locked, copy, turn, started, missing, edits, restarts>>
scheduleVars == <<scheduleFacts, ran, twice, deleted, lapsed>>

Id == 1 .. Schedules
Never == MaxTime + Year + 1      \* next_run_at is None
Minute == 0 .. Never
NoSchedule == [cron |-> {}, on |-> FALSE, next |-> Never]

SchedulesTypeOK ==
    /\ now \in 0 .. MaxTime
    /\ {file, copy} \subseteq [Id -> [cron : Crons \cup {{}}, on : BOOLEAN, next : Minute]]
    /\ locked \in Editor \cup {Loop, NoOne}
    /\ turn \in 1 .. Schedules + 1 /\ started \in 0 .. MaxTime /\ missing \in BOOLEAN
    /\ edits \in 0 .. MaxEdits /\ restarts \in 0 .. MaxRestarts
    /\ ran \in [Id -> SUBSET Minute] /\ twice \in BOOLEAN /\ deleted \subseteq Id /\ lapsed \in BOOLEAN

SchedulesInit ==
    /\ now = 0 /\ started = 0 /\ turn = 1 /\ missing \in BOOLEAN
    /\ file = [i \in Id |-> NoSchedule] /\ copy = file
    /\ locked = NoOne
    /\ edits = 0 /\ restarts = 0
    /\ ran = [i \in Id |-> {}] /\ twice = FALSE /\ deleted = {} /\ lapsed = FALSE

\* validate_gateway_cron_expr(): some minute of the next year matches.
Valid(cron) == \E m \in cron : now <= m /\ m < now + Year

\* Mutant: the search begins with the minute itself.
NotBefore(after, m) == after <= m

Later(after, m) == after < m

\* next_gateway_schedule_run(): the first match after a minute; none, when the
\* only match within the year is that minute itself.  It raises when not Valid.
NextRun(cron, after) ==
    LET later == {m \in cron : Later(after, m) /\ m <= after + Year} IN
    IF later = {} THEN Never ELSE CHOOSE m \in later : \A n \in later : m <= n

LockFree == locked = NoOne

\* Mutant: schedules that were read once are kept.
Remembered == IF \E i \in Id : copy[i] # NoSchedule THEN copy ELSE file

\* read_gateway_schedules_state().
FromFile == file

Tick ==
    /\ now < MaxTime /\ now' = now + 1
    /\ UNCHANGED <<file, locked, copy, turn, started, missing, edits, restarts, ran, twice, deleted, lapsed>>

-----------------------------------------------------------------------------
(* gateway_schedule_create, _update, _delete, _run_now.                    *)

TakeLock(e) ==
    /\ edits < MaxEdits /\ LockFree
    /\ locked' = e /\ copy' = FromFile /\ edits' = edits + 1
    /\ UNCHANGED <<now, file, turn, started, missing, restarts, ran, twice, deleted, lapsed>>

\* The file is written, and the lock released.
WriteFile(schedules) == file' = schedules /\ locked' = NoOne

\* A payload that is refused leaves the file alone.
Refuse(e) ==
    /\ locked = e /\ locked' = NoOne
    /\ UNCHANGED <<now, file, copy, turn, started, missing, edits, restarts, ran, twice, deleted, lapsed>>

\* Create or update: the next run counts from now.
Put(e, i, cron, on) ==
    /\ locked = e /\ Valid(cron) /\ i \notin deleted
    /\ \A j \in 1 .. i - 1 : copy[j] # NoSchedule \/ j \in deleted
    /\ WriteFile([copy EXCEPT ![i] = [cron |-> cron, on |-> on, next |-> NextRun(cron, now)]])
    /\ lapsed' = (lapsed \/ NextRun(cron, now) = Never)
    /\ UNCHANGED <<now, copy, turn, started, missing, edits, restarts, ran, twice, deleted>>

Delete(e, i) ==
    /\ locked = e /\ copy[i] # NoSchedule
    /\ WriteFile([copy EXCEPT ![i] = NoSchedule])
    /\ deleted' = deleted \cup {i}
    /\ UNCHANGED <<now, copy, turn, started, missing, edits, restarts, ran, twice, lapsed>>

\* The message is sent, or the terminal is gone; then the next run is computed.
RunNow(e, i) ==
    /\ locked = e /\ copy[i] # NoSchedule
    /\ IF Valid(copy[i].cron)
         THEN /\ WriteFile([copy EXCEPT ![i].next = NextRun(copy[i].cron, now)])
              /\ lapsed' = (lapsed \/ NextRun(copy[i].cron, now) = Never)
         ELSE locked' = NoOne /\ lapsed' = TRUE /\ UNCHANGED file
    /\ UNCHANGED <<now, copy, turn, started, missing, edits, restarts, ran, twice, deleted>>

-----------------------------------------------------------------------------
(* gateway_schedule_run_due_once().                                        *)

Begin ==
    /\ LockFree /\ \E i \in Id : file[i].on
    /\ locked' = Loop /\ copy' = FromFile /\ turn' = 1 /\ started' = now
    /\ UNCHANGED <<now, file, missing, edits, restarts, ran, twice, deleted, lapsed>>

Due(s) == s.on /\ s.next # Never /\ s.next <= started

Skip ==
    /\ locked = Loop /\ turn <= Schedules
    /\ ~Due(copy[turn]) /\ ~(copy[turn].on /\ copy[turn].next = Never)
    /\ turn' = turn + 1
    /\ UNCHANGED <<now, file, locked, copy, started, missing, edits, restarts, ran, twice, deleted, lapsed>>

\* A schedule without a date gets one, which may be this minute.
Plan ==
    LET s == copy[turn] IN
    /\ locked = Loop /\ turn <= Schedules /\ s.on /\ s.next = Never /\ Valid(s.cron)
    /\ copy' = [copy EXCEPT ![turn].next = NextRun(s.cron, started - 1)]
    /\ turn' = turn + 1
    /\ UNCHANGED <<now, file, locked, started, missing, edits, restarts, ran, twice, deleted, lapsed>>

\* gateway_schedule_execute(): the input is written before anything is saved;
\* the next run counts from the beginning of this round.
Execute ==
    LET s == copy[turn] IN
    /\ locked = Loop /\ turn <= Schedules /\ Due(s) /\ Valid(s.cron)
    /\ ran' = IF missing THEN ran ELSE [ran EXCEPT ![turn] = @ \cup {s.next}]
    /\ twice' = (twice \/ (~missing /\ s.next \in ran[turn]))
    /\ copy' = [copy EXCEPT ![turn].next = NextRun(s.cron, started)]
    /\ lapsed' = (lapsed \/ copy'[turn].next = Never)
    /\ turn' = turn + 1
    /\ UNCHANGED <<now, file, locked, started, missing, edits, restarts, deleted>>

\* No minute within a year matches any more: the exception ends the round after
\* the message was sent and before the file is written.
Raise ==
    LET s == copy[turn] IN
    /\ locked = Loop /\ turn <= Schedules /\ ~Valid(s.cron)
    /\ Due(s) \/ (s.on /\ s.next = Never)
    /\ ran' = IF Due(s) /\ ~missing THEN [ran EXCEPT ![turn] = @ \cup {s.next}] ELSE ran
    /\ twice' = (twice \/ (Due(s) /\ ~missing /\ s.next \in ran[turn]))
    /\ lapsed' = TRUE /\ locked' = NoOne
    /\ UNCHANGED <<now, file, copy, turn, started, missing, edits, restarts, deleted>>

Save ==
    /\ locked = Loop /\ turn > Schedules
    /\ WriteFile(copy)
    /\ UNCHANGED <<now, copy, turn, started, missing, edits, restarts, ran, twice, deleted, lapsed>>

\* The gateway dies, with the lock, and starts again.
Restart ==
    /\ restarts < MaxRestarts
    /\ restarts' = restarts + 1 /\ locked' = NoOne
    /\ UNCHANGED <<now, file, copy, turn, started, missing, edits, ran, twice, deleted, lapsed>>

SchedulesNext ==
    \/ Tick \/ Begin \/ Skip \/ Plan \/ Execute \/ Raise \/ Save \/ Restart
    \/ \E e \in Editor :
          \/ TakeLock(e) \/ Refuse(e)
          \/ \E i \in Id : Delete(e, i) \/ RunNow(e, i)
                \/ \E cron \in Crons, on \in BOOLEAN : Put(e, i, cron, on)

SchedulesSpec == SchedulesInit /\ [][SchedulesNext]_scheduleVars

-----------------------------------------------------------------------------
(* Properties.                                                             *)

\* A message is sent once for each minute it was planned for, although several
\* rounds fall into a minute and schedules are edited in between.  Two things
\* send it again: the gateway dies between the message and the write of the
\* file, or a cron expression whose next minute is more than a year away, such as
\* that of a leap day, leaves a schedule without one: the round ends before the
\* write, or the schedule is planned for the minute it has just run for.
RunsOncePerMinute == twice => lapsed \/ restarts > 0

\* A schedule that was deleted is in no file again and does not run: a round
\* that began earlier must not write its copy over the deletion.
DeletedStaysDeleted == \A i \in deleted : file[i] = NoSchedule
=============================================================================
