---------------------------- MODULE Gateway_proofs ----------------------------
(***************************************************************************)
(* What the gateway promises, for every number of terminals, sessions,     *)
(* lanes, processes and schedules: the parts of the gateway one after      *)
(* another, each with the inductive invariant that its properties need.    *)
(***************************************************************************)
EXTENDS TerminalStream, GatewayVault, GatewaySchedules, GatewayRelay, WellFoundedInduction, TLAPS

-----------------------------------------------------------------------------
(* The schedules.                                                          *)

LEMMA LeastNumber ==
    ASSUME NEW S \in SUBSET Nat, S # {}
    PROVE  \E m \in S : \A n \in S : m <= n
<1>1. \E x \in S : \A y \in S : <<y, x>> \notin OpToRel(<, Nat)
  BY NatLessThanWellFounded, WFMin
<1>2. PICK x \in S : \A y \in S : <<y, x>> \notin OpToRel(<, Nat)
  BY <1>1
<1>3. ASSUME NEW y \in S
      PROVE  x <= y
  <2>1. x \in Nat /\ y \in Nat
    OBVIOUS
  <2>2. ~(y < x)
    BY <1>2, <2>1 DEF OpToRel
  <2> QED
    BY <2>1, <2>2
<1> QED
  BY <1>3

LEMMA SchedulesNumbers ==
    /\ Schedules \in Nat /\ Year \in Nat /\ MaxTime \in Nat /\ MaxEdits \in Nat /\ MaxRestarts \in Nat
    /\ \A cron \in Crons : cron \in SUBSET Nat
    /\ Loop \notin Editor /\ NoOne \notin Editor /\ Never \in Nat
BY SchedulesAssumption DEF Never

\* The next run is the first match after a minute within a year of it, if there is one.
LEMMA NextRunIs ==
    ASSUME NEW cron \in SUBSET Nat, NEW after \in Int
    PROVE  \/ NextRun(cron, after) = Never /\ \A m \in cron : after < m => m > after + Year
           \/ NextRun(cron, after) \in cron /\ after < NextRun(cron, after) /\ NextRun(cron, after) <= after + Year
<1> DEFINE later == {m \in cron : Later(after, m) /\ m <= after + Year}
<1>1. CASE later = {}
  <2>1. NextRun(cron, after) = Never
    BY <1>1 DEF NextRun
  <2>2. ASSUME NEW m \in cron, after < m
        PROVE  m > after + Year
    <3>1. m \notin later /\ m \in Int /\ after + Year \in Int
      BY <1>1, SchedulesNumbers
    <3> QED
      BY <2>2, <3>1 DEF Later
  <2> QED
    BY <2>1, <2>2
<1>2. CASE later # {}
  <2>1. \E m \in later : \A n \in later : m <= n
    BY <1>2, LeastNumber
  <2>2. NextRun(cron, after) \in later
    BY <1>2, <2>1 DEF NextRun
  <2> QED
    BY <2>2 DEF Later
<1> QED
  BY <1>1, <1>2

\* A schedule, or the place of one that is not there.
Schedule == {NoSchedule} \cup [cron : Crons, on : BOOLEAN, next : Minute]

SchedulesTypes ==
    /\ now \in 0 .. MaxTime /\ started \in 0 .. now
    /\ file \in [Id -> Schedule] /\ copy \in [Id -> Schedule]
    /\ locked \in Editor \cup {Loop, NoOne}
    /\ turn \in 1 .. Schedules + 1 /\ missing \in BOOLEAN
    /\ edits \in 0 .. MaxEdits /\ restarts \in 0 .. MaxRestarts
    /\ ran \in [Id -> SUBSET Minute] /\ twice \in BOOLEAN /\ deleted \subseteq Id /\ lapsed \in BOOLEAN

\* A schedule that is on has a next minute, and it lies after all it has run for.
Ahead(schedules) ==
    \A i \in Id : schedules[i].on => /\ schedules[i].next # Never
                                     /\ \A m \in ran[i] : m < schedules[i].next

\* Until a schedule is left without a next minute: the file is right unless a
\* round is under way, and then its copy is.
OnceInv ==
    lapsed \/ restarts > 0 \/ /\ ~twice
                              /\ \A i \in Id : \A m \in ran[i] : m <= now
                              /\ locked # Loop => Ahead(file)
                              /\ locked # NoOne => Ahead(copy)

\* Who holds the lock has a copy without what was deleted.
GoneInv ==
    /\ DeletedStaysDeleted
    /\ locked # NoOne => \A i \in deleted : copy[i] = NoSchedule

SchedulesInv == SchedulesTypes /\ OnceInv /\ GoneInv

LEMMA ScheduleFields ==
    ASSUME NEW s \in Schedule
    PROVE  /\ s.cron \in SUBSET Nat /\ s.on \in BOOLEAN /\ s.next \in Nat /\ s.next \in Minute
           /\ s # NoSchedule => s.cron \in Crons
           /\ \A n \in Minute : s # NoSchedule => [s EXCEPT !.next = n] \in Schedule
<1>1. CASE s = NoSchedule
  BY <1>1, SchedulesNumbers DEF NoSchedule, Minute
<1>2. CASE s \in [cron : Crons, on : BOOLEAN, next : Minute]
  <2>1. s.cron \in Crons /\ s.on \in BOOLEAN /\ s.next \in Minute
    BY <1>2
  <2>2. Minute \subseteq Nat
    BY SchedulesNumbers DEF Minute
  <2>3. \A n \in Minute : [s EXCEPT !.next = n] \in [cron : Crons, on : BOOLEAN, next : Minute]
    BY <1>2
  <2> QED
    BY <2>1, <2>2, <2>3, SchedulesNumbers DEF Schedule
<1> QED
  BY <1>1, <1>2 DEF Schedule

\* The next run is a minute, also for a round that began before.
LEMMA NextRunMinute ==
    ASSUME SchedulesTypes, NEW cron \in SUBSET Nat, NEW after \in Int, after <= now
    PROVE  NextRun(cron, after) \in Minute
<1>1. MaxTime \in Nat /\ Year \in Nat /\ now \in 0 .. MaxTime /\ Never = MaxTime + Year + 1
  BY SchedulesNumbers DEF SchedulesTypes, Never
<1>2. \/ NextRun(cron, after) = Never
      \/ NextRun(cron, after) \in Nat /\ NextRun(cron, after) <= after + Year
  BY NextRunIs
<1> QED
  BY <1>1, <1>2 DEF Minute

LEMMA SchedulesInitInv == ASSUME SchedulesInit PROVE SchedulesInv
<1>1. /\ now = 0 /\ started = 0 /\ turn = 1 /\ missing \in BOOLEAN
      /\ file = [i \in Id |-> NoSchedule] /\ copy = file
      /\ locked = NoOne /\ edits = 0 /\ restarts = 0
      /\ ran = [i \in Id |-> {}] /\ twice = FALSE /\ deleted = {} /\ lapsed = FALSE
  BY DEF SchedulesInit
<1>2. SchedulesTypes
  <2>1. NoSchedule \in Schedule
    BY DEF Schedule
  <2>2. file \in [Id -> Schedule] /\ copy \in [Id -> Schedule]
    BY <1>1, <2>1
  <2>3. ran \in [Id -> SUBSET Minute] /\ deleted \subseteq Id /\ twice \in BOOLEAN /\ lapsed \in BOOLEAN
    BY <1>1
  <2>4. now \in 0 .. MaxTime /\ started \in 0 .. now /\ turn \in 1 .. Schedules + 1
    BY <1>1, SchedulesNumbers
  <2>5. edits \in 0 .. MaxEdits /\ restarts \in 0 .. MaxRestarts
    BY <1>1, SchedulesNumbers
  <2> QED
    BY <1>1, <2>2, <2>3, <2>4, <2>5 DEF SchedulesTypes
<1>3. OnceInv
  BY <1>1 DEF OnceInv, Ahead, NoSchedule
<1>4. GoneInv
  BY <1>1 DEF GoneInv, DeletedStaysDeleted
<1> QED
  BY <1>2, <1>3, <1>4 DEF SchedulesInv

LEMMA SchedulesTypesStep == ASSUME SchedulesTypes, [SchedulesNext]_scheduleVars PROVE SchedulesTypes'
<1>0. /\ now \in 0 .. MaxTime /\ started \in 0 .. now
      /\ file \in [Id -> Schedule] /\ copy \in [Id -> Schedule]
      /\ locked \in Editor \cup {Loop, NoOne}
      /\ turn \in 1 .. Schedules + 1 /\ missing \in BOOLEAN
      /\ edits \in 0 .. MaxEdits /\ restarts \in 0 .. MaxRestarts
      /\ ran \in [Id -> SUBSET Minute] /\ twice \in BOOLEAN /\ deleted \subseteq Id /\ lapsed \in BOOLEAN
      /\ Schedules \in Nat /\ MaxTime \in Nat /\ MaxEdits \in Nat /\ MaxRestarts \in Nat
  BY SchedulesNumbers DEF SchedulesTypes
<1>a. CASE UNCHANGED scheduleVars
  BY <1>a DEF scheduleVars, scheduleFacts, SchedulesTypes
<1>1. CASE Tick
  BY <1>0, <1>1 DEF Tick, SchedulesTypes
<1>2. ASSUME NEW e \in Editor, TakeLock(e) \/ Refuse(e)
      PROVE  SchedulesTypes'
  BY <1>0, <1>2 DEF TakeLock, Refuse, FromFile, SchedulesTypes
<1>3. ASSUME NEW e \in Editor, NEW i \in Id, NEW cron \in Crons, NEW on \in BOOLEAN, Put(e, i, cron, on)
      PROVE  SchedulesTypes'
  <2>1. NextRun(cron, now) \in Minute
    BY <1>0, NextRunMinute, SchedulesNumbers
  <2>2. [cron |-> cron, on |-> on, next |-> NextRun(cron, now)] \in Schedule
    BY <2>1 DEF Schedule
  <2>3. file' \in [Id -> Schedule]
    BY <1>0, <1>3, <2>2 DEF Put, WriteFile
  <2>4. lapsed' \in BOOLEAN
    BY <1>3 DEF Put
  <2> QED
    BY <1>0, <1>3, <2>3, <2>4 DEF Put, WriteFile, SchedulesTypes
<1>4. ASSUME NEW e \in Editor, NEW i \in Id, Delete(e, i)
      PROVE  SchedulesTypes'
  <2>1. NoSchedule \in Schedule
    BY DEF Schedule
  <2>2. file' \in [Id -> Schedule]
    BY <1>0, <1>4, <2>1 DEF Delete, WriteFile
  <2> QED
    BY <1>0, <1>4, <2>2 DEF Delete, WriteFile, SchedulesTypes
<1>5. ASSUME NEW e \in Editor, NEW i \in Id, RunNow(e, i)
      PROVE  SchedulesTypes'
  <2>0. copy[i] \in Schedule /\ copy[i] # NoSchedule
    BY <1>0, <1>5 DEF RunNow
  <2>1. NextRun(copy[i].cron, now) \in Minute
    BY <1>0, <2>0, ScheduleFields, NextRunMinute
  <2>2. [copy[i] EXCEPT !.next = NextRun(copy[i].cron, now)] \in Schedule
    BY <2>0, <2>1, ScheduleFields
  <2>3. file' \in [Id -> Schedule] /\ lapsed' \in BOOLEAN
    <3>1. CASE Valid(copy[i].cron)
      <4>1. /\ file' = [copy EXCEPT ![i].next = NextRun(copy[i].cron, now)]
            /\ lapsed' = (lapsed \/ NextRun(copy[i].cron, now) = Never)
        BY <1>5, <3>1 DEF RunNow, WriteFile
      <4>2. file' \in [Id -> Schedule]
        BY <1>0, <2>2, <4>1
      <4>3. lapsed' \in BOOLEAN
        BY <4>1
      <4> QED
        BY <4>2, <4>3
    <3>2. CASE ~Valid(copy[i].cron)
      BY <1>0, <1>5, <3>2 DEF RunNow
    <3> QED
      BY <3>1, <3>2
  <2> QED
    BY <1>0, <1>5, <2>3 DEF RunNow, WriteFile, SchedulesTypes
<1>6. CASE Begin
  BY <1>0, <1>6 DEF Begin, FromFile, SchedulesTypes
<1>7. CASE Skip
  BY <1>0, <1>7 DEF Skip, SchedulesTypes
<1>8. CASE Plan
  <2>0. copy[turn] \in Schedule /\ copy[turn] # NoSchedule /\ turn \in Id
    BY <1>0, <1>8 DEF Plan, Id, NoSchedule
  <2>1. NextRun(copy[turn].cron, started - 1) \in Minute
    BY <1>0, <2>0, ScheduleFields, NextRunMinute
  <2>2. copy' \in [Id -> Schedule]
    BY <1>0, <1>8, <2>0, <2>1, ScheduleFields DEF Plan
  <2> QED
    BY <1>0, <1>8, <2>2 DEF Plan, SchedulesTypes
<1>9. CASE Execute
  <2>0. copy[turn] \in Schedule /\ copy[turn] # NoSchedule /\ turn \in Id
    BY <1>0, <1>9 DEF Execute, Due, Id, NoSchedule
  <2>1. NextRun(copy[turn].cron, started) \in Minute /\ copy[turn].next \in Minute
    BY <1>0, <2>0, ScheduleFields, NextRunMinute
  <2>2. copy' \in [Id -> Schedule]
    BY <1>0, <1>9, <2>0, <2>1, ScheduleFields DEF Execute
  <2>3. ran' \in [Id -> SUBSET Minute]
    BY <1>0, <1>9, <2>0, <2>1 DEF Execute
  <2>4. twice' \in BOOLEAN
    BY <1>9 DEF Execute
  <2>5. lapsed' \in BOOLEAN
    BY <1>9 DEF Execute
  <2> QED
    BY <1>0, <1>9, <2>2, <2>3, <2>4, <2>5 DEF Execute, SchedulesTypes
<1>10. CASE Raise
  <2>0. copy[turn] \in Schedule /\ turn \in Id
    BY <1>0, <1>10 DEF Raise, Id
  <2>1. copy[turn].next \in Minute
    BY <2>0, ScheduleFields
  <2>2. ran' \in [Id -> SUBSET Minute]
    BY <1>0, <1>10, <2>0, <2>1 DEF Raise
  <2>3. twice' \in BOOLEAN
    BY <1>10 DEF Raise
  <2> QED
    BY <1>0, <1>10, <2>2, <2>3 DEF Raise, SchedulesTypes
<1>11. CASE Save
  BY <1>0, <1>11 DEF Save, WriteFile, SchedulesTypes
<1>12. CASE Restart
  BY <1>0, <1>12 DEF Restart, SchedulesTypes
<1> QED
  BY <1>1, <1>2, <1>3, <1>4, <1>5, <1>6, <1>7, <1>8, <1>9, <1>10, <1>11, <1>12, <1>a DEF SchedulesNext

LEMMA OnceStep == ASSUME SchedulesTypes, OnceInv, [SchedulesNext]_scheduleVars PROVE OnceInv'
<1>0. /\ now \in Nat /\ started \in Nat /\ started <= now /\ restarts \in Nat /\ turn \in Nat /\ turn >= 1 /\ Schedules \in Nat
      /\ file \in [Id -> Schedule] /\ copy \in [Id -> Schedule]
      /\ locked \in Editor \cup {Loop, NoOne}
      /\ ran \in [Id -> SUBSET Minute] /\ twice \in BOOLEAN /\ lapsed \in BOOLEAN
      /\ Loop \notin Editor /\ NoOne \notin Editor /\ Loop # NoOne /\ Minute \subseteq Nat
  BY SchedulesNumbers DEF SchedulesTypes, Minute, Loop, NoOne
<1>a. CASE UNCHANGED scheduleVars
  BY <1>a DEF scheduleVars, scheduleFacts, OnceInv, Ahead
<1>b. CASE lapsed \/ restarts > 0
  <2>1. CASE UNCHANGED scheduleVars
    BY <1>a, <2>1
  <2>2. CASE restarts > 0 /\ SchedulesNext
    <3>1. restarts' \in {restarts, restarts + 1}
      BY <2>2 DEF SchedulesNext, Tick, Begin, Skip, Plan, Execute, Raise, Save, Restart, TakeLock, Refuse,
                  Delete, RunNow, Put
    <3>2. restarts' > 0
      BY <1>0, <2>2, <3>1
    <3> QED
      BY <3>2 DEF OnceInv
  <2>3. CASE lapsed /\ SchedulesNext
    <3>1. CASE Execute
      BY <2>3, <3>1 DEF Execute, OnceInv
    <3>2. CASE Raise
      BY <3>2 DEF Raise, OnceInv
    <3>3. CASE \E e \in Editor, i \in Id : RunNow(e, i)
      BY <2>3, <3>3 DEF RunNow, OnceInv
    <3>4. CASE \E e \in Editor, i \in Id, cron \in Crons, on \in BOOLEAN : Put(e, i, cron, on)
      BY <2>3, <3>4 DEF Put, OnceInv
    <3>5. CASE UNCHANGED lapsed
      BY <2>3, <3>5 DEF OnceInv
    <3> QED
      BY <2>3, <3>1, <3>2, <3>3, <3>4, <3>5
         DEF SchedulesNext, Tick, Begin, Skip, Plan, Save, Restart, TakeLock, Refuse, Delete
  <2> QED
    BY <1>b, <2>1, <2>2, <2>3
<1>i. ASSUME ~(lapsed \/ restarts > 0)
      PROVE  /\ ~twice /\ \A i \in Id : \A m \in ran[i] : m <= now
             /\ locked # Loop => Ahead(file)
             /\ locked # NoOne => Ahead(copy)
  BY <1>i DEF OnceInv
<1> SUFFICES ASSUME ~(lapsed \/ restarts > 0), SchedulesNext, ~(lapsed' \/ restarts' > 0)
             PROVE  OnceInv'
  BY <1>a, <1>b DEF OnceInv
<1>1. CASE Tick
  <2>1. now' = now + 1 /\ UNCHANGED <<ran, twice, file, copy, locked>>
    BY <1>1 DEF Tick
  <2>2. \A i \in Id : \A m \in ran'[i] : m <= now'
    <3>1. \A i \in Id : \A m \in ran[i] : m \in Nat
      BY <1>0
    <3> QED
      BY <1>0, <1>i, <2>1, <3>1
  <2> QED
    BY <1>i, <2>1, <2>2 DEF OnceInv, Ahead
<1>2. ASSUME NEW e \in Editor, TakeLock(e) \/ Refuse(e)
      PROVE  OnceInv'
  <2>1. UNCHANGED <<now, ran, twice, file>>
    BY <1>2 DEF TakeLock, Refuse
  <2>2. Ahead(file) /\ locked # Loop
    BY <1>0, <1>2, <1>i DEF TakeLock, Refuse, LockFree
  <2>3. locked' # NoOne => copy' = file
    BY <1>2 DEF TakeLock, Refuse, FromFile
  <2> QED
    BY <1>i, <2>1, <2>2, <2>3 DEF OnceInv, Ahead
<1>n. ASSUME NEW i \in Id, NEW n, n > now, n \in Nat, n # Never, locked # NoOne,
             NEW s \in Schedule, s.next = n, file' = [copy EXCEPT ![i] = s], locked' = NoOne,
             UNCHANGED <<ran, twice, now>>
      PROVE  OnceInv'
  <2>1. ~twice' /\ \A j \in Id : \A m \in ran'[j] : m <= now'
    BY <1>i, <1>n
  <2>2. ASSUME NEW j \in Id, file'[j].on
        PROVE  file'[j].next # Never /\ \A m \in ran'[j] : m < file'[j].next
    <3>1. CASE j = i
      <4>1. file'[j].next = n
        BY <1>0, <1>n, <3>1
      <4>2. ASSUME NEW m \in ran[i]
            PROVE  m < n
        <5>1. m \in Nat /\ m <= now
          BY <1>0, <1>i
        <5> QED
          BY <1>0, <1>n, <5>1
      <4> QED
        BY <1>n, <3>1, <4>1, <4>2
    <3>2. CASE j # i
      <4>1. file'[j] = copy[j]
        BY <1>0, <1>n, <3>2
      <4> QED
        BY <1>i, <1>n, <2>2, <4>1 DEF Ahead
    <3> QED
      BY <3>1, <3>2
  <2> QED
    BY <1>n, <2>1, <2>2 DEF OnceInv, Ahead
<1>3. ASSUME NEW e \in Editor, NEW i \in Id, NEW cron \in Crons, NEW on \in BOOLEAN, Put(e, i, cron, on)
      PROVE  OnceInv'
  <2> DEFINE n == NextRun(cron, now)
             s == [cron |-> cron, on |-> on, next |-> n]
  <2>1. /\ file' = [copy EXCEPT ![i] = s] /\ locked' = NoOne /\ locked = e
        /\ lapsed' = (lapsed \/ n = Never) /\ UNCHANGED <<ran, twice, now>>
    BY <1>3 DEF Put, WriteFile
  <2>2. n # Never /\ n > now /\ n \in Nat
    <3>3. n # Never
      BY <2>1
    <3>1. n # Never /\ cron \in SUBSET Nat /\ now \in Int
      BY <1>0, <3>3, SchedulesNumbers
    <3>2. n \in cron /\ now < n
      BY <3>1, NextRunIs
    <3> QED
      BY <3>1, <3>2
  <2>3. s \in Schedule /\ s.next = n
    <3>1. n \in Minute
      BY <1>0, NextRunMinute, SchedulesNumbers
    <3> QED
      BY <3>1 DEF Schedule
  <2> HIDE DEF n, s
  <2> QED
    BY <1>0, <1>n, <2>1, <2>2, <2>3
<1>4. ASSUME NEW e \in Editor, NEW i \in Id, Delete(e, i)
      PROVE  OnceInv'
  <2>1. /\ file' = [copy EXCEPT ![i] = NoSchedule] /\ locked' = NoOne /\ locked = e
        /\ UNCHANGED <<ran, twice, now>>
    BY <1>4 DEF Delete, WriteFile
  <2>2. \A j \in Id : file'[j].on => j # i /\ file'[j] = copy[j]
    BY <1>0, <2>1 DEF NoSchedule
  <2>3. Ahead(copy)
    BY <1>0, <1>i, <2>1
  <2>4. ASSUME NEW j \in Id, file'[j].on
        PROVE  file'[j].next # Never /\ \A m \in ran'[j] : m < file'[j].next
    BY <2>1, <2>2, <2>3, <2>4 DEF Ahead
  <2> QED
    BY <1>i, <2>1, <2>4 DEF OnceInv, Ahead
<1>5. ASSUME NEW e \in Editor, NEW i \in Id, RunNow(e, i)
      PROVE  OnceInv'
  <2> DEFINE n == NextRun(copy[i].cron, now)
             s == [copy[i] EXCEPT !.next = n]
  <2>0. copy[i] \in Schedule /\ copy[i] # NoSchedule /\ Valid(copy[i].cron)
    BY <1>0, <1>5 DEF RunNow
  <2>1. /\ file' = [copy EXCEPT ![i] = s] /\ locked' = NoOne /\ locked = e
        /\ lapsed' = (lapsed \/ n = Never) /\ UNCHANGED <<ran, twice, now>>
    BY <1>5, <2>0 DEF RunNow, WriteFile
  <2>2. n # Never /\ n > now /\ n \in Nat
    <3>1. n # Never /\ copy[i].cron \in SUBSET Nat
      BY <2>0, <2>1, ScheduleFields
    <3> QED
      BY <1>0, <3>1, NextRunIs
  <2>3. s \in Schedule /\ s.next = n
    <3>1. n \in Minute
      BY <1>0, <2>0, NextRunMinute, ScheduleFields
    <3>2. s \in Schedule
      BY <2>0, <3>1, ScheduleFields
    <3>3. s.next = n
      BY <2>0 DEF Schedule
    <3> QED
      BY <3>2, <3>3
  <2> HIDE DEF n, s
  <2> QED
    BY <1>0, <1>n, <2>1, <2>2, <2>3
<1>6. CASE Begin
  BY <1>0, <1>6, <1>i DEF Begin, FromFile, LockFree, OnceInv, Ahead
<1>7. CASE Skip
  BY <1>0, <1>7, <1>i DEF Skip, OnceInv, Ahead
<1>8. CASE Plan
  <2>1. Ahead(copy) /\ turn \in Id /\ copy[turn].on /\ copy[turn].next = Never
    BY <1>0, <1>8, <1>i DEF Plan, Id
  <2> QED
    BY <2>1 DEF Ahead
<1>9. CASE Execute
  <2> DEFINE s == copy[turn]
             n == NextRun(s.cron, started)
  <2>0. /\ s \in Schedule /\ s # NoSchedule /\ turn \in Id /\ s.on /\ s.next <= started /\ s.next \in Nat
        /\ s.cron \in SUBSET Nat /\ locked = Loop
    <3>1. turn \in Id /\ s.on /\ s.next <= started /\ locked = Loop
      BY <1>0, <1>9 DEF Execute, Due, Id
    <3>2. s \in Schedule
      BY <1>0, <3>1
    <3>3. s # NoSchedule /\ s.next \in Nat /\ s.cron \in SUBSET Nat
      BY <3>1, <3>2, ScheduleFields DEF NoSchedule
    <3> QED
      BY <3>1, <3>2, <3>3
  <2>1. /\ copy' = [copy EXCEPT ![turn].next = n] /\ UNCHANGED <<now, file, locked>>
        /\ ran' = IF missing THEN ran ELSE [ran EXCEPT ![turn] = @ \cup {s.next}]
        /\ twice' = (twice \/ (~missing /\ s.next \in ran[turn]))
        /\ lapsed' = (lapsed \/ copy'[turn].next = Never)
    BY <1>9 DEF Execute
  <2>2. copy'[turn].next = n /\ \A j \in Id : j # turn => copy'[j] = copy[j]
    <3>1. copy'[turn] = [s EXCEPT !.next = n] /\ \A j \in Id : j # turn => copy'[j] = copy[j]
      BY <1>0, <2>0, <2>1
    <3> QED
      BY <2>0, <3>1 DEF Schedule
  <2>3. n # Never /\ n \in Nat /\ n > started
    <3>1. n # Never
      BY <2>1, <2>2
    <3> QED
      BY <1>0, <2>0, <3>1, NextRunIs
  <2>4. \A m \in ran[turn] : m < s.next /\ m \in Nat
    BY <1>0, <1>i, <2>0 DEF Ahead
  <2>5. ~twice'
    <3>1. s.next \notin ran[turn]
      BY <2>0, <2>4
    <3>2. ~twice
      BY <1>i
    <3> QED
      BY <2>1, <3>1, <3>2
  <2>6. \A j \in Id : ran'[j] = ran[j] \/ (j = turn /\ ran'[j] = ran[j] \cup {s.next})
    BY <1>0, <2>0, <2>1
  <2>7. ASSUME NEW j \in Id, NEW m \in ran'[j]
        PROVE  m <= now'
    <3>1. m \in ran[j] \/ m = s.next
      BY <2>6
    <3> QED
      BY <1>0, <1>i, <2>0, <2>1, <3>1
  <2>8. ASSUME NEW j \in Id, copy'[j].on
        PROVE  copy'[j].next # Never /\ \A m \in ran'[j] : m < copy'[j].next
    <3>1. CASE j = turn
      <4>1. \A m \in ran'[j] : m \in Nat /\ m <= s.next
        BY <2>0, <2>4, <2>6, <3>1
      <4>2. \A m \in ran'[j] : m < n
        BY <1>0, <2>0, <2>3, <4>1
      <4> QED
        BY <2>2, <2>3, <3>1, <4>2
    <3>2. CASE j # turn
      <4>1. ran'[j] = ran[j] /\ copy'[j] = copy[j]
        BY <2>2, <2>6, <3>2
      <4>2. Ahead(copy)
        BY <1>i, <2>0, <1>0
      <4> QED
        BY <2>8, <4>1, <4>2 DEF Ahead
    <3> QED
      BY <3>1, <3>2
  <2> QED
    BY <2>0, <2>1, <2>5, <2>7, <2>8 DEF OnceInv, Ahead
<1>10. CASE Raise
  BY <1>10 DEF Raise
<1>11. CASE Save
  BY <1>0, <1>11, <1>i DEF Save, WriteFile, OnceInv, Ahead
<1>12. CASE Restart
  BY <1>0, <1>12 DEF Restart
<1> QED
  BY <1>1, <1>2, <1>3, <1>4, <1>5, <1>6, <1>7, <1>8, <1>9, <1>10, <1>11, <1>12 DEF SchedulesNext

LEMMA GoneStep == ASSUME SchedulesTypes, GoneInv, [SchedulesNext]_scheduleVars PROVE GoneInv'
<1>0. /\ file \in [Id -> Schedule] /\ copy \in [Id -> Schedule] /\ deleted \subseteq Id
      /\ NoOne \notin Editor /\ Loop # NoOne /\ turn \in Nat /\ turn >= 1 /\ Schedules \in Nat
  BY SchedulesNumbers DEF SchedulesTypes, Loop, NoOne
<1>i. /\ \A i \in deleted : file[i] = NoSchedule
      /\ locked # NoOne => \A i \in deleted : copy[i] = NoSchedule
  BY DEF GoneInv, DeletedStaysDeleted
<1>a. CASE UNCHANGED scheduleVars
  BY <1>a DEF scheduleVars, scheduleFacts, GoneInv, DeletedStaysDeleted
<1>1. CASE Tick \/ Raise \/ Restart \/ Skip \/ Begin \/ \E e \in Editor : TakeLock(e) \/ Refuse(e)
  <2>1. UNCHANGED <<file, deleted>> /\ (locked' = NoOne \/ copy' = file \/ UNCHANGED <<locked, copy>>)
    BY <1>1 DEF Tick, Raise, Restart, Skip, Begin, TakeLock, Refuse, FromFile
  <2> QED
    BY <1>i, <2>1 DEF GoneInv, DeletedStaysDeleted
<1>2. ASSUME NEW e \in Editor, NEW i \in Id, NEW cron \in Crons, NEW on \in BOOLEAN, Put(e, i, cron, on)
      PROVE  GoneInv'
  <2>1. locked = e /\ i \notin deleted /\ locked' = NoOne /\ UNCHANGED deleted
    BY <1>2 DEF Put, WriteFile
  <2>2. \A j \in Id : j # i => file'[j] = copy[j]
    BY <1>0, <1>2 DEF Put, WriteFile
  <2> QED
    BY <1>0, <1>i, <2>1, <2>2 DEF GoneInv, DeletedStaysDeleted
<1>3. ASSUME NEW e \in Editor, NEW i \in Id, Delete(e, i)
      PROVE  GoneInv'
  <2>1. locked = e /\ locked' = NoOne /\ deleted' = deleted \cup {i}
    BY <1>3 DEF Delete, WriteFile
  <2>2. \A j \in Id : file'[j] = IF j = i THEN NoSchedule ELSE copy[j]
    BY <1>0, <1>3 DEF Delete, WriteFile
  <2> QED
    BY <1>0, <1>i, <2>1, <2>2 DEF GoneInv, DeletedStaysDeleted
<1>4. ASSUME NEW e \in Editor, NEW i \in Id, RunNow(e, i)
      PROVE  GoneInv'
  <2>1. locked = e /\ copy[i] # NoSchedule /\ locked' = NoOne /\ UNCHANGED deleted
    BY <1>4 DEF RunNow, WriteFile
  <2>2. file' = file \/ \A j \in Id : j # i => file'[j] = copy[j]
    <3>1. file' = file \/ \E n : file' = [copy EXCEPT ![i].next = n]
      BY <1>4 DEF RunNow, WriteFile
    <3> QED
      BY <1>0, <3>1
  <2>3. i \notin deleted
    BY <1>0, <1>i, <2>1
  <2> QED
    BY <1>0, <1>i, <2>1, <2>2, <2>3 DEF GoneInv, DeletedStaysDeleted
<1>5. CASE Plan \/ Execute
  <2>1. locked = Loop /\ copy[turn].on /\ turn \in Id /\ UNCHANGED <<file, deleted, locked>>
    BY <1>0, <1>5 DEF Plan, Execute, Due, Id
  <2>2. \A j \in Id : j # turn => copy'[j] = copy[j]
    <3>1. \E n : copy' = [copy EXCEPT ![turn].next = n]
      BY <1>5 DEF Plan, Execute
    <3> QED
      BY <1>0, <3>1
  <2>3. turn \notin deleted
    BY <1>0, <1>i, <2>1 DEF NoSchedule
  <2> QED
    BY <1>0, <1>i, <2>1, <2>2, <2>3 DEF GoneInv, DeletedStaysDeleted
<1>6. CASE Save
  BY <1>0, <1>6, <1>i DEF Save, WriteFile, GoneInv, DeletedStaysDeleted
<1> QED
  BY <1>1, <1>2, <1>3, <1>4, <1>5, <1>6, <1>a DEF SchedulesNext

LEMMA SchedulesNextInv == ASSUME SchedulesInv, [SchedulesNext]_scheduleVars PROVE SchedulesInv'
BY SchedulesTypesStep, OnceStep, GoneStep DEF SchedulesInv

LEMMA SchedulesSpecInv == SchedulesSpec => []SchedulesInv
BY SchedulesInitInv, SchedulesNextInv, PTL DEF SchedulesSpec

(* The schedules, the copy of a round and the clocks keep their types.     *)
THEOREM SpecSchedulesTypeOK == SchedulesSpec => []SchedulesTypeOK
<1>1. SchedulesInv => SchedulesTypeOK
  <2> SUFFICES ASSUME SchedulesInv
               PROVE  SchedulesTypeOK
    OBVIOUS
  <2>1. SchedulesTypes
    BY DEF SchedulesInv
  <2>2. Schedule \subseteq [cron : Crons \cup {{}}, on : BOOLEAN, next : Minute]
    <3>1. NoSchedule \in [cron : Crons \cup {{}}, on : BOOLEAN, next : Minute]
      BY SchedulesNumbers DEF NoSchedule, Minute
    <3> QED
      BY <3>1 DEF Schedule
  <2>3. {file, copy} \subseteq [Id -> [cron : Crons \cup {{}}, on : BOOLEAN, next : Minute]]
    BY <2>1, <2>2 DEF SchedulesTypes
  <2>4. started \in 0 .. MaxTime
    BY <2>1, SchedulesNumbers DEF SchedulesTypes
  <2> QED
    BY <2>1, <2>3, <2>4 DEF SchedulesTypes, SchedulesTypeOK
<1> QED
  BY <1>1, SchedulesSpecInv, PTL

(* No schedule runs twice for one minute, unless the gateway died or a     *)
(* schedule was left without a next minute.                                *)
THEOREM SpecRunsOncePerMinute == SchedulesSpec => []RunsOncePerMinute
<1>1. SchedulesInv => RunsOncePerMinute
  BY DEF SchedulesInv, OnceInv, RunsOncePerMinute
<1> QED
  BY <1>1, SchedulesSpecInv, PTL

(* A schedule that was deleted is in no file again.                        *)
THEOREM SpecDeletedStaysDeleted == SchedulesSpec => []DeletedStaysDeleted
<1>1. SchedulesInv => DeletedStaysDeleted
  BY DEF SchedulesInv, GoneInv
<1> QED
  BY <1>1, SchedulesSpecInv, PTL

\* A cron expression like those in use: it matches a minute in every year.
Recurring(cron) == \A n \in Nat : \E m \in cron : n <= m /\ m < n + Year

LEMMA RecurringStep ==
    ASSUME \A cron \in Crons : Recurring(cron), SchedulesInv, ~lapsed, [SchedulesNext]_scheduleVars
    PROVE  ~lapsed'
<1>0. /\ SchedulesTypes /\ now \in Nat /\ started \in Nat /\ started <= now /\ Year \in Nat
      /\ MaxTime \in Nat /\ now <= MaxTime
      /\ copy \in [Id -> Schedule] /\ turn \in 1 .. Schedules + 1 /\ Schedules \in Nat
  BY SchedulesNumbers DEF SchedulesInv, SchedulesTypes
<1>1. ASSUME NEW cron \in Crons
      PROVE  Valid(cron) /\ \A n \in 0 .. MaxTime : NextRun(cron, n) # Never
  <2>0. cron \in SUBSET Nat /\ Recurring(cron)
    BY SchedulesNumbers
  <2>1. Valid(cron)
    BY <1>0, <2>0 DEF Valid, Recurring
  <2>2. ASSUME NEW n \in Nat
        PROVE  \E m \in cron : n < m /\ m <= n + Year
    <3>1. PICK m \in cron : n + 1 <= m /\ m < n + 1 + Year
      BY <2>0 DEF Recurring
    <3>2. m \in Nat
      BY <2>0
    <3> QED
      BY <1>0, <3>1, <3>2
  <2>3. ASSUME NEW n \in 0 .. MaxTime
        PROVE  NextRun(cron, n) # Never
    <3>1. PICK m \in cron : n < m /\ m <= n + Year
      BY <2>2
    <3>2. m \in Nat /\ n + Year \in Nat /\ ~(m > n + Year)
      BY <1>0, <2>0, <3>1
    <3>3. \/ NextRun(cron, n) = Never /\ \A k \in cron : n < k => k > n + Year
          \/ NextRun(cron, n) \in cron /\ n < NextRun(cron, n) /\ NextRun(cron, n) <= n + Year
      BY <2>0, NextRunIs
    <3>4. CASE NextRun(cron, n) \in cron /\ NextRun(cron, n) <= n + Year
      <4>1. ASSUME NextRun(cron, n) = Never
            PROVE  FALSE
        BY <1>0, <3>1, <3>2, <3>4, <4>1 DEF Never
      <4> QED
        BY <4>1
    <3> QED
      BY <3>1, <3>2, <3>3, <3>4
  <2> QED
    BY <2>1, <2>3
<1>2. ASSUME NEW i \in Id, copy[i] # NoSchedule
      PROVE  copy[i].cron \in Crons
  BY <1>0, <1>2, ScheduleFields
<1>3. turn <= Schedules /\ copy[turn].on => turn \in Id /\ copy[turn] # NoSchedule
  BY <1>0 DEF Id, NoSchedule
<1>4. now \in 0 .. MaxTime /\ started \in 0 .. MaxTime
  BY <1>0
<1>5. ASSUME NEW e \in Editor, NEW i \in Id, NEW cron \in Crons, NEW on \in BOOLEAN, Put(e, i, cron, on)
      PROVE  ~lapsed'
  BY <1>1, <1>4, <1>5 DEF Put
<1>6. ASSUME NEW e \in Editor, NEW i \in Id, RunNow(e, i)
      PROVE  ~lapsed'
  BY <1>1, <1>2, <1>4, <1>6 DEF RunNow
<1>7. CASE Execute
  <2>1. copy[turn].on /\ turn <= Schedules
    BY <1>7 DEF Execute, Due
  <2>2. NextRun(copy[turn].cron, started) # Never
    BY <1>1, <1>2, <1>3, <1>4, <2>1
  <2>3. copy'[turn].next = NextRun(copy[turn].cron, started)
    <3>1. copy'[turn] = [copy[turn] EXCEPT !.next = NextRun(copy[turn].cron, started)]
      BY <1>0, <1>3, <1>7, <2>1 DEF Execute
    <3>2. copy[turn] \in Schedule /\ copy[turn] # NoSchedule
      BY <1>0, <1>3, <2>1
    <3> QED
      BY <3>1, <3>2 DEF Schedule
  <2> QED
    BY <1>7, <2>2, <2>3 DEF Execute
<1>8. CASE Raise
  BY <1>1, <1>2, <1>3, <1>8 DEF Raise, Due
<1>9. CASE UNCHANGED lapsed
  BY <1>9
<1> QED
  BY <1>5, <1>6, <1>7, <1>8, <1>9 DEF SchedulesNext, Tick, Begin, Skip, Plan, Save, Restart, TakeLock, Refuse,
                                      Delete, scheduleVars, scheduleFacts

(* With cron expressions that match a minute in every year, only a gateway *)
(* that dies between the message and the file sends a message twice.       *)
THEOREM SpecOnlyARestartRepeats ==
    ASSUME \A cron \in Crons : Recurring(cron)
    PROVE  SchedulesSpec => [](twice => restarts > 0)
<1>1. SchedulesInit => ~lapsed
  BY DEF SchedulesInit
<1>2. SchedulesInv /\ ~lapsed /\ [SchedulesNext]_scheduleVars => ~lapsed'
  BY RecurringStep
<1>3. SchedulesInv /\ ~lapsed => (twice => restarts > 0)
  BY DEF SchedulesInv, OnceInv
<1> QED
  BY <1>1, <1>2, <1>3, SchedulesSpecInv, PTL DEF SchedulesSpec

-----------------------------------------------------------------------------
(* The sessions of the relay.                                              *)

\* What holds of a session that no two lanes looked up at one time: the lane that
\* looked it up is alone, and finds no thread and no entry when it starts one.
SessionInv(s) ==
    /\ \A l \in Lane : thread[<<s, l>>] # "none" => s \in registry
    /\ \A j, k \in Lane : thread[<<s, j>>] # "none" /\ thread[<<s, k>>] # "none" => j = k
    /\ \A j, k \in Lane : claim[j] = s /\ claim[k] = s => j = k
    /\ \A j, k \in Lane : claim[j] = s => thread[<<s, k>>] = "none"

RelayInv ==
    /\ RelayTypeOK
    /\ \A l \in Lane : lane[l] = "claimed" => claim[l] \in Sid
    /\ \A s \in registry : Running(s)
    /\ \A s \in Sid \ raced : SessionInv(s)

LEMMA RelayInitInv == ASSUME RelayInit PROVE RelayInv
<1>1. /\ lane = [l \in Lane |-> "wait"] /\ claim = [l \in Lane |-> Closed]
      /\ unstable = FALSE /\ active = {} /\ enabled \in BOOLEAN /\ registry = {} /\ raced = {}
      /\ thread = [t \in Sid \X Lane |-> "none"] /\ requests = [s \in Sid |-> 0]
  BY DEF RelayInit
<1>2. RelayTypeOK
  <2>1. /\ lane \in [Lane -> {"wait", "connect", "renew", "listen", "claimed", "left"}]
        /\ claim \in [Lane -> Sid \cup {Closed}]
    BY <1>1
  <2>2. thread \in [Sid \X Lane -> Threads] /\ requests \in [Sid -> 0 .. MaxRequests]
    BY <1>1, RelayAssumption DEF Threads
  <2> QED
    BY <1>1, <2>1, <2>2 DEF RelayTypeOK
<1>3. ASSUME NEW s \in Sid
      PROVE  SessionInv(s)
  BY <1>1, RelaySidAssumption DEF SessionInv, Closed
<1> QED
  BY <1>1, <1>2, <1>3 DEF RelayInv

\* The types, and that a lane that is to start a thread knows the session.
LEMMA RelayTypeStep ==
    ASSUME RelayTypeOK, \A l \in Lane : lane[l] = "claimed" => claim[l] \in Sid, [RelayNext]_relayVars
    PROVE  RelayTypeOK' /\ \A l \in Lane : lane'[l] = "claimed" => claim'[l] \in Sid
<1>0. /\ lane \in [Lane -> {"wait", "connect", "renew", "listen", "claimed", "left"}]
      /\ claim \in [Lane -> Sid \cup {Closed}]
      /\ active \subseteq Lane /\ unstable \in BOOLEAN /\ enabled \in BOOLEAN
      /\ registry \subseteq Sid /\ raced \subseteq Sid
      /\ thread \in [Sid \X Lane -> Threads]
      /\ requests \in [Sid -> 0 .. MaxRequests] /\ MaxRequests \in Nat
  BY RelayAssumption DEF RelayTypeOK
<1> USE DEF sessionVars, laneVars
<1>a. CASE UNCHANGED relayVars
  BY <1>a DEF relayVars, RelayTypeOK
<1>1. ASSUME NEW l \in Lane, Dial(l) \/ Connected(l) \/ Rejected(l) \/ LaneFails(l) \/ ClosedByRelay(l)
      PROVE  RelayTypeOK' /\ \A k \in Lane : lane'[k] = "claimed" => claim'[k] \in Sid
  <2>1. /\ \E place \in {"wait", "connect", "renew", "listen"} : lane' = [lane EXCEPT ![l] = place]
        /\ active' \in {active, active \cup {l}, active \ {l}} /\ UNCHANGED <<claim, enabled, sessionVars>>
        /\ unstable' \in {unstable, TRUE}
    BY <1>1 DEF Dial, Connected, Rejected, LaneFails, ClosedByRelay, LaneGoes
  <2>2. lane' \in [Lane -> {"wait", "connect", "renew", "listen", "claimed", "left"}]
    BY <1>0, <2>1
  <2>3. active' \subseteq Lane /\ unstable' \in BOOLEAN
    BY <1>0, <2>1
  <2>4. \A k \in Lane : lane'[k] = "claimed" => lane[k] = "claimed"
    BY <1>0, <2>1
  <2> QED
    BY <1>0, <2>1, <2>2, <2>3, <2>4 DEF RelayTypeOK
<1>2. ASSUME NEW l \in Lane, NEW s \in Sid, Request(l, s)
      PROVE  RelayTypeOK' /\ \A k \in Lane : lane'[k] = "claimed" => claim'[k] \in Sid
  <2>1. /\ requests[s] < MaxRequests /\ requests' = [requests EXCEPT ![s] = @ + 1]
        /\ \/ UNCHANGED <<lane, claim>>
           \/ lane' = [lane EXCEPT ![l] = "claimed"] /\ claim' = [claim EXCEPT ![l] = s]
        /\ raced' \in {raced, raced \cup {s}}
        /\ UNCHANGED <<unstable, active, enabled, registry, thread>>
    BY <1>2 DEF Request, LaneGoes
  <2>2. requests' \in [Sid -> 0 .. MaxRequests]
    BY <1>0, <2>1
  <2>3. /\ lane' \in [Lane -> {"wait", "connect", "renew", "listen", "claimed", "left"}]
        /\ claim' \in [Lane -> Sid \cup {Closed}]
        /\ \A k \in Lane : lane'[k] = "claimed" => claim'[k] \in Sid
    BY <1>0, <2>1
  <2>4. raced' \subseteq Sid
    BY <1>0, <2>1
  <2> QED
    BY <1>0, <2>1, <2>2, <2>3, <2>4 DEF RelayTypeOK
<1>3. ASSUME NEW l \in Lane, StartThread(l)
      PROVE  RelayTypeOK' /\ \A k \in Lane : lane'[k] = "claimed" => claim'[k] \in Sid
  <2>1. /\ claim[l] \in Sid
        /\ registry' = registry \cup {claim[l]}
        /\ thread' = [thread EXCEPT ![<<claim[l], l>>] = "secret"]
        /\ claim' = [claim EXCEPT ![l] = Closed] /\ lane' = [lane EXCEPT ![l] = "listen"]
        /\ UNCHANGED <<unstable, active, enabled, requests, raced>>
    BY <1>3 DEF StartThread, LaneGoes
  <2>2. thread' \in [Sid \X Lane -> Threads]
    BY <1>0, <2>1 DEF Threads
  <2>3. /\ lane' \in [Lane -> {"wait", "connect", "renew", "listen", "claimed", "left"}]
        /\ claim' \in [Lane -> Sid \cup {Closed}]
        /\ \A k \in Lane : lane'[k] = "claimed" => claim'[k] \in Sid
    BY <1>0, <2>1
  <2>4. registry' \subseteq Sid
    BY <1>0, <2>1
  <2> QED
    BY <1>0, <2>1, <2>2, <2>3, <2>4 DEF RelayTypeOK
<1>4. ASSUME NEW t \in Sid \X Lane, Advance(t) \/ Fail(t) \/ Reject(t) \/ Hangup(t) \/ Discard(t)
      PROVE  RelayTypeOK' /\ \A k \in Lane : lane'[k] = "claimed" => claim'[k] \in Sid
  <2>1. \E to \in Threads : thread' = [thread EXCEPT ![t] = to]
    BY <1>4 DEF Advance, Fail, Reject, Hangup, Discard, Moves, Threads
  <2>2. UNCHANGED <<laneVars, requests, raced>> /\ registry' \subseteq registry
    BY <1>4 DEF Advance, Fail, Reject, Hangup, Discard, Rest
  <2>3. thread' \in [Sid \X Lane -> Threads]
    BY <1>0, <2>1
  <2>4. registry' \subseteq Sid
    BY <1>0, <2>2
  <2> QED
    BY <1>0, <2>2, <2>3, <2>4 DEF RelayTypeOK
<1>5. CASE Settings
  BY <1>0, <1>5 DEF Settings, RelayTypeOK
<1> QED
  BY <1>1, <1>2, <1>3, <1>4, <1>5, <1>a DEF RelayNext

\* Whoever takes a session off the list is a thread of it, so that no entry is
\* left behind; and a session that no two lanes looked up at one time keeps to
\* one thread.
LEMMA SessionStep ==
    ASSUME RelayInv, [RelayNext]_relayVars
    PROVE  (\A s \in registry : Running(s))' /\ (\A s \in Sid \ raced : SessionInv(s))'
<1>0. /\ RelayTypeOK /\ thread \in [Sid \X Lane -> Threads] /\ registry \subseteq Sid
      /\ claim \in [Lane -> Sid \cup {Closed}] /\ lane \in [Lane -> {"wait", "connect", "renew", "listen", "claimed", "left"}]
      /\ \A l \in Lane : lane[l] = "claimed" => claim[l] \in Sid
      /\ \A s \in registry : Running(s)
      /\ \A s \in Sid \ raced : SessionInv(s)
  BY DEF RelayInv, RelayTypeOK
<1> USE DEF sessionVars, laneVars
<1>1. CASE UNCHANGED <<registry, thread, claim, raced>>
  <2>1. ASSUME NEW s \in registry
        PROVE  Running(s)'
    BY <1>0, <1>1, <2>1 DEF Running
  <2>2. ASSUME NEW s \in Sid \ raced
        PROVE  SessionInv(s)'
    BY <1>0, <1>1, <2>2 DEF SessionInv
  <2> QED
    BY <1>1, <2>1, <2>2
<1>2. ASSUME NEW l \in Lane, NEW c \in Sid, Request(l, c)
      PROVE  (\A s \in registry : Running(s))' /\ (\A s \in Sid \ raced : SessionInv(s))'
  <2>1. CASE Taken(l, c)
    BY <1>1, <1>2, <2>1 DEF Request
  <2>2. CASE ~Taken(l, c)
    <3>1. /\ c \notin registry /\ claim' = [claim EXCEPT ![l] = c] /\ UNCHANGED <<registry, thread>>
          /\ raced' = IF \E k \in Lane : claim[k] = c THEN raced \cup {c} ELSE raced
      BY <1>2, <2>2 DEF Request, Taken
    <3>2. (\A s \in registry : Running(s))'
      BY <1>0, <3>1 DEF Running
    <3>3. ASSUME NEW s \in Sid, s \notin raced'
          PROVE  SessionInv(s)'
      <4>1. SessionInv(s) /\ s \notin raced
        BY <1>0, <3>1, <3>3
      <4>2. CASE s # c
        <5>1. \A k \in Lane : claim'[k] = s => claim[k] = s
          BY <1>0, <3>1, <4>2
        <5> QED
          BY <3>1, <4>1, <5>1 DEF SessionInv
      <4>3. CASE s = c
        <5>1. \A k \in Lane : claim[k] # c
          BY <3>1, <3>3, <4>3
        <5>2. \A k \in Lane : claim'[k] = c => k = l
          BY <1>0, <3>1, <5>1
        <5>3. \A k \in Lane : thread[<<c, k>>] = "none"
          BY <3>1, <4>1, <4>3 DEF SessionInv
        <5> QED
          BY <3>1, <4>3, <5>2, <5>3 DEF SessionInv
      <4> QED
        BY <4>2, <4>3
    <3> QED
      BY <3>2, <3>3
  <2> QED
    BY <2>1, <2>2
<1>3. ASSUME NEW l \in Lane, StartThread(l)
      PROVE  (\A s \in registry : Running(s))' /\ (\A s \in Sid \ raced : SessionInv(s))'
  <2> DEFINE c == claim[l]
  <2>1. /\ c \in Sid /\ registry' = registry \cup {c} /\ thread' = [thread EXCEPT ![<<c, l>>] = "secret"]
        /\ claim' = [claim EXCEPT ![l] = Closed] /\ UNCHANGED raced
    BY <1>0, <1>3 DEF StartThread
  <2>2. \A s \in Sid, k \in Lane : thread'[<<s, k>>] = IF s = c /\ k = l THEN "secret" ELSE thread[<<s, k>>]
    BY <1>0, <2>1
  <2>3. \A s \in Sid, k \in Lane : claim'[k] = s => claim[k] = s /\ k # l
    BY <1>0, <2>1, RelaySidAssumption DEF Closed
  <2>4. ASSUME NEW s \in registry'
        PROVE  Running(s)'
    BY <1>0, <2>1, <2>2, <2>4 DEF Running
  <2>5. ASSUME NEW s \in Sid \ raced
        PROVE  SessionInv(s)'
    <3>1. SessionInv(s)
      BY <1>0
    <3>2. CASE s # c
      BY <2>1, <2>2, <2>3, <3>1, <3>2 DEF SessionInv
    <3>3. CASE s = c
      <4>1. \A k \in Lane : thread'[<<s, k>>] # "none" => k = l
        BY <2>2, <3>1, <3>3 DEF SessionInv
      <4>2. \A k \in Lane : claim'[k] # s
        BY <2>3, <3>1, <3>3 DEF SessionInv
      <4> QED
        BY <2>1, <3>3, <4>1, <4>2 DEF SessionInv
    <3> QED
      BY <3>2, <3>3
  <2> QED
    BY <2>1, <2>4, <2>5
<1>4. ASSUME NEW t \in Sid \X Lane, Advance(t) \/ Fail(t) \/ Reject(t) \/ Hangup(t)
      PROVE  (\A s \in registry : Running(s))' /\ (\A s \in Sid \ raced : SessionInv(s))'
  <2>1. /\ \E to \in Threads \ {"none"} : thread' = [thread EXCEPT ![t] = to]
        /\ thread[t] # "none" /\ UNCHANGED <<registry, claim, raced>>
    BY <1>4 DEF Advance, Fail, Reject, Hangup, Rest, Moves, Threads
  <2>2. \A s \in Sid, k \in Lane : thread'[<<s, k>>] = "none" <=> thread[<<s, k>>] = "none"
    BY <1>0, <2>1
  <2>3. ASSUME NEW s \in registry
        PROVE  Running(s)'
    BY <1>0, <2>2, <2>3 DEF Running
  <2>4. ASSUME NEW s \in Sid \ raced
        PROVE  SessionInv(s)'
    BY <1>0, <2>1, <2>2, <2>4 DEF SessionInv
  <2> QED
    BY <2>1, <2>3, <2>4
<1>5. ASSUME NEW t \in Sid \X Lane, Discard(t)
      PROVE  (\A s \in registry : Running(s))' /\ (\A s \in Sid \ raced : SessionInv(s))'
  <2> PICK c \in Sid, l \in Lane : t = <<c, l>>
    OBVIOUS
  <2>1. /\ thread[<<c, l>>] # "none" /\ thread' = [thread EXCEPT ![<<c, l>>] = "none"]
        /\ registry' = registry \ {c} /\ UNCHANGED <<claim, raced>>
    BY <1>5 DEF Discard, Moves
  <2>2. \A s \in Sid, k \in Lane : thread'[<<s, k>>] = IF s = c /\ k = l THEN "none" ELSE thread[<<s, k>>]
    BY <1>0, <2>1
  <2>3. ASSUME NEW s \in registry'
        PROVE  Running(s)'
    <3>1. s \in Sid /\ s # c /\ Running(s)
      BY <1>0, <2>1, <2>3
    <3> QED
      BY <2>2, <3>1 DEF Running
  <2>4. ASSUME NEW s \in Sid \ raced
        PROVE  SessionInv(s)'
    <3>1. SessionInv(s)
      BY <1>0
    <3>2. CASE s # c
      BY <2>1, <2>2, <3>1, <3>2 DEF SessionInv
    <3>3. CASE s = c
      <4>1. \A k \in Lane : thread'[<<s, k>>] = "none"
        BY <2>1, <2>2, <3>1, <3>3 DEF SessionInv
      <4> QED
        BY <2>1, <3>1, <4>1 DEF SessionInv
    <3> QED
      BY <3>2, <3>3
  <2> QED
    BY <2>1, <2>3, <2>4
<1> QED
  BY <1>1, <1>2, <1>3, <1>4, <1>5 DEF RelayNext, Dial, Connected, Rejected, LaneFails, ClosedByRelay, Settings,
                                      relayVars

LEMMA RelaySpecInv == RelaySpec => []RelayInv
<1>1. RelayInv /\ [RelayNext]_relayVars => RelayInv'
  <2> SUFFICES ASSUME RelayInv, [RelayNext]_relayVars
               PROVE  RelayInv'
    OBVIOUS
  <2>1. RelayTypeOK' /\ \A l \in Lane : lane'[l] = "claimed" => claim'[l] \in Sid
    BY RelayTypeStep DEF RelayInv
  <2>2. (\A s \in registry : Running(s))' /\ (\A s \in Sid \ raced : SessionInv(s))'
    BY SessionStep
  <2> QED
    BY <2>1, <2>2 DEF RelayInv
<1> QED
  BY <1>1, RelayInitInv, PTL DEF RelaySpec

(* The lanes, the list and the threads of the sessions keep their types.   *)
THEOREM SpecRelayTypeOK == RelaySpec => []RelayTypeOK
<1>1. RelayInv => RelayTypeOK
  BY DEF RelayInv
<1> QED
  BY <1>1, RelaySpecInv, PTL

(* An entry of the list is that of a thread that runs; a session that no   *)
(* two lanes looked up at one time has one thread, which is on the list.   *)
THEOREM SpecListedWhileRunning == RelaySpec => []ListedWhileRunning
<1>1. ASSUME RelayInv
      PROVE  ListedWhileRunning
  <2>1. \A s \in Sid \ raced : Running(s) => s \in registry
    BY <1>1 DEF RelayInv, SessionInv, Running
  <2> QED
    BY <1>1, <2>1 DEF RelayInv, SessionInv, ListedWhileRunning
<1> QED
  BY <1>1, RelaySpecInv, PTL

-----------------------------------------------------------------------------
(* The vault.                                                              *)

Salt == 1 .. MaxSalts + 1
RelayStates == {"none", "on", "off"}
Vaults == [salt : Salt, key : Key] \cup {NoVault, Torn}

VaultTypes ==
    /\ vault \in Vaults /\ localKey \in LocalKey /\ relayState \in RelayStates
    /\ key \in [Process -> Key \cup {NoKey}]
    /\ op \in [Process -> Op] /\ do \in [Process -> Do]
    /\ got \in [Process -> LocalKey \cup RelayStates]
    /\ envelope \in [Process -> Salt \cup {0}]
    /\ value \in [Process -> {"on", "off", "keep"}]
    /\ salts \in 0 .. MaxSalts + 1 /\ updates \in 0 .. MaxUpdates /\ kills \in 0 .. MaxKills
    /\ stale \in [Process -> BOOLEAN] /\ behind \in [Process -> BOOLEAN]
    /\ crossed \in BOOLEAN /\ twoKeys \in BOOLEAN /\ disabled \in BOOLEAN /\ lost \in BOOLEAN

\* What a process has read when its next step needs it.
HasRead(p) ==
    /\ do[p] \in {"write", "reread"} => got[p] \in Process
    /\ do[p] \in {"truncate", "put"} => got[p] \in RelayStates
    /\ do[p] = "back" => envelope[p] \in Salt /\ key[p] # NoKey

\* The key of a process that is not stale is the local key with the salt of the
\* vault, also while the file is torn.
Fresh(p) == key[p] # NoKey /\ ~stale[p]
Current(p) ==
    /\ localKey \in Process /\ key[p].secret = localKey
    /\ vault # Torn => vault.key = key[p] /\ vault.salt = key[p].salt

OpensInv ==
    crossed \/ twoKeys \/
      /\ \A p \in Process : Fresh(p) => Current(p)
      /\ \A p, q \in Process : Fresh(p) /\ Fresh(q) => key[p] = key[q]
      /\ \A p \in Process : do[p] = "back" /\ ~stale[p] => envelope[p] = key[p].salt
      /\ \A p \in Process : do[p] \in {"write", "reread"} => got[p] = localKey
      /\ vault \notin {NoVault, Torn} => Readable(localKey) \/ Readable("passphrase")

\* A disabled state says so whenever nobody is writing it, and every update that
\* is not behind knows it.
Knows(p) ==
    /\ do[p] \in {"truncate", "put"} /\ value[p] = "keep" => got[p] = "off"
    /\ do[p] \in {"state", "truncate", "put"} /\ op[p] \in Opening => value[p] # "on"

DisabledInv ==
    disabled /\ ~lost =>
      /\ relayState = "off" \/ \E q \in Process : do[q] = "put"
      /\ \A p \in Process : ~behind[p] => Knows(p)

VaultInv == VaultTypes /\ (\A p \in Process : HasRead(p)) /\ OpensInv /\ DisabledInv

LEMMA VaultCases ==
    ASSUME NEW v \in Vaults
    PROVE  /\ v.salt \in Nat /\ v = [salt |-> v.salt, key |-> v.key]
           /\ v.salt > 0 => v.salt \in Salt /\ v.key \in Key
           /\ v \notin {NoVault, Torn} => v.salt > 0
<1>0. MaxSalts \in Nat
  BY VaultAssumption
<1>1. CASE v \in [salt : Salt, key : Key]
  <2>1. v.salt \in Salt /\ v.key \in Key /\ v = [salt |-> v.salt, key |-> v.key]
    BY <1>1
  <2> QED
    BY <1>0, <2>1 DEF Salt
<1>2. CASE v = NoVault
  BY <1>2 DEF NoVault
<1>3. CASE v = Torn
  BY <1>3 DEF Torn
<1> QED
  BY <1>1, <1>2, <1>3 DEF Vaults

LEMMA KeyFacts ==
    /\ NoKey \notin Key /\ NoKey \in Key \cup {NoKey} /\ "none" \notin Process /\ "passphrase" \notin Process
    /\ \A k \in Key : k.secret \in Process \cup {"passphrase"} /\ k.salt \in Salt /\ k = [secret |-> k.secret, salt |-> k.salt]
    /\ \A s \in Process \cup {"passphrase"}, n \in Salt : Derived(s, n) \in Key
    /\ \A s, n : Derived(s, n).secret = s /\ Derived(s, n).salt = n
<1>1. MaxSalts \in Nat /\ "none" \notin Process /\ "passphrase" \notin Process
  BY VaultAssumption
<1>2. NoKey \notin Key
  BY <1>1 DEF NoKey, Key
<1>3. \A k \in Key : k.secret \in Process \cup {"passphrase"} /\ k.salt \in Salt /\ k = [secret |-> k.secret, salt |-> k.salt]
  BY DEF Key, Salt
<1> QED
  BY <1>1, <1>2, <1>3 DEF Derived, Key, Salt

LEMMA VaultInitInv == ASSUME VaultInit PROVE VaultInv
<1>0. /\ key = [p \in Process |-> NoKey]
      /\ op = [p \in Process |-> "open"] /\ do = [p \in Process |-> "idle"]
      /\ got = [p \in Process |-> "none"] /\ envelope = [p \in Process |-> 0] /\ value = [p \in Process |-> "keep"]
      /\ updates = 0 /\ kills = 0
      /\ stale = [p \in Process |-> FALSE] /\ behind = [p \in Process |-> FALSE]
      /\ crossed = FALSE /\ twoKeys = FALSE /\ disabled = (relayState = "off") /\ lost = FALSE
      /\ MaxSalts \in Nat /\ MaxUpdates \in Nat /\ MaxKills \in Nat
  BY VaultAssumption DEF VaultInit
<1>1. \/ vault = NoVault /\ localKey = "none" /\ relayState = "none" /\ salts = 0
      \/ /\ \/ localKey \in Process /\ vault = [salt |-> 1, key |-> Derived(localKey, 1)]
            \/ localKey = "none" /\ vault = [salt |-> 1, key |-> Derived("passphrase", 1)]
         /\ relayState \in {"on", "off"} /\ salts = 1
  BY DEF VaultInit
<1>2. vault \in Vaults
  <2>1. \A s \in Process \cup {"passphrase"} : [salt |-> 1, key |-> Derived(s, 1)] \in [salt : Salt, key : Key]
    BY <1>0, KeyFacts DEF Salt
  <2> QED
    BY <1>1, <2>1 DEF Vaults
<1>3. localKey \in LocalKey /\ relayState \in RelayStates /\ salts \in 0 .. MaxSalts + 1
  BY <1>0, <1>1 DEF LocalKey, RelayStates
<1>4. VaultTypes
  <2>1. /\ op \in [Process -> Op] /\ do \in [Process -> Do] /\ got \in [Process -> LocalKey \cup RelayStates]
        /\ envelope \in [Process -> Salt \cup {0}] /\ value \in [Process -> {"on", "off", "keep"}]
    BY <1>0 DEF Op, Opening, Do, LocalKey
  <2>2. /\ key \in [Process -> Key \cup {NoKey}]
        /\ stale \in [Process -> BOOLEAN] /\ behind \in [Process -> BOOLEAN]
    BY <1>0
  <2>3. crossed \in BOOLEAN /\ twoKeys \in BOOLEAN /\ disabled \in BOOLEAN /\ lost \in BOOLEAN
    BY <1>0
  <2>4. updates \in 0 .. MaxUpdates /\ kills \in 0 .. MaxKills
    BY <1>0
  <2> QED
    BY <1>2, <1>3, <2>1, <2>2, <2>3, <2>4 DEF VaultTypes
<1>5. \A p \in Process : do[p] = "idle" /\ key[p] = NoKey
  BY <1>0
<1>6. \A p \in Process : HasRead(p)
  BY <1>5 DEF HasRead
<1>7. OpensInv
  BY <1>1, <1>5 DEF OpensInv, Fresh, Readable
<1>8. DisabledInv
  BY <1>0, <1>5 DEF DisabledInv, Knows
<1> QED
  BY <1>4, <1>6, <1>7, <1>8 DEF VaultInv

\* One operation of a process, or its end.
VaultStep(p) ==
    \/ OpenLocal(p) \/ Migrate(p) \/ Rotate(p) \/ FindKey(p) \/ CreateKey(p) \/ WriteVault(p) \/ Reread(p)
    \/ \E overwrite \in BOOLEAN : Setup(p, overwrite)
    \/ Persist(p) \/ ReadEnvelope(p) \/ WriteBack(p)
    \/ \E v \in {"on", "off", "keep"} : Update(p, v)
    \/ Configure(p) \/ Missing(p) \/ ReadRelayState(p) \/ Truncate(p) \/ PutRelayState(p)
    \/ Kill(p)

LEMMA VaultTypesStep ==
    ASSUME VaultTypes, \A q \in Process : HasRead(q), NEW p \in Process, VaultStep(p)
    PROVE  VaultTypes' /\ \A q \in Process : HasRead(q)'
<1>0. /\ vault \in Vaults /\ localKey \in LocalKey /\ relayState \in RelayStates
      /\ key \in [Process -> Key \cup {NoKey}]
      /\ op \in [Process -> Op] /\ do \in [Process -> Do]
      /\ got \in [Process -> LocalKey \cup RelayStates]
      /\ envelope \in [Process -> Salt \cup {0}]
      /\ value \in [Process -> {"on", "off", "keep"}]
      /\ salts \in 0 .. MaxSalts + 1 /\ updates \in 0 .. MaxUpdates /\ kills \in 0 .. MaxKills
      /\ stale \in [Process -> BOOLEAN] /\ behind \in [Process -> BOOLEAN]
      /\ crossed \in BOOLEAN /\ twoKeys \in BOOLEAN /\ disabled \in BOOLEAN /\ lost \in BOOLEAN
      /\ MaxSalts \in Nat /\ MaxUpdates \in Nat /\ MaxKills \in Nat
  BY VaultAssumption DEF VaultTypes
<1>h. \A q \in Process : /\ do[q] \in {"write", "reread"} => got[q] \in Process
                         /\ do[q] \in {"truncate", "put"} => got[q] \in RelayStates
                         /\ do[q] = "back" => envelope[q] \in Salt /\ key[q] # NoKey
  BY DEF HasRead
<1> USE DEF vaultFiles, vaultHistory, vaultBounds, Goto, Gets, Undertake, Finish
<1>d. Op = {"open", "reopen", "setup", "rotate", "configure", "target", "update", "set"}
  BY DEF Op, Opening
<1>f. ASSUME Finish(p), UNCHANGED key \/ key' = [key EXCEPT ![p] = vault.key] \/ key' = [key EXCEPT ![p] = NoKey],
             vault.key \in Key \/ UNCHANGED key \/ key' = [key EXCEPT ![p] = NoKey]
      PROVE  /\ op' \in [Process -> Op] /\ do' \in [Process -> Do] /\ got' \in [Process -> LocalKey \cup RelayStates]
             /\ envelope' \in [Process -> Salt \cup {0}] /\ value' \in [Process -> {"on", "off", "keep"}]
             /\ key' \in [Process -> Key \cup {NoKey}]
             /\ \A q \in Process : HasRead(q)'
  <2>1. /\ do' = [do EXCEPT ![p] = "idle"] /\ got' = [got EXCEPT ![p] = "none"] /\ op' = [op EXCEPT ![p] = "open"]
        /\ envelope' = [envelope EXCEPT ![p] = 0] /\ value' = [value EXCEPT ![p] = "keep"]
    BY <1>f
  <2>2. \A q \in Process : q # p => do'[q] = do[q] /\ got'[q] = got[q] /\ envelope'[q] = envelope[q] /\ key'[q] = key[q]
    BY <1>0, <1>f, <2>1
  <2>3. do'[p] = "idle"
    BY <1>0, <2>1
  <2>4. \A q \in Process : HasRead(q)'
    BY <1>h, <2>2, <2>3 DEF HasRead
  <2>5. key' \in [Process -> Key \cup {NoKey}]
    BY <1>0, <1>f
  <2>6. op' \in [Process -> Op] /\ do' \in [Process -> Do] /\ got' \in [Process -> LocalKey \cup RelayStates]
    BY <1>0, <1>d, <2>1 DEF Do, LocalKey
  <2> QED
    BY <1>0, <2>1, <2>4, <2>5, <2>6
<1>g. ASSUME NEW next \in Do \ {"write", "reread", "truncate", "put", "back"}, Goto(p, next), UNCHANGED got,
             UNCHANGED envelope,
             UNCHANGED key \/ key' = [key EXCEPT ![p] = vault.key], vault.key \in Key \/ UNCHANGED key
      PROVE  /\ do' \in [Process -> Do] /\ key' \in [Process -> Key \cup {NoKey}]
             /\ \A q \in Process : HasRead(q)'
  <2>1. do' = [do EXCEPT ![p] = next]
    BY <1>g
  <2>2. \A q \in Process : q # p => do'[q] = do[q] /\ got'[q] = got[q] /\ envelope'[q] = envelope[q] /\ key'[q] = key[q]
    BY <1>0, <1>g, <2>1
  <2>3. do'[p] = next
    BY <1>0, <2>1
  <2>4. \A q \in Process : HasRead(q)'
    BY <1>h, <2>2, <2>3 DEF HasRead
  <2> QED
    BY <1>0, <1>g, <2>1, <2>4
<1>o. ASSUME NEW x \in Op, op' = [op EXCEPT ![p] = x] \/ UNCHANGED op
      PROVE  op' \in [Process -> Op]
  BY <1>0, <1>o
<1>1. CASE OpenLocal(p)
  <2>1. vault.key \in Key
    BY <1>0, <1>1, VaultCases DEF OpenLocal, Readable
  <2>2. /\ \E what \in {"open", "reopen"} : op' = [op EXCEPT ![p] = what]
        /\ Goto(p, "missing") /\ key' = [key EXCEPT ![p] = vault.key] /\ stale' = [stale EXCEPT ![p] = FALSE]
        /\ UNCHANGED <<vaultFiles, got, envelope, value, vaultBounds, behind, crossed, twoKeys, disabled, lost>>
    BY <1>1 DEF OpenLocal
  <2>3. "missing" \in Do \ {"write", "reread", "truncate", "put", "back"}
    BY DEF Do
  <2>4. do' \in [Process -> Do] /\ key' \in [Process -> Key \cup {NoKey}] /\ \A q \in Process : HasRead(q)'
    BY <1>g, <2>1, <2>2, <2>3
  <2>5. op' \in [Process -> Op]
    BY <1>d, <1>o, <2>2
  <2> QED
    BY <1>0, <2>2, <2>4, <2>5 DEF VaultTypes
<1>2. CASE Migrate(p) \/ Rotate(p) \/ (\E overwrite \in BOOLEAN : Setup(p, overwrite)) \/ Persist(p)
  <2>1. /\ \E x \in Op : op' = [op EXCEPT ![p] = x]
        /\ \E next \in {"key", "envelope"} : Goto(p, next)
        /\ UNCHANGED <<vaultFiles, key, got, envelope, value, vaultBounds, vaultHistory>>
    BY <1>2, <1>d DEF Migrate, Rotate, Setup, Persist
  <2>2. {"key", "envelope"} \subseteq Do \ {"write", "reread", "truncate", "put", "back"}
    BY DEF Do
  <2>3. do' \in [Process -> Do] /\ key' \in [Process -> Key \cup {NoKey}] /\ \A q \in Process : HasRead(q)'
    BY <1>g, <2>1, <2>2
  <2>4. op' \in [Process -> Op]
    BY <1>o, <2>1
  <2> QED
    BY <1>0, <2>1, <2>3, <2>4 DEF VaultTypes
<1>3. CASE FindKey(p)
  <2>0. /\ do[p] = "key" /\ UNCHANGED <<vaultFiles, key, op, envelope, value, vaultBounds, vaultHistory>>
        /\ IF localKey # "none" THEN Gets(p, localKey) /\ Goto(p, "write") ELSE UNCHANGED got /\ Goto(p, "create")
    BY <1>3 DEF FindKey
  <2>1. CASE localKey = "none"
    <3>1. "create" \in Do \ {"write", "reread", "truncate", "put", "back"}
      BY DEF Do
    <3>2. do' \in [Process -> Do] /\ \A q \in Process : HasRead(q)'
      BY <1>g, <2>0, <2>1, <3>1
    <3> QED
      BY <1>0, <2>0, <2>1, <3>2 DEF VaultTypes
  <2>2. CASE localKey # "none"
    <3>1. localKey \in Process /\ got' = [got EXCEPT ![p] = localKey] /\ do' = [do EXCEPT ![p] = "write"]
      BY <1>0, <2>0, <2>2 DEF LocalKey
    <3>2. \A q \in Process : q # p => do'[q] = do[q] /\ got'[q] = got[q] /\ envelope'[q] = envelope[q] /\ key'[q] = key[q]
      BY <1>0, <2>0, <3>1
    <3>3. do'[p] = "write" /\ got'[p] = localKey
      BY <1>0, <3>1
    <3>4. \A q \in Process : HasRead(q)'
      BY <1>h, <3>1, <3>2, <3>3 DEF HasRead
    <3>5. do' \in [Process -> Do] /\ got' \in [Process -> LocalKey \cup RelayStates]
      BY <1>0, <3>1 DEF Do
    <3> QED
      BY <1>0, <2>0, <3>4, <3>5 DEF VaultTypes
  <2> QED
    BY <2>1, <2>2
<1>4. CASE CreateKey(p)
  <2>1. /\ do' = [do EXCEPT ![p] = "write"] /\ localKey' = p /\ got' = [got EXCEPT ![p] = p]
        /\ twoKeys' = (twoKeys \/ localKey # "none")
        /\ UNCHANGED <<vault, relayState, key, op, envelope, value, vaultBounds, stale, behind, crossed, disabled, lost>>
    BY <1>4 DEF CreateKey
  <2>2. \A q \in Process : q # p => do'[q] = do[q] /\ got'[q] = got[q] /\ envelope'[q] = envelope[q] /\ key'[q] = key[q]
    BY <1>0, <2>1
  <2>3. do'[p] = "write" /\ got'[p] = p
    BY <1>0, <2>1
  <2>4. \A q \in Process : HasRead(q)'
    BY <1>h, <2>2, <2>3 DEF HasRead
  <2>5. /\ do' \in [Process -> Do] /\ got' \in [Process -> LocalKey \cup RelayStates]
        /\ localKey' \in LocalKey
    BY <1>0, <2>1 DEF Do, LocalKey
  <2>6. twoKeys' \in BOOLEAN
    BY <2>1
  <2> QED
    BY <1>0, <2>1, <2>4, <2>5, <2>6 DEF VaultTypes
<1>5. CASE WriteVault(p)
  <2>1. /\ do[p] = "write" /\ do' = [do EXCEPT ![p] = "reread"] /\ salts <= MaxSalts /\ salts' = salts + 1
        /\ vault' = [salt |-> salts + 1, key |-> Derived(got[p], salts + 1)] /\ stale' = [q \in Process |-> TRUE]
        /\ UNCHANGED <<localKey, relayState, key, op, got, envelope, value, updates, kills,
                       behind, crossed, twoKeys, disabled, lost>>
    BY <1>5 DEF WriteVault
  <2>2. salts' \in Salt /\ salts' \in 0 .. MaxSalts + 1
    BY <1>0, <2>1 DEF Salt
  <2>3. got[p] \in Process
    BY <1>h, <2>1
  <2>4. vault' \in Vaults
    BY <2>1, <2>2, <2>3, KeyFacts DEF Vaults
  <2>5. \A q \in Process : q # p => do'[q] = do[q]
    BY <1>0, <2>1
  <2>6. do'[p] = "reread"
    BY <1>0, <2>1
  <2>7. \A q \in Process : HasRead(q)'
    BY <1>h, <2>1, <2>3, <2>5, <2>6 DEF HasRead
  <2>8. do' \in [Process -> Do]
    BY <1>0, <2>1 DEF Do
  <2> QED
    BY <1>0, <2>1, <2>2, <2>4, <2>7, <2>8 DEF VaultTypes
<1>6. CASE Reread(p)
  <2> DEFINE secret == IF op[p] = "setup" THEN localKey ELSE got[p]
  <2>0. UNCHANGED <<vaultFiles, vaultBounds, behind, crossed, twoKeys, disabled, lost>>
    BY <1>6 DEF Reread
  <2>1. CASE Readable(secret)
    <3>1. vault.key \in Key
      BY <1>0, <2>1, VaultCases DEF Readable
    <3>2. /\ key' = [key EXCEPT ![p] = vault.key] /\ stale' = [stale EXCEPT ![p] = FALSE]
          /\ \/ Goto(p, "missing") /\ UNCHANGED <<op, got, envelope, value>>
             \/ Finish(p)
      BY <1>6, <2>1 DEF Reread, NewKey
    <3>3. CASE Finish(p)
      <4>1. /\ op' \in [Process -> Op] /\ do' \in [Process -> Do] /\ got' \in [Process -> LocalKey \cup RelayStates]
            /\ envelope' \in [Process -> Salt \cup {0}] /\ value' \in [Process -> {"on", "off", "keep"}]
            /\ key' \in [Process -> Key \cup {NoKey}]
            /\ \A q \in Process : HasRead(q)'
        BY <1>f, <3>1, <3>2, <3>3
      <4> QED
        BY <1>0, <2>0, <3>2, <4>1 DEF VaultTypes
    <3>4. CASE Goto(p, "missing") /\ UNCHANGED <<op, got, envelope, value>>
      <4>1. "missing" \in Do \ {"write", "reread", "truncate", "put", "back"}
        BY DEF Do
      <4>2. do' \in [Process -> Do] /\ key' \in [Process -> Key \cup {NoKey}] /\ \A q \in Process : HasRead(q)'
        BY <1>g, <3>1, <3>2, <3>4, <4>1
      <4> QED
        BY <1>0, <2>0, <3>2, <3>4, <4>2 DEF VaultTypes
    <3> QED
      BY <3>2, <3>3, <3>4
  <2>2. CASE ~Readable(secret)
    <3>1. Finish(p) /\ UNCHANGED <<key, stale>>
      BY <1>6, <2>2 DEF Reread
    <3>2. /\ op' \in [Process -> Op] /\ do' \in [Process -> Do] /\ got' \in [Process -> LocalKey \cup RelayStates]
          /\ envelope' \in [Process -> Salt \cup {0}] /\ value' \in [Process -> {"on", "off", "keep"}]
          /\ \A q \in Process : HasRead(q)'
      BY <1>f, <3>1
    <3> QED
      BY <1>0, <2>0, <3>1, <3>2 DEF VaultTypes
  <2> QED
    BY <2>1, <2>2
<1>7. CASE ReadEnvelope(p)
  <2>0. UNCHANGED <<vaultFiles, key, vaultBounds, vaultHistory>>
    BY <1>7 DEF ReadEnvelope
  <2>1. CASE key[p] # NoKey /\ vault.salt > 0
    <3>1. /\ envelope' = [envelope EXCEPT ![p] = vault.salt] /\ do' = [do EXCEPT ![p] = "back"]
          /\ UNCHANGED <<op, got, value>>
      BY <1>7, <2>1 DEF ReadEnvelope
    <3>2. vault.salt \in Salt
      BY <1>0, <2>1, VaultCases
    <3>3. \A q \in Process : q # p => do'[q] = do[q] /\ envelope'[q] = envelope[q]
      BY <1>0, <3>1
    <3>4. do'[p] = "back" /\ envelope'[p] = vault.salt
      BY <1>0, <3>1
    <3>5. \A q \in Process : HasRead(q)'
      BY <1>h, <2>0, <2>1, <3>1, <3>2, <3>3, <3>4 DEF HasRead
    <3>6. do' \in [Process -> Do] /\ envelope' \in [Process -> Salt \cup {0}]
      BY <1>0, <3>1, <3>2 DEF Do
    <3> QED
      BY <1>0, <2>0, <3>1, <3>5, <3>6 DEF VaultTypes
  <2>2. CASE ~(key[p] # NoKey /\ vault.salt > 0)
    <3>1. Finish(p)
      BY <1>7, <2>2 DEF ReadEnvelope
    <3>2. /\ op' \in [Process -> Op] /\ do' \in [Process -> Do] /\ got' \in [Process -> LocalKey \cup RelayStates]
          /\ envelope' \in [Process -> Salt \cup {0}] /\ value' \in [Process -> {"on", "off", "keep"}]
          /\ \A q \in Process : HasRead(q)'
      BY <1>f, <2>0, <3>1
    <3> QED
      BY <1>0, <2>0, <3>2 DEF VaultTypes
  <2> QED
    BY <2>1, <2>2
<1>8. CASE WriteBack(p)
  <2>0. /\ do[p] = "back" /\ vault' = [salt |-> envelope[p], key |-> key[p]] /\ crossed' = (crossed \/ stale[p])
        /\ Afterwards(p)
        /\ UNCHANGED <<localKey, relayState, key, vaultBounds, stale, behind, twoKeys, disabled, lost>>
    BY <1>8 DEF WriteBack
  <2>1. vault' \in Vaults
    BY <1>0, <1>h, <2>0 DEF Vaults
  <2>2. crossed' \in BOOLEAN
    BY <2>0
  <2>3. /\ op' \in [Process -> Op] /\ do' \in [Process -> Do] /\ got' \in [Process -> LocalKey \cup RelayStates]
        /\ envelope' \in [Process -> Salt \cup {0}] /\ value' \in [Process -> {"on", "off", "keep"}]
        /\ \A q \in Process : HasRead(q)'
    <3>1. CASE op[p] \in {"reopen", "setup"}
      <4>1. /\ op' = [op EXCEPT ![p] = IF op[p] = "setup" THEN "set" ELSE "configure"]
            /\ value' = [value EXCEPT ![p] = "on"] /\ Goto(p, "state") /\ UNCHANGED <<got, envelope>>
        BY <2>0, <3>1 DEF Afterwards
      <4>2. "state" \in Do \ {"write", "reread", "truncate", "put", "back"}
        BY DEF Do
      <4>3. do' \in [Process -> Do] /\ \A q \in Process : HasRead(q)'
        BY <1>g, <2>0, <4>1, <4>2
      <4>4. op' \in [Process -> Op]
        BY <1>d, <1>o, <4>1
      <4>5. value' \in [Process -> {"on", "off", "keep"}]
        BY <1>0, <4>1
      <4> QED
        BY <1>0, <4>1, <4>3, <4>4, <4>5
    <3>2. CASE op[p] \notin {"reopen", "setup"}
      BY <1>f, <2>0, <3>2 DEF Afterwards
    <3> QED
      BY <3>1, <3>2
  <2> QED
    BY <1>0, <2>0, <2>1, <2>2, <2>3 DEF VaultTypes
<1>9. CASE (\E v \in {"on", "off", "keep"} : Update(p, v)) \/ Configure(p)
  <2>1. /\ \E x \in Op : op' = [op EXCEPT ![p] = x]
        /\ \E v \in {"on", "off", "keep"} : value' = [value EXCEPT ![p] = v]
        /\ Goto(p, "state") /\ updates < MaxUpdates /\ updates' = updates + 1
        /\ UNCHANGED <<vaultFiles, key, got, envelope, salts, kills, vaultHistory>>
    BY <1>9, <1>d DEF Update, Configure
  <2>2. "state" \in Do \ {"write", "reread", "truncate", "put", "back"}
    BY DEF Do
  <2>3. do' \in [Process -> Do] /\ \A q \in Process : HasRead(q)'
    BY <1>g, <2>1, <2>2
  <2>4. op' \in [Process -> Op] /\ value' \in [Process -> {"on", "off", "keep"}] /\ updates' \in 0 .. MaxUpdates
    BY <1>0, <1>o, <2>1
  <2> QED
    BY <1>0, <2>1, <2>3, <2>4 DEF VaultTypes
<1>10. CASE Missing(p)
  <2>1. /\ \E next \in {"state", "envelope"} : Goto(p, next)
        /\ UNCHANGED value \/ \E v \in {"on", "off", "keep"} : value' = [value EXCEPT ![p] = v]
        /\ UNCHANGED behind \/ behind' = [behind EXCEPT ![p] = BeingPut(p)]
        /\ UNCHANGED <<vaultFiles, key, op, got, envelope, vaultBounds, stale, crossed, twoKeys, disabled, lost>>
    BY <1>10 DEF Missing
  <2>2. {"state", "envelope"} \subseteq Do \ {"write", "reread", "truncate", "put", "back"} /\ BeingPut(p) \in BOOLEAN
    BY DEF Do, BeingPut
  <2>3. do' \in [Process -> Do] /\ \A q \in Process : HasRead(q)'
    BY <1>g, <2>1, <2>2
  <2>4. value' \in [Process -> {"on", "off", "keep"}] /\ behind' \in [Process -> BOOLEAN]
    BY <1>0, <2>1, <2>2
  <2> QED
    BY <1>0, <2>1, <2>3, <2>4 DEF VaultTypes
<1>11. CASE ReadRelayState(p)
  <2> DEFINE late == BeingPut(p) \/ (op[p] \in Opening /\ behind[p])
  <2>1. /\ do' = [do EXCEPT ![p] = "truncate"] /\ got' = [got EXCEPT ![p] = relayState]
        /\ behind' = [behind EXCEPT ![p] = late]
        /\ UNCHANGED <<vaultFiles, key, op, envelope, value, vaultBounds, stale, crossed, twoKeys, disabled, lost>>
    BY <1>0, <1>11 DEF ReadRelayState
  <2>2. late \in BOOLEAN
    OBVIOUS
  <2> HIDE DEF late
  <2>3. \A q \in Process : q # p => do'[q] = do[q] /\ got'[q] = got[q]
    BY <1>0, <2>1
  <2>4. do'[p] = "truncate" /\ got'[p] = relayState
    BY <1>0, <2>1
  <2>5. \A q \in Process : HasRead(q)'
    BY <1>0, <1>h, <2>1, <2>3, <2>4 DEF HasRead
  <2>6. do' \in [Process -> Do] /\ got' \in [Process -> LocalKey \cup RelayStates] /\ behind' \in [Process -> BOOLEAN]
    BY <1>0, <2>1, <2>2 DEF Do
  <2> QED
    BY <1>0, <2>1, <2>5, <2>6 DEF VaultTypes
<1>b. FallBehind(p) \in [Process -> BOOLEAN]
  BY DEF FallBehind
<1>12. CASE Truncate(p)
  <2>1. /\ do[p] = "truncate" /\ do' = [do EXCEPT ![p] = "put"] /\ relayState' = "none" /\ behind' = FallBehind(p)
        /\ UNCHANGED <<vault, localKey, key, op, got, envelope, value, vaultBounds, stale, crossed, twoKeys, disabled, lost>>
    BY <1>12 DEF Truncate
  <2>2. \A q \in Process : q # p => do'[q] = do[q]
    BY <1>0, <2>1
  <2>3. do'[p] = "put"
    BY <1>0, <2>1
  <2>4. \A q \in Process : HasRead(q)'
    BY <1>h, <2>1, <2>2, <2>3 DEF HasRead
  <2>5. do' \in [Process -> Do] /\ relayState' \in RelayStates
    BY <1>0, <2>1 DEF Do, RelayStates
  <2> QED
    BY <1>0, <1>b, <2>1, <2>4, <2>5 DEF VaultTypes
<1>13. CASE PutRelayState(p)
  <2>1. /\ do[p] = "put" /\ AfterPut(p) /\ relayState' = Merged(p)
        /\ behind' = [FallBehind(p) EXCEPT ![p] = FALSE]
        /\ disabled' = IF ByTheFile(p) THEN disabled ELSE value[p] = "off"
        /\ lost' = (lost \/ (ByTheFile(p) /\ behind[p]))
        /\ UNCHANGED <<vault, localKey, key, vaultBounds, stale, crossed, twoKeys>>
    BY <1>13 DEF PutRelayState
  <2>2. relayState' \in RelayStates
    BY <1>0, <1>h, <2>1 DEF Merged, RelayStates
  <2>3. disabled' \in BOOLEAN
    BY <1>0, <2>1
  <2>4. lost' \in BOOLEAN
    BY <2>1
  <2>5. behind' \in [Process -> BOOLEAN]
    BY <1>b, <2>1
  <2>6. /\ op' \in [Process -> Op] /\ do' \in [Process -> Do] /\ got' \in [Process -> LocalKey \cup RelayStates]
        /\ envelope' \in [Process -> Salt \cup {0}] /\ value' \in [Process -> {"on", "off", "keep"}]
        /\ \A q \in Process : HasRead(q)'
    <3>1. CASE Finish(p)
      BY <1>f, <2>1, <3>1
    <3>2. CASE ~Finish(p)
      <4>1. /\ \E next \in {"state", "envelope"} : Goto(p, next)
            /\ UNCHANGED op \/ op' = [op EXCEPT ![p] = "target"]
            /\ UNCHANGED <<got, envelope, value>>
        BY <2>1, <3>2 DEF AfterPut
      <4>2. {"state", "envelope"} \subseteq Do \ {"write", "reread", "truncate", "put", "back"} /\ "target" \in Op
        BY <1>d DEF Do
      <4>3. do' \in [Process -> Do] /\ \A q \in Process : HasRead(q)'
        BY <1>g, <2>1, <4>1, <4>2
      <4>4. op' \in [Process -> Op]
        BY <1>o, <4>1, <4>2
      <4> QED
        BY <1>0, <4>1, <4>3, <4>4
    <3> QED
      BY <3>1, <3>2
  <2> QED
    BY <1>0, <2>1, <2>2, <2>3, <2>4, <2>5, <2>6 DEF VaultTypes
<1>14. CASE Kill(p)
  <2>1. /\ Finish(p) /\ kills < MaxKills /\ kills' = kills + 1 /\ vault' \in {vault, Torn}
        /\ key' = [key EXCEPT ![p] = NoKey] /\ stale' = [stale EXCEPT ![p] = FALSE]
        /\ behind' = [behind EXCEPT ![p] = FALSE] /\ lost' = (lost \/ do[p] = "put")
        /\ UNCHANGED <<localKey, relayState, salts, updates, crossed, twoKeys, disabled>>
    BY <1>14 DEF Kill
  <2>2. /\ op' \in [Process -> Op] /\ do' \in [Process -> Do] /\ got' \in [Process -> LocalKey \cup RelayStates]
        /\ envelope' \in [Process -> Salt \cup {0}] /\ value' \in [Process -> {"on", "off", "keep"}]
        /\ key' \in [Process -> Key \cup {NoKey}]
        /\ \A q \in Process : HasRead(q)'
    BY <1>f, <2>1
  <2>3. vault' \in Vaults /\ kills' \in 0 .. MaxKills
    BY <1>0, <2>1 DEF Vaults
  <2>4. lost' \in BOOLEAN
    BY <2>1
  <2> QED
    BY <1>0, <2>1, <2>2, <2>3, <2>4 DEF VaultTypes
<1> QED
  BY <1>1, <1>2, <1>3, <1>4, <1>5, <1>6, <1>7, <1>8, <1>9, <1>10, <1>11, <1>12, <1>13, <1>14 DEF VaultStep

LEMMA OpensStep ==
    ASSUME VaultTypes, \A q \in Process : HasRead(q), OpensInv, NEW p \in Process, VaultStep(p)
    PROVE  OpensInv'
<1>0. /\ vault \in Vaults /\ localKey \in LocalKey /\ key \in [Process -> Key \cup {NoKey}]
      /\ do \in [Process -> Do] /\ got \in [Process -> LocalKey \cup RelayStates]
      /\ envelope \in [Process -> Salt \cup {0}]
      /\ salts \in Nat /\ stale \in [Process -> BOOLEAN] /\ crossed \in BOOLEAN /\ twoKeys \in BOOLEAN
  BY VaultAssumption DEF VaultTypes
<1>h. \A q \in Process : /\ do[q] \in {"write", "reread"} => got[q] \in Process
                         /\ do[q] = "back" => envelope[q] \in Salt /\ key[q] # NoKey
  BY DEF HasRead
<1> USE DEF vaultFiles, vaultHistory, vaultBounds, Goto, Gets, Undertake, Finish
<1>b. (crossed => crossed') /\ (twoKeys => twoKeys')
  <2>1. CASE WriteBack(p)
    BY <2>1 DEF WriteBack
  <2>2. CASE CreateKey(p)
    BY <2>2 DEF CreateKey
  <2>3. CASE ~WriteBack(p) /\ ~CreateKey(p)
    BY <2>3 DEF VaultStep, OpenLocal, Migrate, Rotate, FindKey, WriteVault, Reread, Setup, Persist, ReadEnvelope,
                Update, Configure, Missing, ReadRelayState, Truncate, PutRelayState, Kill
  <2> QED
    BY <2>1, <2>2, <2>3
<1> SUFFICES ASSUME ~crossed', ~twoKeys'
             PROVE  OpensInv'
  BY DEF OpensInv
<1>i. /\ \A q \in Process : Fresh(q) => Current(q)
      /\ \A q, r \in Process : Fresh(q) /\ Fresh(r) => key[q] = key[r]
      /\ \A q \in Process : do[q] = "back" /\ ~stale[q] => envelope[q] = key[q].salt
      /\ \A q \in Process : do[q] \in {"write", "reread"} => got[q] = localKey
      /\ vault \notin {NoVault, Torn} => Readable(localKey) \/ Readable("passphrase")
  BY <1>b DEF OpensInv
\* A step that leaves the files and the keys alone.
<1>f. ASSUME UNCHANGED <<vault, localKey, key, stale>>,
             \A q \in Process : do'[q] = "back" => do[q] = "back" /\ envelope'[q] = envelope[q],
             \A q \in Process : do'[q] \in {"write", "reread"} => (do[q] = do'[q] /\ got'[q] = got[q])
      PROVE  OpensInv'
  <2>1. \A q \in Process : (Fresh(q)' <=> Fresh(q)) /\ (Current(q)' <=> Current(q))
    BY <1>f DEF Fresh, Current
  <2>2. \A s : Readable(s)' <=> Readable(s)
    BY <1>f DEF Readable
  <2>3. vault' \notin {NoVault, Torn} => Readable(localKey)' \/ Readable("passphrase")'
    BY <1>f, <1>i, <2>2
  <2>4. \A q \in Process : do'[q] = "back" /\ ~stale'[q] => envelope'[q] = key'[q].salt
    BY <1>f, <1>i
  <2>5. \A q \in Process : do'[q] \in {"write", "reread"} => got'[q] = localKey'
    BY <1>f, <1>i
  <2>6. \A q, r \in Process : Fresh(q)' /\ Fresh(r)' => key'[q] = key'[r]
    BY <1>f, <1>i, <2>1
  <2> QED
    BY <1>i, <2>1, <2>3, <2>4, <2>5, <2>6 DEF OpensInv
\* A process reads the key of a vault that opens with the local key.
<1>r. ASSUME key' = [key EXCEPT ![p] = vault.key], stale' = [stale EXCEPT ![p] = FALSE], Readable(localKey),
             UNCHANGED <<vault, localKey>>, do'[p] \notin {"back", "write", "reread"},
             \A q \in Process \ {p} : do'[q] = do[q] /\ got'[q] = got[q] /\ envelope'[q] = envelope[q]
      PROVE  OpensInv'
  <2>1. vault.salt > 0 /\ vault.key = Derived(localKey, vault.salt) /\ vault.key \in Key /\ vault.salt \in Salt
    BY <1>0, <1>r, VaultCases DEF Readable
  <2>2. vault # Torn
    BY <2>1 DEF Torn
  <2>3. vault.key.secret = localKey /\ vault.key.salt = vault.salt /\ localKey \in Process
    BY <1>0, <2>1, KeyFacts DEF LocalKey
  <2>4. \A q \in Process : key'[q] = IF q = p THEN vault.key ELSE key[q]
    BY <1>0, <1>r
  <2>5. \A q \in Process : stale'[q] <=> q # p /\ stale[q]
    BY <1>0, <1>r
  <2>6. \A q \in Process : Fresh(q)' => key'[q] = vault.key
    <3> SUFFICES ASSUME NEW q \in Process, Fresh(q)', q # p
                 PROVE  key'[q] = vault.key
      BY <2>4
    <3>1. Fresh(q)
      BY <2>4, <2>5 DEF Fresh
    <3> QED
      BY <1>i, <2>2, <2>4, <3>1 DEF Current
  <2>7. \A q \in Process : Fresh(q)' => Current(q)'
    BY <1>r, <2>3, <2>6 DEF Current
  <2>8. \A q \in Process : do'[q] = "back" /\ ~stale'[q] => envelope'[q] = key'[q].salt
    BY <1>i, <1>r, <2>4, <2>5
  <2>9. \A q \in Process : do'[q] \in {"write", "reread"} => got'[q] = localKey'
    BY <1>i, <1>r
  <2>10. Readable(localKey)'
    BY <1>r DEF Readable
  <2> QED
    BY <2>6, <2>7, <2>8, <2>9, <2>10 DEF OpensInv
\* A process ends.
<1>e. ASSUME Finish(p), UNCHANGED <<vault, localKey, key, stale>>
      PROVE  OpensInv'
  <2>1. do' = [do EXCEPT ![p] = "idle"] /\ got' = [got EXCEPT ![p] = "none"] /\ envelope' = [envelope EXCEPT ![p] = 0]
    BY <1>e
  <2>2. do'[p] = "idle" /\ \A q \in Process \ {p} : do'[q] = do[q] /\ got'[q] = got[q] /\ envelope'[q] = envelope[q]
    BY <1>0, <2>1
  <2>3. \A q \in Process : do'[q] = "back" => do[q] = "back" /\ envelope'[q] = envelope[q]
    BY <2>2
  <2>4. \A q \in Process : do'[q] \in {"write", "reread"} => do[q] = do'[q] /\ got'[q] = got[q]
    BY <2>2
  <2> QED
    BY <1>e, <1>f, <2>3, <2>4
<1>g. ASSUME NEW next \in {"missing", "key", "create", "envelope", "state", "truncate", "put"}, Goto(p, next),
             got' = got \/ \E x : got' = [got EXCEPT ![p] = x], UNCHANGED <<vault, localKey, key, stale, envelope>>
      PROVE  OpensInv'
  <2>1. do' = [do EXCEPT ![p] = next]
    BY <1>g
  <2>2. do'[p] = next /\ \A q \in Process \ {p} : do'[q] = do[q] /\ got'[q] = got[q]
    BY <1>0, <1>g, <2>1
  <2>3. \A q \in Process : do'[q] = "back" => do[q] = "back" /\ envelope'[q] = envelope[q]
    BY <1>g, <2>2
  <2>4. \A q \in Process : do'[q] \in {"write", "reread"} => do[q] = do'[q] /\ got'[q] = got[q]
    BY <2>2
  <2> QED
    BY <1>f, <1>g, <2>3, <2>4
<1>1. CASE OpenLocal(p)
  <2>1. /\ do' = [do EXCEPT ![p] = "missing"] /\ key' = [key EXCEPT ![p] = vault.key]
        /\ stale' = [stale EXCEPT ![p] = FALSE] /\ Readable(localKey) /\ UNCHANGED <<vault, localKey, got, envelope>>
    BY <1>1 DEF OpenLocal
  <2>2. do'[p] = "missing" /\ \A q \in Process \ {p} : do'[q] = do[q]
    BY <1>0, <2>1
  <2> QED
    BY <1>r, <2>1, <2>2
<1>2. CASE Migrate(p) \/ Rotate(p) \/ (\E overwrite \in BOOLEAN : Setup(p, overwrite)) \/ Persist(p)
  <2>1. /\ \E next \in {"key", "envelope"} : Goto(p, next)
        /\ UNCHANGED <<vault, localKey, key, stale, got, envelope>>
    BY <1>2 DEF Migrate, Rotate, Setup, Persist
  <2> QED
    BY <1>g, <2>1
<1>3. CASE FindKey(p)
  <2>0. /\ do[p] = "key" /\ UNCHANGED <<vault, localKey, key, stale, envelope>>
        /\ IF localKey # "none" THEN Gets(p, localKey) /\ Goto(p, "write") ELSE UNCHANGED got /\ Goto(p, "create")
    BY <1>3 DEF FindKey
  <2>1. CASE localKey = "none"
    BY <1>g, <2>0, <2>1
  <2>2. CASE localKey # "none"
    <3>1. got' = [got EXCEPT ![p] = localKey] /\ do' = [do EXCEPT ![p] = "write"]
      BY <2>0, <2>2
    <3>2. /\ do'[p] = "write" /\ got'[p] = localKey
          /\ \A q \in Process \ {p} : do'[q] = do[q] /\ got'[q] = got[q]
      BY <1>0, <3>1
    <3>3. \A q \in Process : (Fresh(q)' <=> Fresh(q)) /\ (Current(q)' <=> Current(q))
      BY <2>0 DEF Fresh, Current
    <3>4. \A s : Readable(s)' <=> Readable(s)
      BY <2>0 DEF Readable
    <3>5. vault' \notin {NoVault, Torn} => Readable(localKey)' \/ Readable("passphrase")'
      BY <1>i, <2>0, <3>4
    <3>6. \A q \in Process : do'[q] = "back" /\ ~stale'[q] => envelope'[q] = key'[q].salt
      BY <1>i, <2>0, <3>2
    <3>7. \A q \in Process : do'[q] \in {"write", "reread"} => got'[q] = localKey'
      BY <1>i, <2>0, <3>2
    <3>8. \A q, r \in Process : Fresh(q)' /\ Fresh(r)' => key'[q] = key'[r]
      BY <1>i, <2>0, <3>3
    <3> QED
      BY <1>i, <3>3, <3>5, <3>6, <3>7, <3>8 DEF OpensInv
  <2> QED
    BY <2>1, <2>2
<1>4. CASE CreateKey(p)
  <2>1. /\ do' = [do EXCEPT ![p] = "write"] /\ localKey' = p /\ got' = [got EXCEPT ![p] = p] /\ localKey = "none"
        /\ UNCHANGED <<vault, key, stale, envelope>>
    BY <1>4 DEF CreateKey
  <2>2. do'[p] = "write" /\ got'[p] = p /\ \A q \in Process \ {p} : do'[q] = do[q] /\ got'[q] = got[q]
    BY <1>0, <2>1
  <2>3. \A q \in Process : ~Fresh(q)'
    <3>1. \A q \in Process : ~Fresh(q)
      BY <1>i, <2>1, KeyFacts DEF Current
    <3> QED
      BY <2>1, <3>1 DEF Fresh
  <2>4. \A q \in Process : do'[q] = "back" /\ ~stale'[q] => envelope'[q] = key'[q].salt
    BY <1>i, <2>1, <2>2
  <2>5. \A q \in Process : do'[q] \in {"write", "reread"} => got'[q] = localKey'
    <3> SUFFICES ASSUME NEW q \in Process \ {p}, do[q] \in {"write", "reread"}
                 PROVE  FALSE
      BY <2>1, <2>2
    <3> QED
      BY <1>h, <1>i, <2>1, KeyFacts
  <2>6. vault' \notin {NoVault, Torn} => Readable("passphrase")'
    <3> SUFFICES ASSUME vault \notin {NoVault, Torn}
                 PROVE  Readable("passphrase")
      BY <2>1 DEF Readable
    <3>1. vault.key \in Key /\ vault.key.secret # "none"
      BY <1>0, VaultCases, KeyFacts
    <3>2. ~Readable("none")
      BY <3>1, KeyFacts DEF Readable
    <3> QED
      BY <1>i, <2>1, <3>2
  <2> QED
    BY <2>3, <2>4, <2>5, <2>6 DEF OpensInv
<1>5. CASE WriteVault(p)
  <2>1. /\ do[p] = "write" /\ do' = [do EXCEPT ![p] = "reread"]
        /\ vault' = [salt |-> salts + 1, key |-> Derived(got[p], salts + 1)] /\ stale' = [q \in Process |-> TRUE]
        /\ UNCHANGED <<localKey, key, got, envelope>>
    BY <1>5 DEF WriteVault
  <2>2. do'[p] = "reread" /\ \A q \in Process \ {p} : do'[q] = do[q]
    BY <1>0, <2>1
  <2>3. got[p] = localKey
    BY <1>i, <2>1
  <2>4. Readable(localKey)'
    BY <1>0, <2>1, <2>3 DEF Readable
  <2>5. \A q \in Process : stale'[q]
    BY <2>1
  <2>6. \A q \in Process : do'[q] \in {"write", "reread"} => got'[q] = localKey'
    BY <1>i, <2>1, <2>2, <2>3
  <2> QED
    BY <2>4, <2>5, <2>6 DEF OpensInv, Fresh
<1>6. CASE Reread(p)
  <2>1. do[p] = "reread" /\ UNCHANGED <<vault, localKey>>
    BY <1>6 DEF Reread
  <2>2. (IF op[p] = "setup" THEN localKey ELSE got[p]) = localKey
    BY <1>i, <2>1
  <2>3. CASE Readable(localKey)
    <3>1. /\ key' = [key EXCEPT ![p] = vault.key] /\ stale' = [stale EXCEPT ![p] = FALSE]
          /\ \/ do' = [do EXCEPT ![p] = "missing"] /\ UNCHANGED <<got, envelope>>
             \/ /\ do' = [do EXCEPT ![p] = "idle"] /\ got' = [got EXCEPT ![p] = "none"]
                /\ envelope' = [envelope EXCEPT ![p] = 0]
      BY <1>6, <2>2, <2>3 DEF Reread, NewKey
    <3>2. /\ do'[p] \in {"missing", "idle"}
          /\ \A q \in Process \ {p} : do'[q] = do[q] /\ got'[q] = got[q] /\ envelope'[q] = envelope[q]
      BY <1>0, <3>1
    <3> QED
      BY <1>r, <2>1, <2>3, <3>1, <3>2
  <2>4. CASE ~Readable(localKey)
    <3>1. Finish(p) /\ UNCHANGED <<key, stale>>
      BY <1>6, <2>2, <2>4 DEF Reread
    <3> QED
      BY <1>e, <2>1, <3>1
  <2> QED
    BY <2>3, <2>4
<1>7. CASE ReadEnvelope(p)
  <2>0. UNCHANGED <<vault, localKey, key, stale>>
    BY <1>7 DEF ReadEnvelope
  <2>1. CASE key[p] # NoKey /\ vault.salt > 0
    <3>1. envelope' = [envelope EXCEPT ![p] = vault.salt] /\ do' = [do EXCEPT ![p] = "back"] /\ UNCHANGED got
      BY <1>7, <2>1 DEF ReadEnvelope
    <3>2. /\ do'[p] = "back" /\ envelope'[p] = vault.salt
          /\ \A q \in Process \ {p} : do'[q] = do[q] /\ envelope'[q] = envelope[q]
      BY <1>0, <3>1
    <3>3. ~stale[p] => vault.salt = key[p].salt
      <4>1. vault # Torn
        BY <2>1 DEF Torn
      <4> QED
        BY <1>i, <2>1, <4>1 DEF Fresh, Current
    <3>4. \A q \in Process : (Fresh(q)' <=> Fresh(q)) /\ (Current(q)' <=> Current(q))
      BY <2>0 DEF Fresh, Current
    <3>5. \A s : Readable(s)' <=> Readable(s)
      BY <2>0 DEF Readable
    <3>6. vault' \notin {NoVault, Torn} => Readable(localKey)' \/ Readable("passphrase")'
      BY <1>i, <2>0, <3>5
    <3>7. \A q \in Process : do'[q] = "back" /\ ~stale'[q] => envelope'[q] = key'[q].salt
      BY <1>i, <2>0, <3>2, <3>3
    <3>8. \A q \in Process : do'[q] \in {"write", "reread"} => got'[q] = localKey'
      BY <1>i, <2>0, <3>1, <3>2
    <3>9. \A q, r \in Process : Fresh(q)' /\ Fresh(r)' => key'[q] = key'[r]
      BY <1>i, <2>0, <3>4
    <3> QED
      BY <1>i, <3>4, <3>6, <3>7, <3>8, <3>9 DEF OpensInv
  <2>2. CASE ~(key[p] # NoKey /\ vault.salt > 0)
    <3>1. Finish(p)
      BY <1>7, <2>2 DEF ReadEnvelope
    <3> QED
      BY <1>e, <2>0, <3>1
  <2> QED
    BY <2>1, <2>2
<1>8. CASE WriteBack(p)
  <2>1. /\ do[p] = "back" /\ vault' = [salt |-> envelope[p], key |-> key[p]] /\ crossed' = (crossed \/ stale[p])
        /\ UNCHANGED <<localKey, key, stale>> /\ Afterwards(p)
    BY <1>8 DEF WriteBack
  <2>2. ~stale[p] /\ key[p] # NoKey /\ Fresh(p)
    BY <1>h, <2>1 DEF Fresh
  <2>3. key[p] \in Key /\ key[p].secret = localKey /\ localKey \in Process /\ envelope[p] = key[p].salt /\ envelope[p] \in Salt
    BY <1>0, <1>h, <1>i, <2>1, <2>2 DEF Current
  <2>4. Readable(localKey)'
    BY <2>1, <2>3, KeyFacts, VaultAssumption DEF Readable, Derived, Salt
  <2>5. /\ do'[p] \in {"idle", "state"}
        /\ \A q \in Process \ {p} : do'[q] = do[q] /\ got'[q] = got[q] /\ envelope'[q] = envelope[q]
    <3>1. \/ do' = [do EXCEPT ![p] = "state"] /\ UNCHANGED <<got, envelope>>
          \/ /\ do' = [do EXCEPT ![p] = "idle"] /\ got' = [got EXCEPT ![p] = "none"]
             /\ envelope' = [envelope EXCEPT ![p] = 0]
      BY <2>1 DEF Afterwards
    <3> QED
      BY <1>0, <3>1
  <2>6. \A q \in Process : Fresh(q)' => Fresh(q) /\ key[q] = key[p]
    BY <1>i, <2>1, <2>2 DEF Fresh
  <2>7. \A q \in Process : Fresh(q)' => Current(q)'
    BY <2>1, <2>3, <2>6 DEF Current
  <2>8. \A q, r \in Process : Fresh(q)' /\ Fresh(r)' => key'[q] = key'[r]
    BY <2>1, <2>6
  <2>9. \A q \in Process : do'[q] = "back" /\ ~stale'[q] => envelope'[q] = key'[q].salt
    BY <1>i, <2>1, <2>5
  <2>10. \A q \in Process : do'[q] \in {"write", "reread"} => got'[q] = localKey'
    BY <1>i, <2>1, <2>5
  <2> QED
    BY <2>4, <2>7, <2>8, <2>9, <2>10 DEF OpensInv
<1>9. CASE (\E v \in {"on", "off", "keep"} : Update(p, v)) \/ Configure(p) \/ Missing(p)
  <2>1. (\E next \in {"state", "envelope"} : Goto(p, next)) /\ UNCHANGED <<vault, localKey, key, stale, got, envelope>>
    BY <1>9 DEF Update, Configure, Missing
  <2> QED
    BY <1>g, <2>1
<1>10. CASE ReadRelayState(p) \/ Truncate(p)
  <2>1. /\ \E next \in {"truncate", "put"} : Goto(p, next)
        /\ got' = got \/ \E x : got' = [got EXCEPT ![p] = x]
        /\ UNCHANGED <<vault, localKey, key, stale, envelope>>
    BY <1>10 DEF ReadRelayState, Truncate
  <2> QED
    BY <1>g, <2>1
<1>11. CASE PutRelayState(p)
  <2>1. UNCHANGED <<vault, localKey, key, stale>> /\ AfterPut(p)
    BY <1>11 DEF PutRelayState
  <2>2. CASE Finish(p)
    BY <1>e, <2>1, <2>2
  <2>3. CASE ~Finish(p)
    <3>1. (\E next \in {"state", "envelope"} : Goto(p, next)) /\ UNCHANGED <<got, envelope>>
      BY <2>1, <2>3 DEF AfterPut
    <3> QED
      BY <1>g, <2>1, <3>1
  <2> QED
    BY <2>2, <2>3
<1>12. CASE Kill(p)
  <2>1. /\ do' = [do EXCEPT ![p] = "idle"] /\ got' = [got EXCEPT ![p] = "none"] /\ envelope' = [envelope EXCEPT ![p] = 0]
        /\ key' = [key EXCEPT ![p] = NoKey] /\ stale' = [stale EXCEPT ![p] = FALSE]
        /\ vault' \in {vault, Torn} /\ UNCHANGED localKey
    BY <1>12 DEF Kill
  <2>2. /\ do'[p] = "idle" /\ key'[p] = NoKey
        /\ \A q \in Process \ {p} : /\ do'[q] = do[q] /\ got'[q] = got[q] /\ envelope'[q] = envelope[q]
                                    /\ key'[q] = key[q] /\ stale'[q] = stale[q]
    BY <1>0, <2>1, KeyFacts
  <2>3. \A q \in Process : Fresh(q)' => q # p /\ Fresh(q)
    BY <2>2 DEF Fresh
  <2>4. \A q \in Process : Fresh(q)' => Current(q)'
    BY <1>i, <2>1, <2>2, <2>3 DEF Current
  <2>5. \A q, r \in Process : Fresh(q)' /\ Fresh(r)' => key'[q] = key'[r]
    BY <1>i, <2>2, <2>3
  <2>6. \A q \in Process : do'[q] = "back" /\ ~stale'[q] => envelope'[q] = key'[q].salt
    BY <1>i, <2>2
  <2>7. \A q \in Process : do'[q] \in {"write", "reread"} => got'[q] = localKey'
    BY <1>i, <2>1, <2>2
  <2>8. vault' \notin {NoVault, Torn} => Readable(localKey)' \/ Readable("passphrase")'
    BY <1>i, <2>1 DEF Readable
  <2> QED
    BY <2>4, <2>5, <2>6, <2>7, <2>8 DEF OpensInv
<1> QED
  BY <1>1, <1>2, <1>3, <1>4, <1>5, <1>6, <1>7, <1>8, <1>9, <1>10, <1>11, <1>12 DEF VaultStep

LEMMA DisabledStep ==
    ASSUME VaultTypes, \A q \in Process : HasRead(q), DisabledInv, NEW p \in Process, VaultStep(p)
    PROVE  DisabledInv'
<1>0. /\ relayState \in RelayStates /\ do \in [Process -> Do] /\ op \in [Process -> Op]
      /\ got \in [Process -> LocalKey \cup RelayStates] /\ value \in [Process -> {"on", "off", "keep"}]
      /\ behind \in [Process -> BOOLEAN] /\ disabled \in BOOLEAN /\ lost \in BOOLEAN
  BY DEF VaultTypes
<1> USE DEF vaultFiles, vaultHistory, vaultBounds, Goto, Gets, Undertake, Finish
<1>i. disabled /\ ~lost => /\ relayState = "off" \/ \E q \in Process : do[q] = "put"
                           /\ \A q \in Process : ~behind[q] => Knows(q)
  BY DEF DisabledInv
\* A step that neither reads nor writes the relay state.
<1>f. ASSUME UNCHANGED <<relayState, disabled, lost>>, do[p] # "put", do'[p] \notin {"truncate", "put"},
             do'[p] = "state" => op'[p] \notin Opening,
             \A q \in Process \ {p} : /\ do'[q] = do[q] /\ op'[q] = op[q] /\ got'[q] = got[q]
                                      /\ value'[q] = value[q] /\ behind'[q] = behind[q]
      PROVE  DisabledInv'
  <2> SUFFICES ASSUME disabled, ~lost
               PROVE  /\ relayState = "off" \/ \E q \in Process : do'[q] = "put"
                      /\ \A q \in Process : ~behind'[q] => Knows(q)'
    BY <1>f DEF DisabledInv
  <2>1. Knows(p)'
    BY <1>f DEF Knows
  <2>2. \A q \in Process \ {p} : ~behind'[q] => Knows(q)'
    BY <1>f, <1>i DEF Knows
  <2>3. relayState = "off" \/ \E q \in Process : do'[q] = "put"
    BY <1>f, <1>i
  <2> QED
    BY <2>1, <2>2, <2>3
<1>1. CASE OpenLocal(p) \/ Migrate(p) \/ Rotate(p) \/ (\E overwrite \in BOOLEAN : Setup(p, overwrite)) \/ Persist(p)
  <2>1. /\ \E what : op' = [op EXCEPT ![p] = what]
        /\ \E next \in {"missing", "key", "envelope"} : do' = [do EXCEPT ![p] = next]
        /\ do[p] = "idle" /\ UNCHANGED <<relayState, got, value, behind, disabled, lost>>
    BY <1>1 DEF OpenLocal, Migrate, Rotate, Setup, Persist
  <2>2. do'[p] \in {"missing", "key", "envelope"} /\ \A q \in Process \ {p} : do'[q] = do[q] /\ op'[q] = op[q]
    BY <1>0, <2>1
  <2> QED
    BY <1>f, <2>1, <2>2
<1>2. CASE FindKey(p) \/ CreateKey(p)
  <2>1. /\ \E next \in {"write", "create"} : do' = [do EXCEPT ![p] = next]
        /\ got' = got \/ \E x : got' = [got EXCEPT ![p] = x]
        /\ do[p] \in {"key", "create"} /\ UNCHANGED <<relayState, op, value, behind, disabled, lost>>
    BY <1>2 DEF FindKey, CreateKey
  <2>2. do'[p] \in {"write", "create"} /\ \A q \in Process \ {p} : do'[q] = do[q] /\ got'[q] = got[q]
    BY <1>0, <2>1
  <2> QED
    BY <1>f, <2>1, <2>2
<1>e. ASSUME Finish(p), do[p] # "put", UNCHANGED <<relayState, disabled, lost>>,
             UNCHANGED behind \/ behind' = [behind EXCEPT ![p] = FALSE]
      PROVE  DisabledInv'
  <2>1. /\ do' = [do EXCEPT ![p] = "idle"] /\ got' = [got EXCEPT ![p] = "none"] /\ op' = [op EXCEPT ![p] = "open"]
        /\ value' = [value EXCEPT ![p] = "keep"]
    BY <1>e
  <2>2. /\ do'[p] = "idle"
        /\ \A q \in Process \ {p} : /\ do'[q] = do[q] /\ op'[q] = op[q] /\ got'[q] = got[q]
                                    /\ value'[q] = value[q] /\ behind'[q] = behind[q]
    BY <1>0, <1>e, <2>1
  <2> QED
    BY <1>e, <1>f, <2>2
<1>3. CASE WriteVault(p) \/ Reread(p) \/ ReadEnvelope(p)
  <2>1. do[p] # "put" /\ UNCHANGED <<relayState, behind, disabled, lost>>
    BY <1>3 DEF WriteVault, Reread, ReadEnvelope
  <2>2. CASE Finish(p)
    BY <1>e, <2>1, <2>2
  <2>3. CASE ~Finish(p)
    <3>1. (\E next \in {"reread", "missing", "back"} : do' = [do EXCEPT ![p] = next]) /\ UNCHANGED <<op, got, value>>
      <4>1. CASE WriteVault(p)
        BY <4>1 DEF WriteVault
      <4>2. CASE Reread(p)
        BY <2>3, <4>2 DEF Reread
      <4>3. CASE ReadEnvelope(p)
        BY <2>3, <4>3 DEF ReadEnvelope
      <4> QED
        BY <1>3, <4>1, <4>2, <4>3
    <3>2. do'[p] \in {"reread", "missing", "back"} /\ \A q \in Process \ {p} : do'[q] = do[q]
      BY <1>0, <3>1
    <3> QED
      BY <1>f, <2>1, <3>1, <3>2
  <2> QED
    BY <2>2, <2>3
<1>4. CASE WriteBack(p)
  <2>1. do[p] # "put" /\ UNCHANGED <<relayState, behind, disabled, lost>> /\ Afterwards(p)
    BY <1>4 DEF WriteBack
  <2>2. CASE op[p] \in {"reopen", "setup"}
    <3>1. /\ \E x \in {"set", "configure"} : op' = [op EXCEPT ![p] = x]
          /\ value' = [value EXCEPT ![p] = "on"] /\ do' = [do EXCEPT ![p] = "state"] /\ UNCHANGED got
      BY <2>1, <2>2 DEF Afterwards
    <3>2. /\ do'[p] = "state" /\ op'[p] \in {"set", "configure"}
          /\ \A q \in Process \ {p} : do'[q] = do[q] /\ op'[q] = op[q] /\ value'[q] = value[q]
      BY <1>0, <3>1
    <3> QED
      BY <1>f, <2>1, <3>1, <3>2 DEF Opening
  <2>3. CASE op[p] \notin {"reopen", "setup"}
    BY <1>e, <2>1, <2>3 DEF Afterwards
  <2> QED
    BY <2>2, <2>3
<1>5. CASE (\E v \in {"on", "off", "keep"} : Update(p, v)) \/ Configure(p)
  <2>1. /\ \E x \in {"update", "configure"} : op' = [op EXCEPT ![p] = x]
        /\ \E v : value' = [value EXCEPT ![p] = v]
        /\ do' = [do EXCEPT ![p] = "state"] /\ do[p] = "idle" /\ UNCHANGED <<relayState, got, behind, disabled, lost>>
    BY <1>5 DEF Update, Configure
  <2>2. /\ do'[p] = "state" /\ op'[p] \in {"update", "configure"}
        /\ \A q \in Process \ {p} : do'[q] = do[q] /\ op'[q] = op[q] /\ value'[q] = value[q]
    BY <1>0, <2>1
  <2> QED
    BY <1>f, <2>1, <2>2 DEF Opening
<1>6. CASE Missing(p)
  <2>1. /\ do[p] = "missing" /\ UNCHANGED <<relayState, op, got, disabled, lost>>
        /\ \/ /\ behind' = [behind EXCEPT ![p] = BeingPut(p)] /\ do' = [do EXCEPT ![p] = "state"]
              /\ \E v \in IF relayState = "none" THEN {"on", "off"} ELSE {"keep"} : value' = [value EXCEPT ![p] = v]
           \/ do' = [do EXCEPT ![p] = "envelope"] /\ UNCHANGED <<value, behind>>
    BY <1>6 DEF Missing
  <2>2. CASE do' = [do EXCEPT ![p] = "envelope"] /\ UNCHANGED <<value, behind>>
    <3>1. do'[p] = "envelope" /\ \A q \in Process \ {p} : do'[q] = do[q]
      BY <1>0, <2>2
    <3> QED
      BY <1>f, <2>1, <2>2, <3>1
  <2>3. ASSUME NEW v \in IF relayState = "none" THEN {"on", "off"} ELSE {"keep"}, value' = [value EXCEPT ![p] = v],
               behind' = [behind EXCEPT ![p] = BeingPut(p)], do' = [do EXCEPT ![p] = "state"]
        PROVE  DisabledInv'
    <3>1. /\ do'[p] = "state" /\ value'[p] = v /\ (behind'[p] <=> BeingPut(p))
          /\ \A q \in Process \ {p} : do'[q] = do[q] /\ value'[q] = value[q] /\ behind'[q] = behind[q]
      BY <1>0, <2>3
    <3> SUFFICES ASSUME disabled, ~lost
                 PROVE  /\ relayState = "off" \/ \E q \in Process : do'[q] = "put"
                        /\ \A q \in Process : ~behind'[q] => Knows(q)'
      BY <2>1 DEF DisabledInv
    <3>2. \A q \in Process \ {p} : ~behind'[q] => Knows(q)'
      BY <1>i, <2>1, <3>1 DEF Knows
    <3>3. ~behind'[p] => relayState = "off"
      BY <1>i, <2>1, <3>1 DEF BeingPut
    <3>4. ~behind'[p] => Knows(p)'
      <4> SUFFICES ASSUME ~behind'[p]
                   PROVE  Knows(p)'
        OBVIOUS
      <4>1. v = "keep"
        BY <2>3, <3>3
      <4> QED
        BY <3>1, <4>1 DEF Knows
    <3>5. relayState = "off" \/ \E q \in Process : do'[q] = "put"
      BY <1>i, <2>1, <3>1
    <3> QED
      BY <3>2, <3>4, <3>5
  <2> QED
    BY <2>1, <2>2, <2>3
<1>7. CASE ReadRelayState(p)
  <2> DEFINE late == BeingPut(p) \/ (op[p] \in Opening /\ behind[p])
  <2>1. /\ do[p] = "state" /\ do' = [do EXCEPT ![p] = "truncate"] /\ got' = [got EXCEPT ![p] = relayState]
        /\ behind' = [behind EXCEPT ![p] = late]
        /\ UNCHANGED <<relayState, op, value, disabled, lost>>
    BY <1>0, <1>7 DEF ReadRelayState
  <2>2. /\ do'[p] = "truncate" /\ got'[p] = relayState /\ behind'[p] = late
        /\ \A q \in Process \ {p} : do'[q] = do[q] /\ got'[q] = got[q] /\ behind'[q] = behind[q]
    BY <1>0, <2>1
  <2> SUFFICES ASSUME disabled, ~lost
               PROVE  /\ relayState = "off" \/ \E q \in Process : do'[q] = "put"
                      /\ \A q \in Process : ~behind'[q] => Knows(q)'
    BY <2>1 DEF DisabledInv
  <2>3. \A q \in Process \ {p} : ~behind'[q] => Knows(q)'
    BY <1>i, <2>1, <2>2 DEF Knows
  <2>4. ASSUME ~behind'[p]
        PROVE  Knows(p)'
    <3>1. relayState = "off"
      BY <1>i, <2>1, <2>2, <2>4 DEF BeingPut
    <3>2. op[p] \in Opening => Knows(p)
      BY <1>i, <2>2, <2>4
    <3> QED
      BY <2>1, <2>2, <3>1, <3>2 DEF Knows
  <2>5. relayState = "off" \/ \E q \in Process : do'[q] = "put"
    BY <1>i, <2>1, <2>2
  <2> QED
    BY <2>3, <2>4, <2>5
<1>b. \A q \in Process : FallBehind(p)[q] <=> (q # p /\ Reading(q)) \/ behind[q]
  BY <1>0 DEF FallBehind
<1>8. CASE Truncate(p)
  <2>1. /\ do[p] = "truncate" /\ do' = [do EXCEPT ![p] = "put"] /\ behind' = FallBehind(p)
        /\ UNCHANGED <<op, got, value, disabled, lost>>
    BY <1>8 DEF Truncate
  <2>2. do'[p] = "put" /\ \A q \in Process \ {p} : do'[q] = do[q]
    BY <1>0, <2>1
  <2>3. \A q \in Process : behind[q] => behind'[q]
    BY <1>b, <2>1
  <2> SUFFICES ASSUME disabled, ~lost
               PROVE  \A q \in Process : ~behind'[q] => Knows(q)'
    BY <2>1, <2>2 DEF DisabledInv
  <2>4. \A q \in Process : ~behind[q] => Knows(q)
    BY <1>i
  <2> QED
    BY <2>1, <2>2, <2>3, <2>4 DEF Knows
<1>9. CASE PutRelayState(p)
  <2>1. /\ do[p] = "put" /\ relayState' = Merged(p) /\ AfterPut(p)
        /\ behind' = [FallBehind(p) EXCEPT ![p] = FALSE]
        /\ disabled' = IF ByTheFile(p) THEN disabled ELSE value[p] = "off"
        /\ lost' = (lost \/ (ByTheFile(p) /\ behind[p]))
    BY <1>9 DEF PutRelayState
  <2>2. /\ do'[p] \in {"idle", "state", "envelope"} /\ (do'[p] = "state" => op'[p] \notin Opening)
        /\ \A q \in Process \ {p} : do'[q] = do[q] /\ op'[q] = op[q] /\ got'[q] = got[q] /\ value'[q] = value[q]
    <3>1. \/ /\ do' = [do EXCEPT ![p] = "state"] /\ op' = [op EXCEPT ![p] = "target"] /\ UNCHANGED <<got, value>>
          \/ do' = [do EXCEPT ![p] = "envelope"] /\ UNCHANGED <<op, got, value>>
          \/ /\ do' = [do EXCEPT ![p] = "idle"] /\ got' = [got EXCEPT ![p] = "none"]
             /\ op' = [op EXCEPT ![p] = "open"] /\ value' = [value EXCEPT ![p] = "keep"]
      BY <2>1 DEF AfterPut
    <3> QED
      BY <1>0, <3>1 DEF Opening
  <2>3. \A q \in Process \ {p} : behind'[q] <=> Reading(q) \/ behind[q]
    <3>1. FallBehind(p) = [q \in Process |-> (q # p /\ Reading(q)) \/ behind[q]]
      BY DEF FallBehind
    <3> QED
      BY <2>1, <3>1
  <2> SUFFICES ASSUME disabled', ~lost'
               PROVE  /\ relayState' = "off"
                      /\ \A q \in Process : ~behind'[q] => Knows(q)'
    BY DEF DisabledInv
  <2>4. Knows(p)'
    BY <2>2 DEF Knows
  <2>5. \A q \in Process \ {p} : ~behind'[q] => Knows(q)'
    BY <2>2, <2>3 DEF Knows, Reading
  <2>6. relayState' = "off"
    <3>1. CASE ByTheFile(p)
      <4>1. disabled /\ ~lost /\ ~behind[p]
        BY <2>1, <3>1
      <4>2. Knows(p)
        BY <1>i, <4>1
      <4> QED
        BY <1>0, <2>1, <3>1, <4>2 DEF Knows, Merged, ByTheFile
    <3>2. CASE ~ByTheFile(p)
      BY <2>1, <3>2 DEF Merged
    <3> QED
      BY <3>1, <3>2
  <2> QED
    BY <2>4, <2>5, <2>6
<1>10. CASE Kill(p)
  <2>1. /\ Finish(p) /\ behind' = [behind EXCEPT ![p] = FALSE] /\ lost' = (lost \/ do[p] = "put")
        /\ UNCHANGED <<relayState, disabled>>
    BY <1>10 DEF Kill
  <2>2. CASE do[p] = "put" \/ lost
    BY <2>1, <2>2 DEF DisabledInv
  <2>3. CASE do[p] # "put" /\ ~lost
    <3>1. lost = FALSE /\ lost' = FALSE
      BY <1>0, <2>1, <2>3
    <3> QED
      BY <1>e, <2>1, <2>3, <3>1
  <2> QED
    BY <2>2, <2>3
<1> QED
  BY <1>1, <1>2, <1>3, <1>4, <1>5, <1>6, <1>7, <1>8, <1>9, <1>10 DEF VaultStep

LEMMA VaultSpecInv == VaultSpec => []VaultInv
<1>1. VaultInv /\ [VaultNext]_vaultVars => VaultInv'
  <2> SUFFICES ASSUME VaultInv, [VaultNext]_vaultVars
               PROVE  VaultInv'
    OBVIOUS
  <2>1. CASE UNCHANGED vaultVars
    BY <2>1 DEF vaultVars, vaultFiles, vaultSteps, vaultHistory, vaultBounds, VaultInv, VaultTypes, HasRead,
                OpensInv, Fresh, Current, Readable, DisabledInv, Knows
  <2>2. CASE VaultNext
    <3>1. PICK p \in Process : VaultStep(p)
      BY <2>2 DEF VaultNext, VaultStep
    <3>2. VaultTypes /\ (\A q \in Process : HasRead(q)) /\ OpensInv /\ DisabledInv
      BY DEF VaultInv
    <3> QED
      BY <3>1, <3>2, VaultTypesStep, OpensStep, DisabledStep DEF VaultInv
  <2> QED
    BY <2>1, <2>2
<1> QED
  BY <1>1, VaultInitInv, PTL DEF VaultSpec

(* The vault, the keys in memory and the relay state keep their types.     *)
THEOREM SpecVaultTypeOK == VaultSpec => []VaultTypeOK
<1>1. VaultInv => VaultTypeOK
  <2> SUFFICES ASSUME VaultTypes
               PROVE  VaultTypeOK
    BY DEF VaultInv
  <2>1. vault \in [salt : 1 .. MaxSalts + 1, key : Key] \cup {NoVault, Torn}
    BY DEF VaultTypes, Vaults, Salt
  <2> QED
    BY <2>1 DEF VaultTypes, VaultTypeOK, RelayStates
<1> QED
  BY <1>1, VaultSpecInv, PTL

(* Unless a stale process writes the vault back, two processes both make   *)
(* the local key, or one dies while it writes, the local key or the        *)
(* passphrase of a vault that is not migrated yet opens the vault.         *)
THEOREM SpecOnlyStaleWritesLockOut == VaultSpec => []OnlyStaleWritesLockOut
<1>1. VaultInv => OnlyStaleWritesLockOut
  BY DEF VaultInv, OpensInv, OnlyStaleWritesLockOut
<1> QED
  BY <1>1, VaultSpecInv, PTL

(* Remote access that was disabled stays disabled until a command enables  *)
(* it, unless an update that is behind is written or one is cut short.     *)
THEOREM SpecDisabledStaysDisabled == VaultSpec => []DisabledStaysDisabled
<1>1. VaultInv => DisabledStaysDisabled
  BY DEF VaultInv, DisabledInv, DisabledStaysDisabled, RemoteEnabled
<1> QED
  BY <1>1, VaultSpecInv, PTL

-----------------------------------------------------------------------------
(* The streams of the terminals.  A flush carries chunks only between the  *)
(* take and the send, the flush of a session's own thread only while it    *)
(* stops, and a session that attaches is nobody's listener yet.            *)

FlushInv ==
    /\ \A f \in Flusher : /\ flush[f].at # "send" => flush[f].data = {}
                          /\ flush[f].at # "no" => flush[f].to \in Session
    /\ \A s \in Session : at[s] \notin {"stop", "end"} => flush[s] = NoFlush

Attaching == {"attach", "reply", "subscribe"}

PlaceInv ==
    /\ \A s \in Session :
          /\ at[s] \in {"stop", "write"} \cup Attaching => job[s].tty \in Terminal
          /\ at[s] \in {"stop", "attach"} => job[s].last <= output[job[s].tty]
          /\ at[s] \in Attaching => \A t \in Terminal : s \notin listeners[t]
          /\ at[s] # "reply" => reply[s] = {}
    /\ \A t \in Terminal : reader[t] # {} => output[t] > 0
    /\ \A s \in Session : \A t, u \in Terminal : s \in listeners[t] /\ s \in listeners[u] => t = u

(* What a client has or will have of a terminal, or is known to have lost. *)
Has(s, c) ==
    \/ c \in told[s]
    \/ c \in buffer[s] /\ c[1] = label[s][1]
    \/ \E f \in Flusher : flush[f].to = s /\ c \in Understood(f)
    \/ \E t \in Terminal : s \in reader[t] /\ c = <<t, output[t]>>
    \/ c \in slipped[s] \/ c \in withheld[s] \/ c \in strayed[s] \/ c \in reply[s]

(* All of the output is owed to a listener, and from attach() on to a      *)
(* session that is to become one.                                          *)
Owed(s, t) ==
    /\ ~dead[s]
    /\ \/ at[s] \in {"serve", "write"} /\ s \in listeners[t]
       \/ at[s] \in {"reply", "subscribe"} /\ job[s].tty = t

CoverInv ==
    \A s \in Session : \A t \in Terminal :
        Owed(s, t) => \A m \in 1 .. output[t] : Has(s, <<t, m>>)

(* An input number that was written, or that a thread is about to write,   *)
(* has been recorded, and no two threads write the same one.               *)
InputInv ==
    /\ \A t \in Terminal : \A i \in 1 .. Len(written[t]) : written[t][i] <= lastInput[t]
    /\ \A s \in Session : at[s] = "write" =>
          /\ job[s].last \in 1 .. lastInput[job[s].tty]
          /\ \A i \in 1 .. Len(written[job[s].tty]) : written[job[s].tty][i] # job[s].last
    /\ \A r, s \in Session :
          at[r] = "write" /\ at[s] = "write" /\ job[r] = job[s] => r = s
    /\ InputIsWrittenOnce

StreamInv == StreamTypeOK /\ FlushInv /\ PlaceInv /\ CoverInv /\ InputInv

LEMMA StreamNumbers ==
    /\ Ring \in Nat /\ Ring > 0 /\ MaxOutput \in Nat /\ MaxInput \in Nat /\ MaxFrames \in Nat
    /\ Terminal \cap Session = {} /\ \A s \in Session : Timer(s) \notin Session
BY TerminalStreamAssumption

LEMMA StreamInitInv == StreamInit => StreamInv
<1> SUFFICES ASSUME StreamInit
             PROVE  StreamInv
  OBVIOUS
<1>1. \A f \in Flusher : flush[f] = NoFlush
  BY DEF StreamInit
<1>2. NoFlush.at = "no" /\ NoFlush.data = {}
  BY DEF NoFlush
<1>3. StreamTypeOK
  <2>1. /\ tty \in [Terminal -> {"absent", "open", "exited", "removed"}]
        /\ output \in [Terminal -> 0 .. MaxOutput] /\ lastInput \in [Terminal -> 0 .. MaxInput]
        /\ listeners \in [Terminal -> SUBSET Session] /\ reader \in [Terminal -> SUBSET Session]
    BY StreamNumbers DEF StreamInit
  <2>2. written \in [Terminal -> Seq(1 .. MaxInput)]
    BY DEF StreamInit
  <2>3. flush \in [Flusher -> [at : {"no", "take", "send"}, to : Session \cup {Nobody},
                             as : Chunk \cup {NoLabel}, data : SUBSET Chunk]]
    BY DEF StreamInit, NoFlush
  <2>4. job \in [Session -> [tty : Terminal \cup {"none"}, last : 0 .. MaxOutput + MaxInput]]
    BY StreamNumbers DEF StreamInit, NoJob
  <2>5. /\ buffer \in [Session -> SUBSET Chunk] /\ timer \in [Session -> BOOLEAN]
        /\ at \in [Session -> {"serve", "stop", "attach", "reply", "subscribe", "write", "end", "ended"}]
        /\ reply \in [Session -> SUBSET Chunk] /\ frames \in [Session -> 0 .. MaxFrames]
        /\ dead \in [Session -> BOOLEAN] /\ remote \in BOOLEAN
        /\ {told, slipped, withheld, strayed} \subseteq [Session -> SUBSET Chunk]
        /\ label \in [Session -> Chunk \cup {NoLabel}]
    BY StreamNumbers DEF StreamInit
  <2> QED
    BY <2>1, <2>2, <2>3, <2>4, <2>5 DEF StreamTypeOK
<1>4. FlushInv
  <2>1. \A s \in Session : s \in Flusher
    BY DEF Flusher
  <2> QED
    BY <1>1, <1>2, <2>1 DEF FlushInv
<1>5. PlaceInv
  BY DEF StreamInit, PlaceInv, Attaching
<1>6. CoverInv
  BY DEF StreamInit, CoverInv
<1>7. InputInv
  BY DEF StreamInit, InputInv, InputIsWrittenOnce
<1> QED
  BY <1>3, <1>4, <1>5, <1>6, <1>7 DEF StreamInv

TtyStates == {"absent", "open", "exited", "removed"}
Places == {"serve", "stop", "attach", "reply", "subscribe", "write", "end", "ended"}
Labels == Chunk \cup {NoLabel}
Flushes == [at : {"no", "take", "send"}, to : Session \cup {Nobody}, as : Labels, data : SUBSET Chunk]
Jobs == [tty : Terminal \cup {"none"}, last : 0 .. MaxOutput + MaxInput]
Numbers == 1 .. MaxInput

StreamTypes ==
    /\ tty \in [Terminal -> TtyStates] /\ output \in [Terminal -> 0 .. MaxOutput]
    /\ listeners \in [Terminal -> SUBSET Session] /\ reader \in [Terminal -> SUBSET Session]
    /\ lastInput \in [Terminal -> 0 .. MaxInput] /\ written \in [Terminal -> Seq(Numbers)]
    /\ buffer \in [Session -> SUBSET Chunk] /\ timer \in [Session -> BOOLEAN]
    /\ flush \in [Flusher -> Flushes] /\ at \in [Session -> Places] /\ job \in [Session -> Jobs]
    /\ reply \in [Session -> SUBSET Chunk] /\ frames \in [Session -> 0 .. MaxFrames]
    /\ dead \in [Session -> BOOLEAN] /\ remote \in BOOLEAN
    /\ told \in [Session -> SUBSET Chunk] /\ slipped \in [Session -> SUBSET Chunk]
    /\ withheld \in [Session -> SUBSET Chunk] /\ strayed \in [Session -> SUBSET Chunk]
    /\ label \in [Session -> Labels]

LEMMA StreamTypesAre == StreamTypeOK <=> StreamTypes
BY DEF StreamTypeOK, StreamTypes, TtyStates, Places, Labels, Flushes, Jobs, Numbers

LEMMA TakeIsFlush ==
    /\ NoFlush \in Flushes
    /\ \A s \in Session : Flush(s) \in Flushes
    /\ \A s \in Session, a \in Labels, d \in SUBSET Chunk : [at |-> "send", to |-> s, as |-> a, data |-> d] \in Flushes
BY DEF Flushes, NoFlush, Flush, Labels

LEMMA FlushFields ==
    ASSUME NEW x \in Flushes
    PROVE  x.at \in {"no", "take", "send"} /\ x.to \in Session \cup {Nobody} /\ x.as \in Labels /\ x.data \in SUBSET Chunk
BY DEF Flushes

LEMMA JobFields ==
    /\ \A x \in Jobs : x.tty \in Terminal \cup {"none"} /\ x.last \in 0 .. MaxOutput + MaxInput
    /\ \A x, y \in Jobs : x.tty = y.tty /\ x.last = y.last => x = y
    /\ \A t \in Terminal, n \in 0 .. MaxOutput + MaxInput : [tty |-> t, last |-> n] \in Jobs
    /\ NoJob \in Jobs
BY StreamNumbers DEF Jobs, NoJob

LEMMA FlushersAre == Terminal \subseteq Flusher /\ Session \subseteq Flusher /\ \A s \in Session : Timer(s) \in Flusher
BY DEF Flusher

LEMMA SetOf ==
    ASSUME NEW S, NEW T, NEW f \in [S -> SUBSET T], NEW x \in S, NEW v \in SUBSET T
    PROVE  [f EXCEPT ![x] = v] \in [S -> SUBSET T]
OBVIOUS

\* The replies of attach() are chunks that were printed.
LEMMA RepliesAreChunks ==
    ASSUME NEW t \in Terminal, output[t] \in 0 .. MaxOutput
    PROVE  /\ \A n \in 0 .. output[t] : UpTo(t, n) \in SUBSET Chunk
           /\ Kept(t) \in SUBSET Chunk
           /\ \A s, n : Replay(s, t, n) \in SUBSET Chunk
<1>1. \A m \in 1 .. output[t] : <<t, m>> \in Chunk
  BY StreamNumbers DEF Chunk
<1>2. ASSUME NEW n \in 0 .. output[t]
      PROVE  UpTo(t, n) \in SUBSET Chunk
  <2>1. \A m \in 1 .. n : m \in 1 .. output[t]
    BY StreamNumbers
  <2> QED
    BY <1>1, <2>1 DEF UpTo
<1>3. Kept(t) \in SUBSET Chunk
  BY <1>1 DEF Kept
<1> QED
  BY <1>2, <1>3 DEF Replay

\* Stop() keeps the types, and begins the flush of the session.
LEMMA StopTypes ==
    ASSUME NEW s \in Session, NEW next \in Places, NEW j \in Jobs, StreamTypes, Stop(s, next, j)
    PROVE  at' \in [Session -> Places] /\ job' \in [Session -> Jobs] /\ flush' \in [Flusher -> Flushes]
<1>1. at' = [at EXCEPT ![s] = next] /\ job' = [job EXCEPT ![s] = j]
  BY DEF Stop, Go
<1>2. flush' = [flush EXCEPT ![s] = Flush(s)]
  BY DEF Stop
<1> QED
  BY <1>1, <1>2, TakeIsFlush DEF StreamTypes

LEMMA ReaderTypes ==
    ASSUME StreamTypes, FlushInv, PlaceInv, NEW t \in Terminal,
           Read(t) \/ Exit(t) \/ \E s \in Session : Deliver(t, s)
    PROVE  StreamTypes'
<1> USE DEF terminals, sessions, history
<1>1. CASE Read(t)
  <2>1. output' = [output EXCEPT ![t] = output[t] + 1] /\ output[t] < MaxOutput
        /\ reader' = [reader EXCEPT ![t] = listeners[t]]
        /\ slipped' = [s \in Session |->
             IF at[s] \in {"reply", "subscribe"} /\ job[s].tty = t /\ ~dead[s]
               THEN slipped[s] \cup {<<t, output[t] + 1>>} ELSE slipped[s]]
    BY <1>1 DEF Read
  <2>2. output' \in [Terminal -> 0 .. MaxOutput] /\ <<t, output[t] + 1>> \in Chunk
    BY <2>1, StreamNumbers DEF StreamTypes, Chunk
  <2>3. slipped' \in [Session -> SUBSET Chunk]
    BY <2>1, <2>2 DEF StreamTypes
  <2>4. reader' \in [Terminal -> SUBSET Session]
    BY <2>1 DEF StreamTypes
  <2>5. UNCHANGED <<tty, listeners, lastInput, written, sessions, told, withheld, strayed>>
    BY <1>1 DEF Read
  <2> QED
    BY <2>2, <2>3, <2>4, <2>5 DEF StreamTypes
<1>2. CASE Exit(t)
  <2>1. tty' = [tty EXCEPT ![t] = "exited"] /\ "exited" \in TtyStates
    BY <1>2 DEF Exit, TtyStates
  <2>2. UNCHANGED <<output, listeners, reader, lastInput, written, sessions, history>>
    BY <1>2 DEF Exit
  <2> QED
    BY <2>1, <2>2 DEF StreamTypes
<1>3. ASSUME NEW s \in Session, Deliver(t, s)
      PROVE  StreamTypes'
  <2>1. /\ s \in reader[t] /\ reader' = [reader EXCEPT ![t] = reader[t] \ {s}]
        /\ buffer' = [buffer EXCEPT ![s] = buffer[s] \cup {<<t, output[t]>>}]
    BY <1>3 DEF Deliver
  <2>2. flush' = flush \/ flush' = [flush EXCEPT ![t] = Flush(s)]
    BY <1>3 DEF Deliver
  <2>3. timer' = timer \/ timer' = [timer EXCEPT ![s] = TRUE]
    BY <1>3 DEF Deliver
  <2>4. output[t] \in 1 .. MaxOutput
    <3>1. output[t] > 0
      BY <2>1 DEF PlaceInv
    <3>2. output[t] \in 0 .. MaxOutput
      BY DEF StreamTypes
    <3> QED
      BY <3>1, <3>2, StreamNumbers
  <2>5. <<t, output[t]>> \in Chunk
    BY <2>4 DEF Chunk
  <2>6. buffer' \in [Session -> SUBSET Chunk] /\ reader' \in [Terminal -> SUBSET Session]
    BY <2>1, <2>5 DEF StreamTypes
  <2>7. flush' \in [Flusher -> Flushes] /\ timer' \in [Session -> BOOLEAN]
    BY <2>2, <2>3, TakeIsFlush DEF StreamTypes
  <2>8. UNCHANGED <<tty, output, listeners, lastInput, written, at, job, reply, frames, dead, remote, told, slipped, withheld>>
    BY <1>3 DEF Deliver
  <2>9. label' \in [Session -> Labels]
    <3>1. label' = [label EXCEPT ![s] = <<t, output[t]>>]
      BY <1>3 DEF Deliver, Relabelled
    <3> QED
      BY <2>5, <3>1 DEF StreamTypes, Labels
  <2>10. strayed' \in [Session -> SUBSET Chunk]
    <3>1. strayed \in [Session -> SUBSET Chunk] /\ buffer[s] \in SUBSET Chunk
      BY DEF StreamTypes
    <3>2. strayed[s] \cup Foreign(s, t) \in SUBSET Chunk
      BY <3>1 DEF Foreign
    <3>3. strayed' = strayed \/ strayed' = [strayed EXCEPT ![s] = strayed[s] \cup Foreign(s, t)]
      BY <1>3 DEF Deliver
    <3> QED
      BY <3>1, <3>2, <3>3, SetOf
  <2> QED
    BY <2>6, <2>7, <2>8, <2>9, <2>10 DEF StreamTypes
<1> QED
  BY <1>1, <1>2, <1>3

LEMMA FlushTypes ==
    ASSUME StreamTypes, FlushInv,
           \/ \E f \in Flusher : Take(f) \/ Send(f)
           \/ \E s \in Session : Fire(s)
    PROVE  StreamTypes'
<1> USE DEF terminals, sessions, history
<1>1. ASSUME NEW f \in Flusher, Take(f)
      PROVE  StreamTypes'
  <2> DEFINE s == flush[f].to
  <2>1. /\ timer' = [timer EXCEPT ![s] = FALSE] /\ buffer' = [buffer EXCEPT ![s] = {}]
        /\ flush' = [flush EXCEPT ![f] = IF buffer[s] = {} THEN NoFlush
                                         ELSE [at |-> "send", to |-> s, as |-> label[s], data |-> buffer[s]]]
    BY <1>1 DEF Take
  <2>2. s \in Session
    BY <1>1 DEF Take, FlushInv
  <2>3. timer' \in [Session -> BOOLEAN] /\ buffer' \in [Session -> SUBSET Chunk]
    BY <2>1 DEF StreamTypes
  <2>4. buffer[s] \in SUBSET Chunk /\ label[s] \in Labels
    BY <2>2 DEF StreamTypes
  <2>5. flush' \in [Flusher -> Flushes]
    BY <2>1, <2>2, <2>4, TakeIsFlush DEF StreamTypes
  <2>6. UNCHANGED <<terminals, label, at, job, reply, frames, dead, remote, history>>
    BY <1>1 DEF Take
  <2> QED
    BY <2>3, <2>5, <2>6 DEF StreamTypes
<1>2. ASSUME NEW f \in Flusher, Send(f)
      PROVE  StreamTypes'
  <2> DEFINE s == flush[f].to
  <2>1. /\ told' = IF dead[s] THEN told ELSE [told EXCEPT ![s] = told[s] \cup Understood(f)]
        /\ flush' = [flush EXCEPT ![f] = NoFlush]
    BY <1>2 DEF Send
  <2>2. s \in Session
    BY <1>2 DEF Send, FlushInv
  <2>3. Understood(f) \in SUBSET Chunk
    BY FlushFields DEF StreamTypes, Understood
  <2>4. told' \in [Session -> SUBSET Chunk] /\ flush' \in [Flusher -> Flushes]
    BY <2>1, <2>2, <2>3, TakeIsFlush DEF StreamTypes
  <2>5. UNCHANGED <<terminals, buffer, label, timer, at, job, reply, frames, dead, remote, slipped, withheld, strayed>>
    BY <1>2 DEF Send
  <2> QED
    BY <2>4, <2>5 DEF StreamTypes
<1>3. ASSUME NEW s \in Session, Fire(s)
      PROVE  StreamTypes'
  <2>1. /\ timer' = [timer EXCEPT ![s] = FALSE]
        /\ flush' = [flush EXCEPT ![Timer(s)] = Flush(s)]
    BY <1>3 DEF Fire
  <2>2. timer' \in [Session -> BOOLEAN] /\ flush' \in [Flusher -> Flushes]
    BY <2>1, TakeIsFlush DEF StreamTypes
  <2>3. UNCHANGED <<terminals, buffer, label, at, job, reply, frames, dead, remote, history>>
    BY <1>3 DEF Fire
  <2> QED
    BY <2>2, <2>3 DEF StreamTypes
<1> QED
  BY <1>1, <1>2, <1>3

\* The frames that start a stream, or that end the one of before.
LEMMA OpenTypes ==
    ASSUME StreamTypes, NEW s \in Session, NEW t \in Terminal,
           \/ \E last \in 0 .. MaxOutput : Open(s, t, last)
           \/ Create(s, t) \/ Close(s, t)
    PROVE  StreamTypes'
<1> USE DEF terminals, sessions, history
<1>p. "stop" \in Places /\ \A n \in 0 .. MaxOutput, u \in Terminal : [tty |-> u, last |-> n] \in Jobs
  BY StreamNumbers, JobFields DEF Places
<1>z. 0 \in 0 .. MaxOutput
  BY StreamNumbers
<1>f. Frame(s) => frames' \in [Session -> 0 .. MaxFrames]
  <2> SUFFICES ASSUME Frame(s)
               PROVE  frames' \in [Session -> 0 .. MaxFrames]
    OBVIOUS
  <2>1. frames' = [frames EXCEPT ![s] = frames[s] + 1] /\ frames[s] + 1 \in 0 .. MaxFrames
    BY StreamNumbers DEF Frame, StreamTypes
  <2> QED
    BY <2>1 DEF StreamTypes
<1>1. ASSUME NEW last \in 0 .. MaxOutput, Open(s, t, last)
      PROVE  StreamTypes'
  <2>1. Frame(s) /\ Stop(s, "stop", [tty |-> t, last |-> last])
        /\ UNCHANGED <<terminals, buffer, label, timer, reply, dead, remote, history>>
    BY <1>1 DEF Open
  <2>2. at' \in [Session -> Places] /\ job' \in [Session -> Jobs] /\ flush' \in [Flusher -> Flushes]
    BY <1>p, <2>1, StopTypes
  <2> QED
    BY <1>f, <2>1, <2>2 DEF StreamTypes
<1>2. CASE Create(s, t)
  <2>1. Frame(s) /\ Stop(s, "stop", [tty |-> t, last |-> 0]) /\ tty' = [tty EXCEPT ![t] = "open"]
        /\ UNCHANGED <<output, listeners, reader, lastInput, written, buffer, label, timer, reply, dead, remote, history>>
    BY <1>2 DEF Create
  <2>2. at' \in [Session -> Places] /\ job' \in [Session -> Jobs] /\ flush' \in [Flusher -> Flushes]
    BY <1>p, <1>z, <2>1, StopTypes
  <2>3. tty' \in [Terminal -> TtyStates]
    BY <2>1 DEF StreamTypes, TtyStates
  <2> QED
    BY <1>f, <2>1, <2>2, <2>3 DEF StreamTypes
<1>3. CASE Close(s, t)
  <2>1. Frame(s) /\ tty' = [tty EXCEPT ![t] = "removed"]
        /\ UNCHANGED <<output, listeners, reader, lastInput, written, buffer, label, timer, reply, dead, remote, history>>
    BY <1>3 DEF Close
  <2>2. \/ \E next \in Terminal : Stop(s, "stop", [tty |-> next, last |-> 0])
        \/ UNCHANGED <<at, job, flush>>
    BY <1>3 DEF Close
  <2>3. at' \in [Session -> Places] /\ job' \in [Session -> Jobs] /\ flush' \in [Flusher -> Flushes]
    <3>1. CASE UNCHANGED <<at, job, flush>>
      BY <3>1 DEF StreamTypes
    <3>2. ASSUME NEW next \in Terminal, Stop(s, "stop", [tty |-> next, last |-> 0])
          PROVE  at' \in [Session -> Places] /\ job' \in [Session -> Jobs] /\ flush' \in [Flusher -> Flushes]
      BY <1>p, <1>z, <3>2, StopTypes
    <3> QED
      BY <2>2, <3>1, <3>2
  <2>4. tty' \in [Terminal -> TtyStates]
    BY <2>1 DEF StreamTypes, TtyStates
  <2> QED
    BY <1>f, <2>1, <2>3, <2>4 DEF StreamTypes
<1> QED
  BY <1>1, <1>2, <1>3

\* From the end of one stream to the subscription to the next.
LEMMA StreamStartTypes ==
    ASSUME StreamTypes, PlaceInv, NEW s \in Session,
           Unsubscribe(s) \/ Attach(s) \/ Reply(s) \/ Subscribe(s)
    PROVE  StreamTypes'
<1> USE DEF terminals, sessions, history
<1>1. CASE Unsubscribe(s)
  <2>1. /\ listeners' = [t \in Terminal |-> listeners[t] \ {s}]
        /\ \E place \in Places : at' = [at EXCEPT ![s] = place]
        /\ UNCHANGED <<tty, output, reader, lastInput, written, buffer, label, timer, flush, job, reply, frames, dead, remote, history>>
    BY <1>1 DEF Unsubscribe, Go, Places
  <2>2. listeners' \in [Terminal -> SUBSET Session] /\ at' \in [Session -> Places]
    BY <2>1 DEF StreamTypes
  <2> QED
    BY <2>1, <2>2 DEF StreamTypes
<1>2. CASE Attach(s)
  <2> DEFINE t == job[s].tty
             last == job[s].last
  <2>1. t \in Terminal /\ last <= output[t]
    BY <1>2 DEF Attach, PlaceInv, Attaching
  <2>2. last \in 0 .. output[t] /\ output[t] \in 0 .. MaxOutput /\ output[t] \in 0 .. output[t]
    BY <2>1, JobFields, StreamNumbers DEF StreamTypes
  <2>3. /\ UpTo(t, last) \in SUBSET Chunk /\ UpTo(t, output[t]) \in SUBSET Chunk
        /\ Kept(t) \in SUBSET Chunk /\ Replay(s, t, last) \in SUBSET Chunk
    BY <2>1, <2>2, RepliesAreChunks
  <2>4. \E place \in Places : at' = [at EXCEPT ![s] = place]
    BY <1>2 DEF Attach, Go, Places
  <2>5. at' \in [Session -> Places]
    BY <2>4 DEF StreamTypes
  <2>6. told' = told \/ told' = [told EXCEPT ![s] = IF dead[s] THEN {} ELSE UpTo(t, last)]
    BY <1>2 DEF Attach
  <2>7. slipped' = slipped \/ slipped' = [slipped EXCEPT ![s] = {}]
    BY <1>2 DEF Attach
  <2>8. \/ withheld' = withheld
        \/ withheld' = [withheld EXCEPT ![s] = IF last > 0 /\ remote /\ ~dead[s] THEN Replay(s, t, last) ELSE {}]
    BY <1>2 DEF Attach
  <2>9. reply' = reply \/ \E r \in SUBSET Chunk : reply' = [reply EXCEPT ![s] = r]
    <3> DEFINE r == IF last = 0 THEN UpTo(t, output[t])
                    ELSE (IF Gap(t, last) THEN UpTo(t, output[t]) \ (UpTo(t, last) \cup Kept(t)) ELSE {})
                         \cup (IF remote THEN {} ELSE Replay(s, t, last))
    <3>1. r \in SUBSET Chunk
      BY <2>3
    <3>2. reply' = reply \/ reply' = [reply EXCEPT ![s] = r]
      BY <1>2 DEF Attach
    <3> QED
      BY <3>1, <3>2
  <2>t. /\ told \in [Session -> SUBSET Chunk] /\ slipped \in [Session -> SUBSET Chunk]
        /\ withheld \in [Session -> SUBSET Chunk] /\ reply \in [Session -> SUBSET Chunk]
    BY DEF StreamTypes
  <2>s. strayed' \in [Session -> SUBSET Chunk]
    <3>1. strayed' = strayed \/ strayed' = [strayed EXCEPT ![s] = {}]
      BY <1>2 DEF Attach
    <3>2. strayed \in [Session -> SUBSET Chunk] /\ {} \in SUBSET Chunk
      BY DEF StreamTypes
    <3> QED
      BY <3>1, <3>2, SetOf
  <2>10. told' \in [Session -> SUBSET Chunk] /\ slipped' \in [Session -> SUBSET Chunk]
    <3>1. (IF dead[s] THEN {} ELSE UpTo(t, last)) \in SUBSET Chunk /\ {} \in SUBSET Chunk
      BY <2>3
    <3>2. told' \in [Session -> SUBSET Chunk]
      BY <2>t, <2>6, <3>1, SetOf
    <3>3. slipped' \in [Session -> SUBSET Chunk]
      BY <2>t, <2>7, <3>1, SetOf
    <3> QED
      BY <3>2, <3>3
  <2>11. withheld' \in [Session -> SUBSET Chunk] /\ reply' \in [Session -> SUBSET Chunk]
    <3>1. (IF last > 0 /\ remote /\ ~dead[s] THEN Replay(s, t, last) ELSE {}) \in SUBSET Chunk
      BY <2>3
    <3> QED
      BY <2>t, <2>8, <2>9, <3>1, SetOf
  <2>12. UNCHANGED <<terminals, buffer, label, timer, flush, job, frames, dead, remote>>
    BY <1>2 DEF Attach
  <2> QED
    BY <2>5, <2>s, <2>10, <2>11, <2>12 DEF StreamTypes
<1>3. CASE Reply(s)
  <2>1. reply' = [reply EXCEPT ![s] = {}]
        /\ UNCHANGED <<terminals, buffer, label, timer, frames, dead, remote, slipped, withheld, strayed>>
    BY <1>3 DEF Reply
  <2>2. \/ Stop(s, "end", NoJob) /\ UNCHANGED told
        \/ /\ told' = [told EXCEPT ![s] = told[s] \cup reply[s]]
           /\ at' = [at EXCEPT ![s] = "subscribe"] /\ UNCHANGED <<job, flush>>
    BY <1>3 DEF Reply, Go
  <2>3. at' \in [Session -> Places] /\ job' \in [Session -> Jobs] /\ flush' \in [Flusher -> Flushes]
    <3>1. "end" \in Places /\ "subscribe" \in Places /\ NoJob \in Jobs
      BY JobFields DEF Places
    <3>2. CASE Stop(s, "end", NoJob)
      BY <3>1, <3>2, StopTypes
    <3>3. CASE at' = [at EXCEPT ![s] = "subscribe"] /\ UNCHANGED <<job, flush>>
      BY <3>1, <3>3 DEF StreamTypes
    <3> QED
      BY <2>2, <3>2, <3>3
  <2>4. told' \in [Session -> SUBSET Chunk] /\ reply' \in [Session -> SUBSET Chunk]
    <3>1. told \in [Session -> SUBSET Chunk] /\ reply \in [Session -> SUBSET Chunk]
      BY DEF StreamTypes
    <3>2. told[s] \cup reply[s] \in SUBSET Chunk /\ {} \in SUBSET Chunk
      BY <3>1
    <3>3. told' = told \/ told' = [told EXCEPT ![s] = told[s] \cup reply[s]]
      BY <2>2
    <3> QED
      BY <2>1, <3>1, <3>2, <3>3, SetOf
  <2> QED
    BY <2>1, <2>3, <2>4 DEF StreamTypes
<1>4. CASE Subscribe(s)
  <2>1. /\ at' = [at EXCEPT ![s] = "serve"] /\ "serve" \in Places
        /\ job' = [job EXCEPT ![s] = NoJob] /\ NoJob \in Jobs
        /\ UNCHANGED <<tty, output, reader, lastInput, written, buffer, label, timer, flush, reply, frames, dead, remote, history>>
    BY <1>4, JobFields DEF Subscribe, Go, Places
  <2>2. \/ listeners' = listeners
        \/ listeners' = [listeners EXCEPT ![job[s].tty] = listeners[job[s].tty] \cup {s}]
    BY <1>4 DEF Subscribe
  <2>3. job[s].tty \in Terminal
    BY <1>4 DEF Subscribe, PlaceInv, Attaching
  <2>4. at' \in [Session -> Places] /\ job' \in [Session -> Jobs]
    BY <2>1 DEF StreamTypes
  <2>5. listeners' \in [Terminal -> SUBSET Session]
    <3>1. listeners \in [Terminal -> SUBSET Session]
      BY DEF StreamTypes
    <3>2. listeners[job[s].tty] \cup {s} \in SUBSET Session
      BY <2>3, <3>1
    <3> QED
      BY <2>2, <2>3, <3>1, <3>2, SetOf
  <2> QED
    BY <2>1, <2>4, <2>5 DEF StreamTypes
<1> QED
  BY <1>1, <1>2, <1>3, <1>4

\* Input, and the end of a session.
LEMMA InputTypes ==
    ASSUME StreamTypes, InputInv, PlaceInv, NEW s \in Session,
           \/ \E t \in Terminal, n \in 1 .. MaxInput : Input(s, t, n)
           \/ Write(s) \/ Disconnect(s) \/ End(s) \/ Disable
    PROVE  StreamTypes'
<1> USE DEF terminals, sessions, history
<1>1. ASSUME NEW t \in Terminal, NEW n \in 1 .. MaxInput, Input(s, t, n)
      PROVE  StreamTypes'
  <2>1. /\ frames' = [frames EXCEPT ![s] = frames[s] + 1] /\ frames[s] < MaxFrames
        /\ UNCHANGED <<tty, output, listeners, reader, written, buffer, label, timer, flush, reply, dead, remote, history>>
    BY <1>1 DEF Input, Frame
  <2>2. frames' \in [Session -> 0 .. MaxFrames]
    BY <2>1, StreamNumbers DEF StreamTypes
  <2>3. \/ UNCHANGED <<lastInput, at, job>>
        \/ /\ lastInput' = [lastInput EXCEPT ![t] = n] /\ at' = [at EXCEPT ![s] = "write"]
           /\ job' = [job EXCEPT ![s] = [tty |-> t, last |-> n]]
    BY <1>1 DEF Input, Recording, Go
  <2>4. "write" \in Places /\ n \in 0 .. MaxInput /\ n \in 0 .. MaxOutput + MaxInput
    BY StreamNumbers DEF Places
  <2>5. [tty |-> t, last |-> n] \in Jobs
    BY <2>4, JobFields
  <2>6. lastInput' \in [Terminal -> 0 .. MaxInput] /\ at' \in [Session -> Places] /\ job' \in [Session -> Jobs]
    <3>1. lastInput \in [Terminal -> 0 .. MaxInput] /\ at \in [Session -> Places] /\ job \in [Session -> Jobs]
      BY DEF StreamTypes
    <3>2. CASE UNCHANGED <<lastInput, at, job>>
      BY <3>1, <3>2
    <3>3. CASE /\ lastInput' = [lastInput EXCEPT ![t] = n] /\ at' = [at EXCEPT ![s] = "write"]
               /\ job' = [job EXCEPT ![s] = [tty |-> t, last |-> n]]
      <4>1. lastInput' \in [Terminal -> 0 .. MaxInput]
        BY <2>4, <3>1, <3>3
      <4>2. at' \in [Session -> Places] /\ job' \in [Session -> Jobs]
        BY <2>4, <2>5, <3>1, <3>3
      <4> QED
        BY <4>1, <4>2
    <3> QED
      BY <2>3, <3>2, <3>3
  <2> QED
    BY <2>1, <2>2, <2>6 DEF StreamTypes
<1>2. CASE Write(s)
  <2> DEFINE t == job[s].tty
  <2>1. /\ at[s] = "write" /\ at' = [at EXCEPT ![s] = "serve"] /\ "serve" \in Places
        /\ UNCHANGED <<tty, output, listeners, reader, lastInput, buffer, label, timer, flush, job, reply, frames, dead, remote, history>>
    BY <1>2 DEF Write, Go, Places
  <2>2. written' = written \/ written' = [written EXCEPT ![t] = Append(written[t], job[s].last)]
    BY <1>2 DEF Write
  <2>3. t \in Terminal /\ job[s].last \in 1 .. lastInput[t]
    BY <2>1 DEF PlaceInv, InputInv
  <2>4. job[s].last \in Numbers
    <3>1. lastInput[t] \in 0 .. MaxInput
      BY <2>3 DEF StreamTypes
    <3> QED
      BY <2>3, <3>1, StreamNumbers DEF Numbers
  <2>5. written[t] \in Seq(Numbers)
    BY <2>3 DEF StreamTypes
  <2>6. Append(written[t], job[s].last) \in Seq(Numbers)
    BY <2>4, <2>5
  <2>7. written' \in [Terminal -> Seq(Numbers)] /\ at' \in [Session -> Places]
    BY <2>1, <2>2, <2>6 DEF StreamTypes
  <2> QED
    BY <2>1, <2>7 DEF StreamTypes
<1>3. CASE Disconnect(s)
  <2>1. /\ dead' = [dead EXCEPT ![s] = TRUE] /\ told' = [told EXCEPT ![s] = {}]
        /\ slipped' = [slipped EXCEPT ![s] = {}] /\ withheld' = [withheld EXCEPT ![s] = {}]
        /\ strayed' = [strayed EXCEPT ![s] = {}]
        /\ UNCHANGED <<terminals, buffer, label, timer, flush, at, job, reply, frames, remote>>
    BY <1>3 DEF Disconnect
  <2>2. /\ dead' \in [Session -> BOOLEAN] /\ told' \in [Session -> SUBSET Chunk]
        /\ slipped' \in [Session -> SUBSET Chunk] /\ withheld' \in [Session -> SUBSET Chunk]
        /\ strayed' \in [Session -> SUBSET Chunk]
    BY <2>1 DEF StreamTypes
  <2> QED
    BY <2>1, <2>2 DEF StreamTypes
<1>4. CASE End(s)
  <2>1. Stop(s, "end", NoJob) /\ "end" \in Places /\ NoJob \in Jobs
        /\ UNCHANGED <<terminals, buffer, label, timer, reply, frames, dead, remote, history>>
    BY <1>4, JobFields DEF End, Places
  <2>2. at' \in [Session -> Places] /\ job' \in [Session -> Jobs] /\ flush' \in [Flusher -> Flushes]
    BY <2>1, StopTypes
  <2> QED
    BY <2>1, <2>2 DEF StreamTypes
<1>5. CASE Disable
  BY <1>5 DEF Disable, StreamTypes
<1> QED
  BY <1>1, <1>2, <1>3, <1>4, <1>5

LEMMA StreamTypesStep ==
    ASSUME StreamTypes, FlushInv, PlaceInv, InputInv, [StreamNext]_streamVars
    PROVE  StreamTypes'
<1>1. CASE UNCHANGED streamVars
  BY <1>1 DEF streamVars, terminals, sessions, history, StreamTypes
<1>2. CASE StreamNext
  <2>1. CASE \E t \in Terminal : Read(t) \/ Exit(t) \/ \E s \in Session : Deliver(t, s)
    BY <2>1, ReaderTypes
  <2>2. CASE \/ \E f \in Flusher : Take(f) \/ Send(f)
             \/ \E s \in Session : Fire(s)
    BY <2>2, FlushTypes
  <2>3. CASE \E s \in Session, t \in Terminal :
                \/ \E last \in 0 .. MaxOutput : Open(s, t, last)
                \/ Create(s, t) \/ Close(s, t)
    BY <2>3, OpenTypes
  <2>4. CASE \E s \in Session : Unsubscribe(s) \/ Attach(s) \/ Reply(s) \/ Subscribe(s)
    BY <2>4, StreamStartTypes
  <2>5. CASE \E s \in Session :
                \/ \E t \in Terminal, n \in 1 .. MaxInput : Input(s, t, n)
                \/ Write(s) \/ Disconnect(s) \/ End(s)
    BY <2>5, InputTypes
  <2>6. CASE Disable
    BY <2>6 DEF Disable, StreamTypes, terminals, history
  <2> QED
    BY <1>2, <2>1, <2>2, <2>3, <2>4, <2>5, <2>6 DEF StreamNext
<1> QED
  BY <1>1, <1>2

\* Every frame that begins a stream or ends a session does so with Stop().
LEMMA StopIs ==
    ASSUME StreamTypes, NEW s \in Session, NEW next \in Places, NEW j \in Jobs, Stop(s, next, j)
    PROVE  /\ at'[s] = next /\ job'[s] = j /\ flush'[s] = Flush(s)
           /\ \A q \in Session : q # s => at'[q] = at[q] /\ job'[q] = job[q]
           /\ \A f \in Flusher : f # s => flush'[f] = flush[f]
<1>1. at' = [at EXCEPT ![s] = next] /\ job' = [job EXCEPT ![s] = j]
      /\ flush' = [flush EXCEPT ![s] = Flush(s)]
  BY DEF Stop, Go
<1>2. s \in Flusher
  BY FlushersAre
<1> QED
  BY <1>1, <1>2 DEF StreamTypes

LEMMA FlushIs ==
    ASSUME NEW s
    PROVE  Flush(s).at = "take" /\ Flush(s).to = s /\ Flush(s).data = {}
BY DEF Flush

LEMMA StopKeepsFlush ==
    ASSUME StreamTypes, FlushInv, NEW s \in Session, NEW next \in {"stop", "end"}, NEW j, Stop(s, next, j)
    PROVE  FlushInv'
<1>1. at' = [at EXCEPT ![s] = next] /\ flush' = [flush EXCEPT ![s] = Flush(s)]
  BY DEF Stop, Go
<1>2. /\ at'[s] = next /\ \A q \in Session : q # s => at'[q] = at[q]
      /\ \A f \in Flusher : f # s => flush'[f] = flush[f]
      /\ flush'[s].at = "take" /\ flush'[s].to = s /\ flush'[s].data = {}
  BY <1>1, FlushersAre, FlushIs DEF StreamTypes
<1>3. \A f \in Flusher : /\ flush'[f].at # "send" => flush'[f].data = {}
                         /\ flush'[f].at # "no" => flush'[f].to \in Session
  BY <1>2 DEF FlushInv
<1>4. \A q \in Session : at'[q] \notin {"stop", "end"} => flush'[q] = NoFlush
  BY <1>2, FlushersAre DEF FlushInv
<1> QED
  BY <1>3, <1>4 DEF FlushInv

LEMMA FlushStep ==
    ASSUME StreamTypes, FlushInv, [StreamNext]_streamVars
    PROVE  FlushInv'
<1> USE DEF terminals, sessions, history
<1>0. at \in [Session -> Places] /\ flush \in [Flusher -> Flushes]
  BY DEF StreamTypes
<1>a. ASSUME flush' = flush, \A s \in Session : at'[s] \notin {"stop", "end"} => flush[s] = NoFlush
      PROVE  FlushInv'
  BY <1>a DEF FlushInv
<1>b. ASSUME NEW f \in Flusher, NEW x, flush' = [flush EXCEPT ![f] = x], at' = at,
             x.at # "send" => x.data = {}, x.at # "no" => x.to \in Session,
             f \in Session => at[f] \in {"stop", "end"} \/ x = NoFlush
      PROVE  FlushInv'
  <2>1. \A g \in Flusher : flush'[g] = IF g = f THEN x ELSE flush[g]
    BY <1>0, <1>b
  <2>2. \A g \in Flusher : /\ flush'[g].at # "send" => flush'[g].data = {}
                           /\ flush'[g].at # "no" => flush'[g].to \in Session
    BY <1>b, <2>1 DEF FlushInv
  <2>3. \A s \in Session : at'[s] \notin {"stop", "end"} => flush'[s] = NoFlush
    BY <1>b, <2>1, FlushersAre DEF FlushInv
  <2> QED
    BY <2>2, <2>3 DEF FlushInv
<1>1. CASE UNCHANGED streamVars
  BY <1>1 DEF streamVars, FlushInv
<1>2. ASSUME NEW t \in Terminal, NEW s \in Session, Deliver(t, s)
      PROVE  FlushInv'
  <2>1. t \in Flusher /\ t \notin Session
    BY FlushersAre, StreamNumbers
  <2>2. at' = at /\ (flush' = flush \/ flush' = [flush EXCEPT ![t] = Flush(s)])
    BY <1>2 DEF Deliver
  <2>3. CASE flush' = flush
    BY <1>a, <2>2, <2>3 DEF FlushInv
  <2>4. CASE flush' = [flush EXCEPT ![t] = Flush(s)]
    BY <1>b, <2>1, <2>2, <2>4, FlushIs
  <2> QED
    BY <2>2, <2>3, <2>4
<1>3. ASSUME NEW s \in Session, Fire(s)
      PROVE  FlushInv'
  <2>1. Timer(s) \in Flusher /\ Timer(s) \notin Session
    BY FlushersAre, StreamNumbers
  <2>2. at' = at /\ flush' = [flush EXCEPT ![Timer(s)] = Flush(s)]
    BY <1>3 DEF Fire
  <2> QED
    BY <1>b, <2>1, <2>2, FlushIs
<1>4. ASSUME NEW f \in Flusher, Take(f)
      PROVE  FlushInv'
  <2> DEFINE s == flush[f].to
             x == IF buffer[s] = {} THEN NoFlush ELSE [at |-> "send", to |-> s, as |-> label[s], data |-> buffer[s]]
  <2>1. flush[f].at = "take" /\ at' = at /\ flush' = [flush EXCEPT ![f] = x]
    BY <1>4 DEF Take
  <2>2. s \in Session
    BY <2>1 DEF FlushInv
  <2>3. (x.at # "send" => x.data = {}) /\ (x.at # "no" => x.to \in Session)
    BY <2>2 DEF NoFlush
  <2>4. f \in Session => at[f] \in {"stop", "end"}
    BY <2>1 DEF FlushInv, NoFlush
  <2> HIDE DEF x
  <2> QED
    BY <1>b, <2>1, <2>3, <2>4
<1>5. ASSUME NEW f \in Flusher, Send(f)
      PROVE  FlushInv'
  <2>1. at' = at /\ flush' = [flush EXCEPT ![f] = NoFlush]
    BY <1>5 DEF Send
  <2>2. NoFlush.at = "no" /\ NoFlush.data = {}
    BY DEF NoFlush
  <2> QED
    BY <1>b, <2>1, <2>2
<1>6. ASSUME NEW s \in Session, Unsubscribe(s)
      PROVE  FlushInv'
  <2>1. flush' = flush /\ flush[s] = NoFlush /\ \E place : at' = [at EXCEPT ![s] = place]
    BY <1>6 DEF Unsubscribe, Go
  <2>2. \A q \in Session : q # s => at'[q] = at[q]
    BY <1>0, <2>1
  <2> QED
    BY <1>a, <2>1, <2>2 DEF FlushInv
<1>7. ASSUME NEW s \in Session, Attach(s) \/ Subscribe(s) \/ Write(s) \/ \E t \in Terminal, n \in 1 .. MaxInput : Input(s, t, n)
      PROVE  FlushInv'
  <2>1. /\ flush' = flush /\ at[s] \notin {"stop", "end"}
        /\ at' = at \/ \E place : at' = [at EXCEPT ![s] = place]
    BY <1>7 DEF Attach, Subscribe, Write, Input, Frame, Go
  <2>2. \A q \in Session : q # s => at'[q] = at[q]
    BY <1>0, <2>1
  <2> QED
    BY <1>a, <2>1, <2>2 DEF FlushInv
<1>8. ASSUME NEW s \in Session, Reply(s)
      PROVE  FlushInv'
  <2>1. CASE Stop(s, "end", NoJob)
    BY <2>1, StopKeepsFlush
  <2>2. CASE at' = [at EXCEPT ![s] = "subscribe"] /\ flush' = flush
    <3>1. \A q \in Session : q # s => at'[q] = at[q]
      BY <1>0, <2>2
    <3>2. flush[s] = NoFlush
      BY <1>8 DEF Reply, FlushInv
    <3> QED
      BY <1>a, <2>2, <3>1, <3>2 DEF FlushInv
  <2> QED
    BY <1>8, <2>1, <2>2 DEF Reply, Go
<1>9. ASSUME NEW s \in Session, NEW t \in Terminal,
             Create(s, t) \/ Close(s, t) \/ \E last \in 0 .. MaxOutput : Open(s, t, last)
      PROVE  FlushInv'
  <2>1. CASE \E next \in {"stop", "end"} : \E j : Stop(s, next, j)
    BY <2>1, StopKeepsFlush
  <2>2. CASE UNCHANGED <<at, flush>>
    BY <2>2 DEF FlushInv
  <2> QED
    BY <1>9, <2>1, <2>2 DEF Create, Close, Open
<1>10. CASE \/ \E t \in Terminal : Read(t) \/ Exit(t)
            \/ \E s \in Session : Disconnect(s)
            \/ Disable
  <2>1. UNCHANGED <<at, flush>>
    BY <1>10 DEF Read, Exit, Disconnect, Disable
  <2> QED
    BY <2>1 DEF FlushInv
<1>11. ASSUME NEW s \in Session, End(s)
       PROVE  FlushInv'
  BY <1>11, StopKeepsFlush DEF End
<1> QED
  BY <1>1, <1>2, <1>3, <1>4, <1>5, <1>6, <1>7, <1>8, <1>9, <1>10, <1>11 DEF StreamNext

LEMMA PlaceStep ==
    ASSUME StreamTypes, FlushInv, PlaceInv, [StreamNext]_streamVars
    PROVE  PlaceInv'
<1> USE DEF terminals, sessions, history
<1>0. /\ at \in [Session -> Places] /\ job \in [Session -> Jobs] /\ reply \in [Session -> SUBSET Chunk]
      /\ output \in [Terminal -> 0 .. MaxOutput] /\ listeners \in [Terminal -> SUBSET Session]
      /\ reader \in [Terminal -> SUBSET Session]
  BY DEF StreamTypes
<1>n. \A t \in Terminal : output[t] \in Nat
  BY <1>0, StreamNumbers
<1>a. ASSUME UNCHANGED <<at, job, reply, listeners, output>>, \A t \in Terminal : reader'[t] \subseteq reader[t]
      PROVE  PlaceInv'
  BY <1>a DEF PlaceInv
<1>b. ASSUME NEW s \in Session, UNCHANGED <<output, reader>>,
             \A t \in Terminal : listeners'[t] \subseteq listeners[t],
             \A q \in Session : q # s => at'[q] = at[q] /\ job'[q] = job[q] /\ reply'[q] = reply[q],
             at'[s] \in {"stop", "write"} \cup Attaching => job'[s].tty \in Terminal,
             at'[s] \in {"stop", "attach"} => job'[s].last <= output[job'[s].tty],
             at'[s] \in Attaching => \A t \in Terminal : s \notin listeners'[t],
             at'[s] # "reply" => reply'[s] = {}
      PROVE  PlaceInv'
  <2>1. ASSUME NEW q \in Session, q # s
        PROVE  /\ at'[q] \in {"stop", "write"} \cup Attaching => job'[q].tty \in Terminal
               /\ at'[q] \in {"stop", "attach"} => job'[q].last <= output'[job'[q].tty]
               /\ at'[q] \in Attaching => \A t \in Terminal : q \notin listeners'[t]
               /\ at'[q] # "reply" => reply'[q] = {}
    BY <1>b, <2>1 DEF PlaceInv
  <2>2. \A t \in Terminal : reader'[t] # {} => output'[t] > 0
    BY <1>b DEF PlaceInv
  <2>3. \A q \in Session : \A t, u \in Terminal : q \in listeners'[t] /\ q \in listeners'[u] => t = u
    BY <1>b DEF PlaceInv
  <2> QED
    BY <1>b, <2>1, <2>2, <2>3 DEF PlaceInv
<1>c. ASSUME NEW s \in Session, NEW next \in {"stop", "end"}, NEW j \in Jobs, Stop(s, next, j),
             (reply' = reply /\ at[s] = "serve") \/ reply' = [reply EXCEPT ![s] = {}],
             next = "stop" => j.tty \in Terminal /\ j.last <= output[j.tty], UNCHANGED <<output, reader, listeners>>
      PROVE  PlaceInv'
  <2>1. next \in Places /\ next \notin Attaching
    BY <1>c DEF Places, Attaching
  <2>2. /\ at'[s] = next /\ job'[s] = j
        /\ \A q \in Session : q # s => at'[q] = at[q] /\ job'[q] = job[q]
    <3>1. Stop(s, next, j) /\ next \in Places
      BY <1>c, <2>1
    <3> QED
      BY <3>1, StopIs
  <2>3. reply'[s] = {} /\ \A q \in Session : q # s => reply'[q] = reply[q]
    <3>1. at[s] = "serve" => reply[s] = {}
      BY DEF PlaceInv
    <3> QED
      BY <1>0, <1>c, <3>1
  <2> QED
    BY <1>b, <1>c, <2>1, <2>2, <2>3
<1>1. CASE UNCHANGED streamVars
  BY <1>1 DEF streamVars, PlaceInv
<1>2. ASSUME NEW t \in Terminal, Read(t)
      PROVE  PlaceInv'
  <2>1. output' = [output EXCEPT ![t] = output[t] + 1] /\ reader' = [reader EXCEPT ![t] = listeners[t]]
        /\ UNCHANGED <<at, job, reply, listeners>>
    BY <1>2 DEF Read
  <2>2. /\ output'[t] = output[t] + 1 /\ \A u \in Terminal : u # t => output'[u] = output[u] /\ reader'[u] = reader[u]
    BY <1>0, <2>1
  <2>3. \A u \in Terminal : output[u] <= output'[u]
    BY <1>n, <2>2
  <2>4. ASSUME NEW q \in Session, at'[q] \in {"stop", "attach"}
        PROVE  job'[q].last <= output'[job'[q].tty]
    <3>1. job[q].tty \in Terminal /\ job[q].last <= output[job[q].tty]
      BY <2>1, <2>4 DEF PlaceInv, Attaching
    <3>2. job[q].last \in Nat
      BY <1>0, JobFields, StreamNumbers
    <3>3. output'[job[q].tty] \in Nat
      BY <1>n, <2>2, <3>1
    <3> QED
      BY <1>n, <2>1, <2>3, <3>1, <3>2, <3>3
  <2>5. \A u \in Terminal : reader'[u] # {} => output'[u] > 0
    <3>1. output'[t] > 0
      BY <1>n, <2>2
    <3> QED
      BY <2>2, <3>1 DEF PlaceInv
  <2> QED
    BY <2>1, <2>4, <2>5 DEF PlaceInv
<1>3. CASE \/ \E t \in Terminal : Exit(t) \/ \E s \in Session : Deliver(t, s)
           \/ \E f \in Flusher : Take(f) \/ Send(f)
           \/ \E s \in Session : Fire(s) \/ Disconnect(s)
           \/ Disable
  <2>1. UNCHANGED <<at, job, reply, listeners, output>>
    BY <1>3 DEF Exit, Deliver, Take, Send, Fire, Disconnect, Disable
  <2>2. \A t \in Terminal : reader'[t] \subseteq reader[t]
    <3>1. CASE \E t \in Terminal, s \in Session : Deliver(t, s)
      <4>1. PICK t \in Terminal, s \in Session : Deliver(t, s)
        BY <3>1
      <4>2. reader' = [reader EXCEPT ![t] = reader[t] \ {s}]
        BY <4>1 DEF Deliver
      <4> QED
        BY <1>0, <4>2
    <3>2. CASE reader' = reader
      BY <3>2
    <3> QED
      BY <1>3, <3>1, <3>2 DEF Exit, Take, Send, Fire, Disconnect, Disable
  <2> QED
    BY <1>a, <2>1, <2>2
<1>4. ASSUME NEW s \in Session, Unsubscribe(s)
      PROVE  PlaceInv'
  <2>1. /\ at[s] \in {"stop", "end"} /\ listeners' = [t \in Terminal |-> listeners[t] \ {s}]
        /\ at' = [at EXCEPT ![s] = IF at[s] = "stop" THEN "attach" ELSE "ended"]
        /\ UNCHANGED <<output, reader, job, reply>>
    BY <1>4 DEF Unsubscribe, Go
  <2>2. /\ at'[s] = IF at[s] = "stop" THEN "attach" ELSE "ended"
        /\ \A q \in Session : q # s => at'[q] = at[q]
        /\ \A t \in Terminal : listeners'[t] \subseteq listeners[t] /\ s \notin listeners'[t]
    BY <1>0, <2>1
  <2>3. at[s] = "stop" => job[s].tty \in Terminal /\ job[s].last <= output[job[s].tty]
    BY DEF PlaceInv
  <2>4. reply[s] = {}
    BY <2>1 DEF PlaceInv
  <2>5. at'[s] # "stop" /\ at'[s] # "write" /\ (at'[s] \in Attaching => at[s] = "stop")
    BY <2>2 DEF Attaching
  <2> QED
    BY <1>b, <2>1, <2>2, <2>3, <2>4, <2>5
<1>5. ASSUME NEW s \in Session, Attach(s)
      PROVE  PlaceInv'
  <2>1. at[s] = "attach" /\ UNCHANGED <<output, reader, listeners, job>>
    BY <1>5 DEF Attach
  <2>2. \/ at' = [at EXCEPT ![s] = "serve"] /\ reply' = reply
        \/ at' = [at EXCEPT ![s] = "reply"] /\ \E r : reply' = [reply EXCEPT ![s] = r]
    BY <1>5 DEF Attach, Go
  <2>3. /\ (at'[s] = "serve" /\ reply' = reply) \/ at'[s] = "reply"
        /\ \A q \in Session : q # s => at'[q] = at[q] /\ reply'[q] = reply[q]
    BY <1>0, <2>2
  <2>4. job[s].tty \in Terminal /\ reply[s] = {} /\ \A t \in Terminal : s \notin listeners[t]
    BY <2>1 DEF PlaceInv, Attaching
  <2> QED
    BY <1>b, <2>1, <2>3, <2>4
<1>6. ASSUME NEW s \in Session, Reply(s)
      PROVE  PlaceInv'
  <2>1. at[s] = "reply" /\ reply' = [reply EXCEPT ![s] = {}] /\ UNCHANGED <<output, reader, listeners>>
    BY <1>6 DEF Reply
  <2>2. CASE Stop(s, "end", NoJob)
    BY <1>c, <2>1, <2>2, JobFields
  <2>3. CASE at' = [at EXCEPT ![s] = "subscribe"] /\ job' = job
    <3>1. /\ at'[s] = "subscribe" /\ reply'[s] = {}
          /\ \A q \in Session : q # s => at'[q] = at[q] /\ reply'[q] = reply[q]
      BY <1>0, <2>1, <2>3
    <3>2. job[s].tty \in Terminal /\ \A t \in Terminal : s \notin listeners[t]
      BY <2>1 DEF PlaceInv, Attaching
    <3> QED
      BY <1>b, <2>1, <2>3, <3>1, <3>2
  <2> QED
    BY <1>6, <2>2, <2>3 DEF Reply, Go
<1>7. ASSUME NEW s \in Session, Subscribe(s)
      PROVE  PlaceInv'
  <2>1. /\ at[s] = "subscribe" /\ at' = [at EXCEPT ![s] = "serve"] /\ job' = [job EXCEPT ![s] = NoJob]
        /\ UNCHANGED <<output, reader, reply>>
    BY <1>7 DEF Subscribe, Go
  <2>2. at'[s] = "serve" /\ \A q \in Session : q # s => at'[q] = at[q] /\ job'[q] = job[q]
    BY <1>0, <2>1
  <2>3. \A q \in Session, t \in Terminal : q # s => (q \in listeners'[t] => q \in listeners[t])
    <3>1. \/ listeners' = listeners
          \/ listeners' = [listeners EXCEPT ![job[s].tty] = listeners[job[s].tty] \cup {s}]
      BY <1>7 DEF Subscribe
    <3> QED
      BY <1>0, <3>1
  <2>4. reply[s] = {}
    BY <2>1 DEF PlaceInv
  <2>5. ASSUME NEW q \in Session
        PROVE  /\ at'[q] \in {"stop", "write"} \cup Attaching => job'[q].tty \in Terminal
               /\ at'[q] \in {"stop", "attach"} => job'[q].last <= output'[job'[q].tty]
               /\ at'[q] \in Attaching => \A t \in Terminal : q \notin listeners'[t]
               /\ at'[q] # "reply" => reply'[q] = {}
    <3>1. CASE q = s
      BY <2>1, <2>2, <2>4, <3>1 DEF Attaching
    <3>2. CASE q # s
      BY <2>1, <2>2, <2>3, <3>2 DEF PlaceInv
    <3> QED
      BY <3>1, <3>2
  <2>6. \A t \in Terminal : reader'[t] # {} => output'[t] > 0
    BY <2>1 DEF PlaceInv
  <2>7. \A q \in Session : \A t, u \in Terminal : q \in listeners'[t] /\ q \in listeners'[u] => t = u
    <3>1. \A t \in Terminal : s \in listeners'[t] => t = job[s].tty
      <4>1. \A t \in Terminal : s \notin listeners[t]
        BY <2>1 DEF PlaceInv, Attaching
      <4>2. \/ listeners' = listeners
            \/ listeners' = [listeners EXCEPT ![job[s].tty] = listeners[job[s].tty] \cup {s}]
        BY <1>7 DEF Subscribe
      <4> QED
        BY <1>0, <4>1, <4>2
    <3> QED
      BY <2>3, <3>1 DEF PlaceInv
  <2> QED
    BY <2>5, <2>6, <2>7 DEF PlaceInv
<1>8. ASSUME NEW s \in Session, NEW t \in Terminal, NEW n \in 1 .. MaxInput, Input(s, t, n)
      PROVE  PlaceInv'
  <2>1. at[s] = "serve" /\ UNCHANGED <<output, reader, listeners, reply>>
    BY <1>8 DEF Input, Frame
  <2>2. \/ UNCHANGED <<at, job>>
        \/ at' = [at EXCEPT ![s] = "write"] /\ job' = [job EXCEPT ![s] = [tty |-> t, last |-> n]]
    BY <1>8 DEF Input, Go
  <2>3. /\ \A q \in Session : q # s => at'[q] = at[q] /\ job'[q] = job[q]
        /\ at'[s] = "serve" \/ (at'[s] = "write" /\ job'[s].tty = t)
    BY <1>0, <2>1, <2>2
  <2>4. reply[s] = {}
    BY <2>1 DEF PlaceInv
  <2> QED
    BY <1>b, <2>1, <2>3, <2>4 DEF Attaching
<1>9. ASSUME NEW s \in Session, Write(s)
      PROVE  PlaceInv'
  <2>1. at[s] = "write" /\ at' = [at EXCEPT ![s] = "serve"] /\ UNCHANGED <<output, reader, listeners, reply, job>>
    BY <1>9 DEF Write, Go
  <2>2. at'[s] = "serve" /\ \A q \in Session : q # s => at'[q] = at[q]
    BY <1>0, <2>1
  <2>3. reply[s] = {}
    BY <2>1 DEF PlaceInv
  <2> QED
    BY <1>b, <2>1, <2>2, <2>3 DEF Attaching
<1>10. ASSUME NEW s \in Session, End(s)
       PROVE  PlaceInv'
  <2>1. Stop(s, "end", NoJob) /\ at[s] = "serve" /\ UNCHANGED <<output, reader, listeners, reply>>
    BY <1>10 DEF End
  <2> QED
    BY <1>c, <2>1, JobFields
<1>11. ASSUME NEW s \in Session, NEW t \in Terminal,
              Create(s, t) \/ Close(s, t) \/ \E last \in 0 .. MaxOutput : Open(s, t, last)
       PROVE  PlaceInv'
  <2>1. at[s] = "serve" /\ UNCHANGED <<output, reader, listeners, reply>>
    BY <1>11 DEF Create, Close, Open, Frame
  <2>2. CASE UNCHANGED <<at, job>>
    BY <1>a, <2>1, <2>2
  <2>3. ASSUME NEW u \in Terminal, NEW last \in 0 .. MaxOutput, last <= output[u], Stop(s, "stop", [tty |-> u, last |-> last])
        PROVE  PlaceInv'
    <3>1. last \in 0 .. MaxOutput + MaxInput
      BY StreamNumbers
    <3>2. [tty |-> u, last |-> last] \in Jobs
      BY <3>1, JobFields
    <3> QED
      BY <1>c, <2>1, <2>3, <3>2
  <2>4. \/ UNCHANGED <<at, job>>
        \/ \E u \in Terminal, last \in 0 .. MaxOutput : last <= output[u] /\ Stop(s, "stop", [tty |-> u, last |-> last])
    <3>1. 0 \in 0 .. MaxOutput /\ \A u \in Terminal : 0 <= output[u]
      BY <1>n, StreamNumbers
    <3>2. CASE Create(s, t)
      BY <3>1, <3>2 DEF Create
    <3>3. CASE Close(s, t)
      BY <3>1, <3>3 DEF Close
    <3>4. CASE \E last \in 0 .. MaxOutput : Open(s, t, last)
      BY <3>4 DEF Open
    <3> QED
      BY <1>11, <3>2, <3>3, <3>4
  <2> QED
    BY <2>2, <2>3, <2>4
<1> QED
  BY <1>1, <1>2, <1>3, <1>4, <1>5, <1>6, <1>7, <1>8, <1>9, <1>10, <1>11 DEF StreamNext

LEMMA InputStep ==
    ASSUME StreamTypes, PlaceInv, InputInv, [StreamNext]_streamVars
    PROVE  InputInv'
<1> USE DEF terminals, sessions, history
<1>0. /\ at \in [Session -> Places] /\ job \in [Session -> Jobs]
      /\ lastInput \in [Terminal -> 0 .. MaxInput] /\ written \in [Terminal -> Seq(Numbers)]
  BY DEF StreamTypes
<1>n. /\ \A t \in Terminal : lastInput[t] \in Nat /\ Len(written[t]) \in Nat
      /\ \A t \in Terminal : \A i \in 1 .. Len(written[t]) : written[t][i] \in Nat
  <2>1. \A t \in Terminal : lastInput[t] \in Nat /\ written[t] \in Seq(Numbers)
    BY <1>0, StreamNumbers
  <2>2. \A w \in Seq(Numbers) : Len(w) \in Nat /\ \A i \in 1 .. Len(w) : w[i] \in Numbers
    OBVIOUS
  <2>3. \A m \in Numbers : m \in Nat
    BY StreamNumbers DEF Numbers
  <2> QED
    BY <2>1, <2>2, <2>3
<1>i. /\ \A t \in Terminal : \A i \in 1 .. Len(written[t]) : written[t][i] <= lastInput[t]
      /\ \A s \in Session : at[s] = "write" =>
            /\ job[s].last \in 1 .. lastInput[job[s].tty]
            /\ \A i \in 1 .. Len(written[job[s].tty]) : written[job[s].tty][i] # job[s].last
      /\ \A r, s \in Session : at[r] = "write" /\ at[s] = "write" /\ job[r] = job[s] => r = s
      /\ \A t \in Terminal : \A i, j \in 1 .. Len(written[t]) : i # j => written[t][i] # written[t][j]
  BY DEF InputInv, InputIsWrittenOnce
<1>a. ASSUME UNCHANGED <<lastInput, written>>,
             \A s \in Session : at'[s] = "write" => at[s] = "write" /\ job'[s] = job[s]
      PROVE  InputInv'
  <2>1. \A s \in Session : at'[s] = "write" =>
            /\ job'[s].last \in 1 .. lastInput'[job'[s].tty]
            /\ \A i \in 1 .. Len(written'[job'[s].tty]) : written'[job'[s].tty][i] # job'[s].last
    BY <1>a, <1>i
  <2>2. \A r, s \in Session : at'[r] = "write" /\ at'[s] = "write" /\ job'[r] = job'[s] => r = s
    BY <1>a, <1>i
  <2> QED
    BY <1>a, <1>i, <2>1, <2>2 DEF InputInv, InputIsWrittenOnce
<1>s. ASSUME NEW s \in Session, NEW next \in {"stop", "end"}, NEW j, Stop(s, next, j), UNCHANGED <<lastInput, written>>
      PROVE  InputInv'
  <2>1. at' = [at EXCEPT ![s] = next] /\ job' = [job EXCEPT ![s] = j]
    BY <1>s DEF Stop, Go
  <2>2. at'[s] = next /\ \A q \in Session : q # s => at'[q] = at[q] /\ job'[q] = job[q]
    BY <1>0, <2>1
  <2> QED
    BY <1>a, <1>s, <2>2
<1>1. CASE \/ UNCHANGED streamVars
           \/ \E t \in Terminal : Read(t) \/ Exit(t) \/ \E s \in Session : Deliver(t, s)
           \/ \E f \in Flusher : Take(f) \/ Send(f)
           \/ \E s \in Session : Fire(s) \/ Disconnect(s)
           \/ Disable
  <2>1. UNCHANGED <<at, job, lastInput, written>>
    BY <1>1 DEF streamVars, Read, Exit, Deliver, Take, Send, Fire, Disconnect, Disable
  <2> QED
    BY <1>a, <2>1
<1>2. ASSUME NEW s \in Session, Unsubscribe(s) \/ Attach(s) \/ Reply(s) \/ Subscribe(s) \/ End(s)
      PROVE  InputInv'
  <2>1. UNCHANGED <<lastInput, written>>
    BY <1>2 DEF Unsubscribe, Attach, Reply, Subscribe, End
  <2>2. CASE Stop(s, "end", NoJob)
    BY <1>s, <2>1, <2>2
  <2>3. CASE /\ \E place \in Places \ {"write"} : at' = [at EXCEPT ![s] = place]
             /\ job' = job \/ job' = [job EXCEPT ![s] = NoJob]
    <3>1. at'[s] # "write" /\ \A q \in Session : q # s => at'[q] = at[q] /\ job'[q] = job[q]
      BY <1>0, <2>3
    <3> QED
      BY <1>a, <2>1, <3>1
  <2>4. CASE Unsubscribe(s) \/ Attach(s) \/ Subscribe(s)
    <3>1. job' = job \/ job' = [job EXCEPT ![s] = NoJob]
      BY <2>4 DEF Unsubscribe, Attach, Subscribe
    <3>2. \/ at' = [at EXCEPT ![s] = "attach"] \/ at' = [at EXCEPT ![s] = "ended"]
          \/ at' = [at EXCEPT ![s] = "serve"] \/ at' = [at EXCEPT ![s] = "reply"]
      BY <2>4 DEF Unsubscribe, Attach, Subscribe, Go
    <3> QED
      BY <2>3, <3>1, <3>2 DEF Places
  <2>5. CASE Reply(s)
    <3>1. Stop(s, "end", NoJob) \/ (at' = [at EXCEPT ![s] = "subscribe"] /\ job' = job)
      BY <2>5 DEF Reply, Go
    <3> QED
      BY <2>2, <2>3, <3>1 DEF Places
  <2> QED
    BY <1>2, <2>2, <2>4, <2>5 DEF End
<1>3. ASSUME NEW s \in Session, NEW t \in Terminal,
             Create(s, t) \/ Close(s, t) \/ \E last \in 0 .. MaxOutput : Open(s, t, last)
      PROVE  InputInv'
  <2>1. UNCHANGED <<lastInput, written>>
    BY <1>3 DEF Create, Close, Open
  <2>2. UNCHANGED <<at, job>> \/ \E j : Stop(s, "stop", j)
    BY <1>3 DEF Create, Close, Open
  <2> QED
    BY <1>a, <1>s, <2>1, <2>2
<1>4. ASSUME NEW s \in Session, NEW t \in Terminal, NEW n \in 1 .. MaxInput, Input(s, t, n)
      PROVE  InputInv'
  <2>1. at[s] = "serve" /\ written' = written
    BY <1>4 DEF Input, Frame
  <2>2. CASE n <= lastInput[t]
    BY <1>4, <1>a, <2>1, <2>2 DEF Input
  <2>3. CASE ~(n <= lastInput[t])
    <3> DEFINE j == [tty |-> t, last |-> n]
    <3>1. /\ lastInput' = [lastInput EXCEPT ![t] = n] /\ at' = [at EXCEPT ![s] = "write"]
          /\ job' = [job EXCEPT ![s] = j]
      BY <1>4, <2>3 DEF Input, Recording, Go
    <3>2. /\ lastInput'[t] = n /\ \A u \in Terminal : u # t => lastInput'[u] = lastInput[u]
          /\ at'[s] = "write" /\ job'[s] = j
          /\ \A q \in Session : q # s => at'[q] = at[q] /\ job'[q] = job[q]
      BY <1>0, <3>1
    <3>3. n \in Nat /\ n > lastInput[t] /\ n >= 1
      BY <1>n, <2>3, StreamNumbers
    <3>4. \A u \in Terminal : lastInput'[u] \in Nat /\ lastInput[u] <= lastInput'[u]
      BY <1>n, <3>2, <3>3
    <3>5. ASSUME NEW u \in Terminal, NEW i \in 1 .. Len(written[u])
          PROVE  written[u][i] <= lastInput'[u]
      BY <1>i, <1>n, <3>4
    <3>6. \A i \in 1 .. Len(written[t]) : written[t][i] # n
      <4>1. \A i \in 1 .. Len(written[t]) : written[t][i] <= lastInput[t] /\ written[t][i] \in Nat
        BY <1>i, <1>n
      <4> QED
        BY <1>n, <3>3, <4>1
    <3>7. ASSUME NEW q \in Session, at'[q] = "write"
          PROVE  /\ job'[q].last \in 1 .. lastInput'[job'[q].tty]
                 /\ \A i \in 1 .. Len(written'[job'[q].tty]) : written'[job'[q].tty][i] # job'[q].last
      <4>1. CASE q = s
        <5>1. job'[q].last = n /\ job'[q].tty = t
          BY <3>2, <4>1
        <5> QED
          BY <2>1, <3>2, <3>3, <3>6, <5>1
      <4>2. CASE q # s
        <5>1. at[q] = "write" /\ job'[q] = job[q] /\ job[q].tty \in Terminal
          BY <3>2, <3>7, <4>2 DEF PlaceInv
        <5>2. job[q].last \in 1 .. lastInput[job[q].tty]
          BY <1>i, <5>1
        <5>3. job[q].last \in 1 .. lastInput'[job[q].tty]
          BY <1>n, <3>4, <5>1, <5>2
        <5> QED
          BY <1>i, <2>1, <5>1, <5>3
      <4> QED
        BY <4>1, <4>2
    <3>8. ASSUME NEW q \in Session, q # s, at'[q] = "write"
          PROVE  job'[q] # j
      <4>1. CASE job[q].tty = t
        <5>1. job[q].last \in 1 .. lastInput[t]
          BY <1>i, <3>2, <3>8, <4>1
        <5> QED
          BY <1>n, <3>2, <3>3, <3>8, <5>1
      <4>2. CASE job[q].tty # t
        BY <3>2, <3>8, <4>2
      <4> QED
        BY <4>1, <4>2
    <3>9. \A q, r \in Session : at'[q] = "write" /\ at'[r] = "write" /\ job'[q] = job'[r] => q = r
      <4> SUFFICES ASSUME NEW q \in Session, NEW r \in Session, at'[q] = "write", at'[r] = "write", job'[q] = job'[r]
                   PROVE  q = r
        OBVIOUS
      <4>1. CASE q = s
        BY <3>2, <3>8, <4>1
      <4>2. CASE r = s
        BY <3>2, <3>8, <4>2
      <4>3. CASE q # s /\ r # s
        BY <1>i, <3>2, <4>3
      <4> QED
        BY <4>1, <4>2, <4>3
    <3> QED
      BY <1>i, <2>1, <3>5, <3>7, <3>9 DEF InputInv, InputIsWrittenOnce
  <2> QED
    BY <2>2, <2>3
<1>5. ASSUME NEW s \in Session, Write(s)
      PROVE  InputInv'
  <2> DEFINE t == job[s].tty
             n == job[s].last
  <2>1. at[s] = "write" /\ at' = [at EXCEPT ![s] = "serve"] /\ UNCHANGED <<lastInput, job>>
    BY <1>5 DEF Write, Go
  <2>2. at'[s] = "serve" /\ \A q \in Session : q # s => at'[q] = at[q]
    BY <1>0, <2>1
  <2>3. CASE written' = written
    BY <1>a, <2>1, <2>2, <2>3
  <2>4. CASE written' = [written EXCEPT ![t] = Append(written[t], n)]
    <3> DEFINE k == Len(written[t]) + 1
    <3>1. t \in Terminal /\ n \in 1 .. lastInput[t] /\ \A i \in 1 .. Len(written[t]) : written[t][i] # n
      BY <1>i, <2>1 DEF PlaceInv
    <3>2. written'[t] = Append(written[t], n) /\ \A u \in Terminal : u # t => written'[u] = written[u]
      BY <1>0, <2>4, <3>1
    <3>3. written[t] \in Seq(Numbers) /\ Len(written[t]) \in Nat
      BY <1>0, <1>n, <3>1
    <3>4. /\ Len(written'[t]) = k /\ written'[t][k] = n
          /\ \A i \in 1 .. Len(written[t]) : written'[t][i] = written[t][i]
      BY <3>2, <3>3
    <3>5. \A i \in 1 .. Len(written'[t]) : i = k \/ i \in 1 .. Len(written[t])
      BY <3>3, <3>4
    <3>6. \A u \in Terminal : \A i \in 1 .. Len(written'[u]) : written'[u][i] <= lastInput'[u]
      <4>1. \A i \in 1 .. Len(written'[t]) : written'[t][i] <= lastInput[t]
        <5>1. n <= lastInput[t]
          BY <1>n, <3>1
        <5> QED
          BY <1>i, <3>1, <3>4, <3>5, <5>1
      <4> QED
        BY <1>i, <2>1, <3>2, <4>1
    <3>7. \A u \in Terminal : \A i, j \in 1 .. Len(written'[u]) : i # j => written'[u][i] # written'[u][j]
      <4>1. \A i, j \in 1 .. Len(written'[t]) : i # j => written'[t][i] # written'[t][j]
        <5> SUFFICES ASSUME NEW i \in 1 .. Len(written'[t]), NEW j \in 1 .. Len(written'[t]), i # j
                     PROVE  written'[t][i] # written'[t][j]
          OBVIOUS
        <5>1. CASE i = k
          BY <3>1, <3>4, <3>5, <5>1
        <5>2. CASE j = k
          BY <3>1, <3>4, <3>5, <5>2
        <5>3. CASE i # k /\ j # k
          <6>1. i \in 1 .. Len(written[t]) /\ j \in 1 .. Len(written[t])
            BY <3>5, <5>3
          <6> QED
            BY <1>i, <3>1, <3>4, <6>1
        <5> QED
          BY <5>1, <5>2, <5>3
      <4>2. ASSUME NEW u \in Terminal, u # t
            PROVE  \A i, j \in 1 .. Len(written'[u]) : i # j => written'[u][i] # written'[u][j]
        <5>1. written'[u] = written[u]
          BY <3>2, <4>2
        <5> QED
          BY <1>i, <5>1
      <4> QED
        BY <4>1, <4>2
    <3>8. ASSUME NEW q \in Session, at'[q] = "write"
          PROVE  /\ job'[q].last \in 1 .. lastInput'[job'[q].tty]
                 /\ \A i \in 1 .. Len(written'[job'[q].tty]) : written'[job'[q].tty][i] # job'[q].last
      <4>1. q # s /\ at[q] = "write" /\ job[q].tty \in Terminal
        BY <2>2, <3>8 DEF PlaceInv
      <4>2. /\ job[q].last \in 1 .. lastInput[job[q].tty]
            /\ \A i \in 1 .. Len(written[job[q].tty]) : written[job[q].tty][i] # job[q].last
        BY <1>i, <4>1
      <4>3. CASE job[q].tty # t
        BY <2>1, <3>2, <4>1, <4>2, <4>3
      <4>4. CASE job[q].tty = t
        <5>1. job[q] # job[s]
          BY <1>i, <2>1, <4>1
        <5>2. job[q].last # n
          BY <1>0, <4>4, <5>1, JobFields
        <5> QED
          BY <2>1, <3>4, <3>5, <4>2, <4>4, <5>2
      <4> QED
        BY <4>3, <4>4
    <3>9. \A q, r \in Session : at'[q] = "write" /\ at'[r] = "write" /\ job'[q] = job'[r] => q = r
      BY <1>i, <2>1, <2>2
    <3> QED
      BY <3>6, <3>7, <3>8, <3>9 DEF InputInv, InputIsWrittenOnce
  <2> QED
    BY <1>5, <2>3, <2>4 DEF Write
<1> QED
  BY <1>1, <1>2, <1>3, <1>4, <1>5 DEF StreamNext

\* A step that starts no listener and lets go of no chunk owes nothing new.
LEMMA CoverFrame ==
    ASSUME CoverInv, UNCHANGED output,
           \A s \in Session, t \in Terminal : Owed(s, t)' => Owed(s, t),
           \A s \in Session, t \in Terminal : \A m \in 1 .. output[t] :
               ~dead'[s] /\ Has(s, <<t, m>>) => Has(s, <<t, m>>)'
    PROVE  CoverInv'
<1> SUFFICES ASSUME NEW s \in Session, NEW t \in Terminal, Owed(s, t)', NEW m \in 1 .. output'[t]
             PROVE  Has(s, <<t, m>>)'
  BY DEF CoverInv
<1>1. Owed(s, t) /\ ~dead'[s] /\ m \in 1 .. output[t]
  BY DEF Owed
<1>2. Has(s, <<t, m>>)
  BY <1>1 DEF CoverInv
<1> QED
  BY <1>1, <1>2

\* A gap is told of, or nothing after the last chunk of the client is lost.
LEMMA GapOrKept ==
    ASSUME NEW t \in Terminal, output[t] \in Nat, NEW last \in Nat, ~Gap(t, last),
           NEW m \in 1 .. output[t], m > last
    PROVE  <<t, m>> \in Kept(t)
<1>1. PICK c \in Kept(t) : ~(last + 1 < c[2])
  BY DEF Gap
<1>2. PICK n \in 1 .. output[t] : c = <<t, n>> /\ n + Ring > output[t]
  BY <1>1 DEF Kept
<1>3. c[2] = n
  BY <1>2
<1>4. ~(last + 1 < n) /\ n \in Nat /\ m \in Nat
  BY <1>1, <1>3
<1>5. n <= m
  BY <1>4
<1>6. m + Ring > output[t]
  BY <1>2, <1>4, <1>5, StreamNumbers
<1> QED
  BY <1>6 DEF Kept

\* What attach() prepares covers the output so far.
LEMMA AttachCovers ==
    ASSUME StreamTypes, NEW s \in Session, Attach(s), ~dead[s], at'[s] = "reply",
           NEW t \in Terminal, t = job[s].tty, NEW m \in 1 .. output[t]
    PROVE  Has(s, <<t, m>>)'
<1> DEFINE last == job[s].last
           gone == UpTo(t, output[t]) \ (UpTo(t, last) \cup Kept(t))
           c == <<t, m>>
<1>1. /\ told' = [told EXCEPT ![s] = IF dead[s] THEN {} ELSE UpTo(t, last)]
      /\ withheld' = [withheld EXCEPT ![s] = IF last > 0 /\ remote /\ ~dead[s] THEN Replay(s, t, last) ELSE {}]
      /\ reply' = [reply EXCEPT ![s] =
             IF last = 0 THEN UpTo(t, output[t])
             ELSE (IF Gap(t, last) THEN gone ELSE {}) \cup (IF remote THEN {} ELSE Replay(s, t, last))]
  <2>1. at \in [Session -> Places]
    BY DEF StreamTypes
  <2>2. tty[t] # "removed"
    BY <2>1 DEF Attach, Go
  <2> QED
    BY <2>2 DEF Attach
<1>2. told'[s] = UpTo(t, last)
  BY <1>1 DEF StreamTypes
<1>3. withheld'[s] = IF last > 0 /\ remote THEN Replay(s, t, last) ELSE {}
  BY <1>1 DEF StreamTypes
<1>4. reply'[s] = IF last = 0 THEN UpTo(t, output[t])
                  ELSE (IF Gap(t, last) THEN gone ELSE {}) \cup (IF remote THEN {} ELSE Replay(s, t, last))
  BY <1>1 DEF StreamTypes
<1>5. last \in Nat /\ output[t] \in Nat
  <2>1. output[t] \in 0 .. MaxOutput /\ job[s] \in Jobs
    BY DEF StreamTypes
  <2> QED
    BY <2>1, JobFields, StreamNumbers
<1>6. c \in UpTo(t, output[t])
  BY DEF UpTo
<1>7. CASE last = 0
  BY <1>4, <1>6, <1>7 DEF Has
<1>8. CASE last # 0 /\ m <= last
  <2>1. c \in UpTo(t, last)
    BY <1>5, <1>8 DEF UpTo
  <2> QED
    BY <1>2, <2>1 DEF Has
<1>9. CASE last # 0 /\ m > last
  <2>1. CASE c \in Kept(t)
    <3>1. c \in Replay(s, t, last)
      BY <1>9, <2>1 DEF Replay
    <3>2. c \in withheld'[s] \/ c \in reply'[s]
      BY <1>3, <1>4, <1>5, <1>9, <3>1
    <3> QED
      BY <3>2 DEF Has
  <2>2. CASE c \notin Kept(t)
    <3>1. Gap(t, last)
      BY <1>5, <1>9, <2>2, GapOrKept
    <3>2. c \notin UpTo(t, last)
      BY <1>5, <1>9 DEF UpTo
    <3>3. c \in reply'[s]
      BY <1>4, <1>6, <1>9, <2>2, <3>1, <3>2
    <3> QED
      BY <3>3 DEF Has
  <2> QED
    BY <2>1, <2>2
<1> QED
  BY <1>5, <1>7, <1>8, <1>9

\* A step that only begins or ends a flush without chunks lets go of none.
LEMMA DataIsUnderstood ==
    ASSUME NEW f, NEW c, c \in Understood(f)
    PROVE  flush[f].data # {}
BY DEF Understood

LEMMA HasFrame ==
    ASSUME NEW s \in Session, NEW c, Has(s, c),
           UNCHANGED <<buffer, label, reader, output, told, slipped, withheld, strayed, reply>>,
           \A f \in Flusher : flush[f].data = {} \/ flush'[f] = flush[f]
    PROVE  Has(s, c)'
<1>1. CASE \E f \in Flusher : flush[f].to = s /\ c \in Understood(f)
  <2>1. PICK f \in Flusher : flush[f].to = s /\ c \in Understood(f)
    BY <1>1
  <2>2. flush'[f] = flush[f]
    BY <2>1, DataIsUnderstood
  <2>3. flush'[f].to = s /\ c \in Understood(f)'
    BY <2>1, <2>2 DEF Understood
  <2> QED
    BY <2>3 DEF Has
<1>2. CASE ~\E f \in Flusher : flush[f].to = s /\ c \in Understood(f)
  BY <1>2 DEF Has
<1> QED
  BY <1>1, <1>2

LEMMA CoverRead ==
    ASSUME StreamTypes, CoverInv, NEW t \in Terminal, Read(t)
    PROVE  CoverInv'
<1> USE DEF terminals, sessions, history
<1>1. /\ reader[t] = {} /\ output' = [output EXCEPT ![t] = output[t] + 1]
      /\ reader' = [reader EXCEPT ![t] = listeners[t]]
      /\ slipped' = [s \in Session |->
           IF at[s] \in {"reply", "subscribe"} /\ job[s].tty = t /\ ~dead[s]
             THEN slipped[s] \cup {<<t, output[t] + 1>>} ELSE slipped[s]]
      /\ UNCHANGED <<at, job, dead, listeners, buffer, label, flush, told, withheld, strayed, reply>>
  BY DEF Read
<1>2. /\ output'[t] = output[t] + 1 /\ reader'[t] = listeners[t] /\ output[t] \in Nat
      /\ \A u \in Terminal : u # t => output'[u] = output[u] /\ reader'[u] = reader[u]
  <2>1. output \in [Terminal -> 0 .. MaxOutput] /\ reader \in [Terminal -> SUBSET Session]
    BY DEF StreamTypes
  <2> QED
    BY <1>1, <2>1, StreamNumbers
<1> SUFFICES ASSUME NEW s \in Session, NEW u \in Terminal, Owed(s, u)', NEW m \in 1 .. output'[u]
             PROVE  Has(s, <<u, m>>)'
  BY DEF CoverInv
<1>3. Owed(s, u)
  BY <1>1 DEF Owed
<1>4. slipped[s] \subseteq slipped'[s]
  BY <1>1
<1>5. CASE u = t /\ m = output[t] + 1
  <2>1. CASE s \in listeners[t]
    BY <1>2, <1>5, <2>1 DEF Has
  <2>2. CASE s \notin listeners[t]
    <3>1. at[s] \in {"reply", "subscribe"} /\ job[s].tty = t /\ ~dead[s]
      BY <1>3, <1>5, <2>2 DEF Owed
    <3>2. <<u, m>> \in slipped'[s]
      BY <1>1, <1>5, <3>1
    <3> QED
      BY <3>2 DEF Has
  <2> QED
    BY <2>1, <2>2
<1>6. CASE ~(u = t /\ m = output[t] + 1)
  <2>1. m \in 1 .. output[u]
    <3>1. CASE u = t
      BY <1>2, <1>6, <3>1
    <3>2. CASE u # t
      BY <1>2, <3>2
    <3> QED
      BY <3>1, <3>2
  <2>2. Has(s, <<u, m>>)
    BY <1>3, <2>1 DEF CoverInv
  <2>3. CASE \E v \in Terminal : s \in reader[v] /\ <<u, m>> = <<v, output[v]>>
    <3>1. PICK v \in Terminal : s \in reader[v] /\ <<u, m>> = <<v, output[v]>>
      BY <2>3
    <3>2. v # t
      BY <1>1, <3>1
    <3>3. s \in reader'[v] /\ <<u, m>> = <<v, output'[v]>>
      BY <1>2, <3>1, <3>2
    <3> QED
      BY <3>3 DEF Has
  <2>4. CASE ~\E v \in Terminal : s \in reader[v] /\ <<u, m>> = <<v, output[v]>>
    BY <1>1, <1>4, <2>2, <2>4 DEF Has, Understood
  <2> QED
    BY <2>3, <2>4
<1> QED
  BY <1>5, <1>6

LEMMA CoverDeliver ==
    ASSUME StreamTypes, PlaceInv, CoverInv, NEW t \in Terminal, NEW r \in Session, Deliver(t, r)
    PROVE  CoverInv'
<1>1. /\ r \in reader[t] /\ flush[t] = NoFlush /\ reader' = [reader EXCEPT ![t] = reader[t] \ {r}]
      /\ buffer' = [buffer EXCEPT ![r] = buffer[r] \cup {<<t, output[t]>>}]
      /\ label' = [label EXCEPT ![r] = <<t, output[t]>>]
      /\ strayed' = IF r \in listeners[t] THEN strayed ELSE [strayed EXCEPT ![r] = strayed[r] \cup Foreign(r, t)]
      /\ UNCHANGED <<at, job, dead, listeners, output, told, slipped, withheld, reply>>
  BY DEF Deliver, Relabelled
<1>2. flush' = flush \/ flush' = [flush EXCEPT ![t] = Flush(r)]
  BY DEF Deliver
<1>3. \A f \in Flusher : flush[f].data = {} \/ flush'[f] = flush[f]
  <2>1. flush[t].data = {}
    BY <1>1 DEF NoFlush
  <2>2. \A f \in Flusher : f # t => flush'[f] = flush[f]
    BY <1>2 DEF StreamTypes
  <2> QED
    BY <2>1, <2>2
<1>4. /\ buffer'[r] = buffer[r] \cup {<<t, output[t]>>} /\ label'[r] = <<t, output[t]>>
      /\ \A s \in Session : s # r => buffer'[s] = buffer[s] /\ label'[s] = label[s]
      /\ \A s \in Session : strayed[s] \subseteq strayed'[s]
      /\ r \notin listeners[t] => Foreign(r, t) \subseteq strayed'[r]
      /\ reader'[t] = reader[t] \ {r} /\ \A u \in Terminal : u # t => reader'[u] = reader[u]
  BY <1>1 DEF StreamTypes
<1>5. \A s \in Session, u \in Terminal : Owed(s, u)' => Owed(s, u)
  BY <1>1 DEF Owed
\* What is buffered keeps its label, or has strayed.
<1>6. ASSUME NEW u \in Terminal, Owed(r, u), NEW m \in 1 .. output[u], <<u, m>> \in buffer[r]
      PROVE  Has(r, <<u, m>>)'
  <2>1. CASE u = t
    <3>1. <<u, m>> \in buffer'[r] /\ <<u, m>>[1] = label'[r][1]
      BY <1>4, <1>6, <2>1
    <3> QED
      BY <3>1 DEF Has
  <2>2. CASE u # t
    <3>1. r \notin listeners[t]
      BY <1>6, <2>2 DEF Owed, PlaceInv, Attaching
    <3>2. <<u, m>> \in Foreign(r, t)
      BY <1>6, <2>2 DEF Foreign
    <3> QED
      BY <1>4, <3>1, <3>2 DEF Has
  <2> QED
    BY <2>1, <2>2
<1> SUFFICES ASSUME NEW s \in Session, NEW u \in Terminal, Owed(s, u)', NEW m \in 1 .. output'[u]
             PROVE  Has(s, <<u, m>>)'
  BY DEF CoverInv
<1> DEFINE c == <<u, m>>
<1>7. Owed(s, u) /\ m \in 1 .. output[u] /\ Has(s, c)
  BY <1>1, <1>5 DEF CoverInv
<1>8. CASE \E f \in Flusher : flush[f].to = s /\ c \in Understood(f)
  <2>1. PICK f \in Flusher : flush[f].to = s /\ c \in Understood(f)
    BY <1>8
  <2>2. flush'[f] = flush[f]
    BY <1>3, <2>1, DataIsUnderstood
  <2>3. flush'[f].to = s /\ c \in Understood(f)'
    BY <2>1, <2>2 DEF Understood
  <2> QED
    BY <2>3 DEF Has
<1>9. CASE \E v \in Terminal : s \in reader[v] /\ c = <<v, output[v]>>
  <2>1. PICK v \in Terminal : s \in reader[v] /\ c = <<v, output[v]>>
    BY <1>9
  <2>2. CASE v = t /\ s = r
    <3>1. c \in buffer'[s] /\ c[1] = label'[s][1]
      BY <1>4, <2>1, <2>2
    <3> QED
      BY <3>1 DEF Has
  <2>3. CASE ~(v = t /\ s = r)
    <3>1. s \in reader'[v] /\ output'[v] = output[v]
      BY <1>1, <1>4, <2>1, <2>3
    <3> QED
      BY <2>1, <3>1 DEF Has
  <2> QED
    BY <2>2, <2>3
<1>10. CASE c \in buffer[s] /\ c[1] = label[s][1]
  <2>1. CASE s = r
    BY <1>6, <1>7, <1>10, <2>1
  <2>2. CASE s # r
    BY <1>4, <1>10, <2>2 DEF Has
  <2> QED
    BY <2>1, <2>2
<1>11. CASE c \in told[s] \/ c \in slipped[s] \/ c \in withheld[s] \/ c \in strayed[s] \/ c \in reply[s]
  BY <1>1, <1>4, <1>11 DEF Has
<1> QED
  BY <1>7, <1>8, <1>9, <1>10, <1>11 DEF Has

LEMMA CoverFlush ==
    ASSUME StreamTypes, FlushInv, CoverInv, NEW f \in Flusher, Take(f) \/ Send(f)
    PROVE  CoverInv'
<1> USE DEF terminals, history
<1> DEFINE r == flush[f].to
<1>1. UNCHANGED <<at, job, dead, listeners, reader, output, label, slipped, withheld, strayed, reply>>
  BY DEF Take, Send
<1>2. \A g \in Flusher : g # f => flush'[g] = flush[g]
  BY DEF Take, Send, StreamTypes
<1>3. r \in Session
  BY DEF Take, Send, FlushInv
<1>4. ASSUME NEW s \in Session, NEW c, Has(s, c), ~dead'[s]
      PROVE  Has(s, c)'
  <2>1. CASE \E g \in Flusher : g # f /\ flush[g].to = s /\ c \in Understood(g)
    <3>1. PICK g \in Flusher : g # f /\ flush[g].to = s /\ c \in Understood(g)
      BY <2>1
    <3>2. flush'[g] = flush[g]
      BY <1>2, <3>1
    <3>3. flush'[g].to = s /\ c \in Understood(g)'
      BY <3>1, <3>2 DEF Understood
    <3> QED
      BY <3>3 DEF Has
  <2>2. CASE \E v \in Terminal : s \in reader[v] /\ c = <<v, output[v]>>
    BY <1>1, <2>2 DEF Has
  <2>3. CASE c \in slipped[s] \/ c \in withheld[s] \/ c \in strayed[s] \/ c \in reply[s]
    BY <1>1, <2>3 DEF Has
  <2>4. CASE Take(f)
    <3>1. /\ flush[f].at = "take" /\ buffer' = [buffer EXCEPT ![r] = {}] /\ told' = told
          /\ flush' = [flush EXCEPT ![f] = IF buffer[r] = {} THEN NoFlush
                                           ELSE [at |-> "send", to |-> r, as |-> label[r], data |-> buffer[r]]]
      BY <2>4 DEF Take
    <3>2. c \notin Understood(f)
      BY <3>1 DEF FlushInv, Understood
    <3>3. \A q \in Session : q # r => buffer'[q] = buffer[q]
      BY <3>1 DEF StreamTypes
    <3>4. CASE c \in buffer[s] /\ c[1] = label[s][1]
      <4>1. CASE s = r
        <5>1. buffer[r] # {}
          BY <3>4, <4>1
        <5>2. flush'[f] = [at |-> "send", to |-> r, as |-> label[r], data |-> buffer[r]]
          BY <3>1, <5>1 DEF StreamTypes
        <5>3. flush'[f].to = s /\ c \in Understood(f)'
          BY <3>4, <4>1, <5>2 DEF Understood
        <5> QED
          BY <5>3 DEF Has
      <4>2. CASE s # r
        BY <1>1, <3>3, <3>4, <4>2 DEF Has
      <4> QED
        BY <4>1, <4>2
    <3>5. CASE c \in told[s]
      BY <3>1, <3>5 DEF Has
    <3> QED
      BY <1>4, <2>1, <2>2, <2>3, <3>2, <3>4, <3>5 DEF Has
  <2>5. CASE Send(f)
    <3>1. /\ told' = IF dead[r] THEN told ELSE [told EXCEPT ![r] = told[r] \cup Understood(f)]
          /\ buffer' = buffer
      BY <2>5 DEF Send
    <3>2. told[s] \subseteq told'[s] /\ (s = r => Understood(f) \subseteq told'[s])
      BY <1>1, <1>4, <3>1 DEF StreamTypes
    <3>3. CASE flush[f].to = s /\ c \in Understood(f)
      BY <3>2, <3>3 DEF Has
    <3>4. CASE c \in told[s] \/ (c \in buffer[s] /\ c[1] = label[s][1])
      BY <1>1, <3>1, <3>2, <3>4 DEF Has
    <3> QED
      BY <1>4, <2>1, <2>2, <2>3, <3>3, <3>4 DEF Has
  <2> QED
    BY <2>4, <2>5
<1>5. \A s \in Session, u \in Terminal : Owed(s, u)' => Owed(s, u)
  BY <1>1 DEF Owed
<1> QED
  BY <1>1, <1>4, <1>5, CoverFrame

\* Stop() owes the client nothing any more, and loses nothing of the others'.
LEMMA CoverStop ==
    ASSUME StreamTypes, FlushInv, CoverInv, NEW s \in Session, NEW next \in {"stop", "end"}, NEW j \in Jobs,
           Stop(s, next, j), at[s] = "serve", UNCHANGED <<output, reader, listeners, buffer, label, reply, dead, history>>
    PROVE  CoverInv'
<1>1. /\ at'[s] = next /\ \A q \in Session : q # s => at'[q] = at[q] /\ job'[q] = job[q]
      /\ \A f \in Flusher : f # s => flush'[f] = flush[f]
  <2>1. next \in Places
    BY DEF Places
  <2> QED
    BY <2>1, StopIs
<1>2. flush[s].data = {}
  BY DEF FlushInv, NoFlush
<1>3. \A f \in Flusher : flush[f].data = {} \/ flush'[f] = flush[f]
  BY <1>1, <1>2
<1>4. \A q \in Session : \A c : Has(q, c) => Has(q, c)'
  BY <1>3, HasFrame DEF history
<1>5. \A q \in Session, t \in Terminal : Owed(q, t)' => Owed(q, t)
  <2>1. \A t \in Terminal : ~Owed(s, t)'
    BY <1>1 DEF Owed
  <2>2. \A q \in Session, t \in Terminal : q # s => (Owed(q, t)' => Owed(q, t))
    BY <1>1 DEF Owed
  <2> QED
    BY <2>1, <2>2
<1> QED
  BY <1>4, <1>5, CoverFrame

LEMMA CoverAttach ==
    ASSUME StreamTypes, PlaceInv, CoverInv, NEW s \in Session, Attach(s)
    PROVE  CoverInv'
<1> USE DEF terminals, history
<1>1. /\ at[s] = "attach" /\ UNCHANGED <<output, reader, listeners, buffer, label, flush, job, dead>>
      /\ at' = [at EXCEPT ![s] = "serve"] \/ at' = [at EXCEPT ![s] = "reply"]
  BY DEF Attach, Go
<1>2. /\ at'[s] \in {"serve", "reply"} /\ \A q \in Session : q # s => at'[q] = at[q]
  BY <1>1 DEF StreamTypes
<1>3. \A q \in Session : q # s => told'[q] = told[q] /\ slipped'[q] = slipped[q]
                                  /\ withheld'[q] = withheld[q] /\ strayed'[q] = strayed[q]
                                  /\ reply'[q] = reply[q]
  BY DEF Attach, StreamTypes
<1> SUFFICES ASSUME NEW q \in Session, NEW t \in Terminal, Owed(q, t)', NEW m \in 1 .. output'[t]
             PROVE  Has(q, <<t, m>>)'
  BY DEF CoverInv
<1>4. CASE q = s
  <2>1. s \notin listeners[t]
    BY <1>1 DEF PlaceInv, Attaching
  <2>2. at'[s] = "reply" /\ job[s].tty = t /\ ~dead[s]
    BY <1>1, <1>2, <1>4, <2>1 DEF Owed
  <2> QED
    BY <1>1, <1>4, <2>2, AttachCovers
<1>5. CASE q # s
  <2>1. Owed(q, t) /\ m \in 1 .. output[t]
    BY <1>1, <1>2, <1>5 DEF Owed
  <2>2. Has(q, <<t, m>>)
    BY <2>1 DEF CoverInv
  <2> QED
    BY <1>1, <1>3, <1>5, <2>2 DEF Has, Understood
<1> QED
  BY <1>4, <1>5

LEMMA CoverReply ==
    ASSUME StreamTypes, FlushInv, CoverInv, NEW s \in Session, Reply(s)
    PROVE  CoverInv'
<1> USE DEF terminals
<1>1. /\ at[s] = "reply" /\ reply' = [reply EXCEPT ![s] = {}]
      /\ UNCHANGED <<output, reader, listeners, buffer, label, dead, slipped, withheld, strayed>>
  BY DEF Reply
<1>2. \A q \in Session : q # s => reply'[q] = reply[q]
  BY <1>1 DEF StreamTypes
<1>3. CASE dead[s]
  <2>1. Stop(s, "end", NoJob) /\ told' = told
    BY <1>3 DEF Reply
  <2>2. /\ \A q \in Session : q # s => at'[q] = at[q] /\ job'[q] = job[q]
        /\ \A f \in Flusher : f # s => flush'[f] = flush[f]
    BY <2>1, JobFields, StopIs DEF Places
  <2>3. flush[s].data = {}
    BY <1>1 DEF FlushInv, NoFlush
  <2>4. ASSUME NEW q \in Session, q # s, NEW c, Has(q, c)
        PROVE  Has(q, c)'
    <3>1. CASE \E f \in Flusher : flush[f].to = q /\ c \in Understood(f)
      <4>1. PICK f \in Flusher : flush[f].to = q /\ c \in Understood(f)
        BY <3>1
      <4>2. flush'[f] = flush[f]
        BY <2>2, <2>3, <4>1, DataIsUnderstood
      <4>3. flush'[f].to = q /\ c \in Understood(f)'
        BY <4>1, <4>2 DEF Understood
      <4> QED
        BY <4>3 DEF Has
    <3>2. CASE ~\E f \in Flusher : flush[f].to = q /\ c \in Understood(f)
      BY <1>1, <1>2, <2>1, <2>4, <3>2 DEF Has
    <3> QED
      BY <3>1, <3>2
  <2>5. \A t \in Terminal : ~Owed(s, t)'
    BY <1>1, <1>3 DEF Owed
  <2>6. \A q \in Session, t \in Terminal : q # s => (Owed(q, t)' => Owed(q, t))
    BY <1>1, <2>2 DEF Owed
  <2>7. \A q \in Session, t \in Terminal : Owed(q, t)' => Owed(q, t)
    BY <2>5, <2>6
  <2>8. \A q \in Session, t \in Terminal : \A m \in 1 .. output[t] :
            ~dead'[q] /\ Has(q, <<t, m>>) => Has(q, <<t, m>>)'
    BY <1>1, <1>3, <2>4
  <2> QED
    BY <1>1, <2>7, <2>8, CoverFrame
<1>4. CASE ~dead[s]
  <2>1. /\ told' = [told EXCEPT ![s] = told[s] \cup reply[s]]
        /\ at' = [at EXCEPT ![s] = "subscribe"] /\ UNCHANGED <<job, flush>>
    BY <1>4 DEF Reply, Go
  <2>2. told'[s] = told[s] \cup reply[s] /\ \A q \in Session : q # s => told'[q] = told[q]
    BY <2>1 DEF StreamTypes
  <2>3. at'[s] = "subscribe" /\ \A q \in Session : q # s => at'[q] = at[q]
    BY <2>1 DEF StreamTypes
  <2>4. \A c : Has(s, c) => Has(s, c)'
    BY <1>1, <2>1, <2>2 DEF Has, Understood
  <2>5. \A q \in Session : \A c : q # s => (Has(q, c) => Has(q, c)')
    BY <1>1, <1>2, <2>1, <2>2 DEF Has, Understood
  <2>6. \A q \in Session, t \in Terminal : Owed(q, t)' => Owed(q, t)
    BY <1>1, <2>1, <2>3 DEF Owed
  <2> QED
    BY <1>1, <2>4, <2>5, <2>6, CoverFrame
<1> QED
  BY <1>3, <1>4

LEMMA CoverSession ==
    ASSUME StreamTypes, FlushInv, PlaceInv, CoverInv, NEW s \in Session,
           \/ Fire(s) \/ Unsubscribe(s) \/ Subscribe(s) \/ Write(s) \/ Disconnect(s)
           \/ \E t \in Terminal, n \in 1 .. MaxInput : Input(s, t, n)
    PROVE  CoverInv'
<1> USE DEF terminals, history
<1>0. /\ at \in [Session -> Places] /\ job \in [Session -> Jobs] /\ listeners \in [Terminal -> SUBSET Session]
      /\ flush \in [Flusher -> Flushes] /\ dead \in [Session -> BOOLEAN]
  BY DEF StreamTypes
<1>1. UNCHANGED <<output, buffer, label, reader, reply>>
  BY DEF Fire, Unsubscribe, Subscribe, Write, Disconnect, Input
<1>2. CASE Disconnect(s)
  <2>1. /\ dead' = [dead EXCEPT ![s] = TRUE] /\ UNCHANGED <<at, job, listeners, flush>>
        /\ told' = [told EXCEPT ![s] = {}] /\ slipped' = [slipped EXCEPT ![s] = {}]
        /\ withheld' = [withheld EXCEPT ![s] = {}] /\ strayed' = [strayed EXCEPT ![s] = {}]
    BY <1>2 DEF Disconnect
  <2>2. /\ dead'[s]
        /\ \A q \in Session : q # s => /\ told'[q] = told[q] /\ slipped'[q] = slipped[q]
                                       /\ withheld'[q] = withheld[q] /\ strayed'[q] = strayed[q]
                                       /\ dead'[q] = dead[q]
    BY <2>1 DEF StreamTypes
  <2>3. \A q \in Session : \A c : ~dead'[q] /\ Has(q, c) => Has(q, c)'
    BY <1>1, <2>1, <2>2 DEF Has, Understood
  <2>4. \A q \in Session, t \in Terminal : Owed(q, t)' => Owed(q, t)
    BY <2>1, <2>2 DEF Owed
  <2> QED
    BY <1>1, <2>3, <2>4, CoverFrame
<1>3. CASE ~Disconnect(s)
  <2>1. UNCHANGED <<dead, told, slipped, withheld, strayed>>
    BY <1>3 DEF Fire, Unsubscribe, Subscribe, Write, Input
  <2>2. \A f \in Flusher : flush[f].data = {} \/ flush'[f] = flush[f]
    <3>1. CASE Fire(s)
      <4>1. flush[Timer(s)] = NoFlush /\ flush' = [flush EXCEPT ![Timer(s)] = Flush(s)]
        BY <3>1 DEF Fire
      <4>2. flush[Timer(s)].data = {}
        BY <4>1 DEF NoFlush
      <4> QED
        BY <1>0, <4>1, <4>2
    <3>2. CASE flush' = flush
      BY <3>2
    <3> QED
      BY <1>3, <3>1, <3>2 DEF Unsubscribe, Subscribe, Write, Input
  <2>3. \A q \in Session : \A c : Has(q, c) => Has(q, c)'
    BY <1>1, <2>1, <2>2, HasFrame
  <2>4. \A q \in Session, t \in Terminal : Owed(q, t)' => Owed(q, t)
    <3>1. CASE Fire(s)
      BY <2>1, <3>1 DEF Fire, Owed
    <3>2. CASE Unsubscribe(s)
      <4>1. /\ job' = job /\ listeners' = [t \in Terminal |-> listeners[t] \ {s}]
            /\ at' = [at EXCEPT ![s] = IF at[s] = "stop" THEN "attach" ELSE "ended"]
        BY <3>2 DEF Unsubscribe, Go
      <4>2. at'[s] \in {"attach", "ended"} /\ \A q \in Session : q # s => at'[q] = at[q]
        BY <1>0, <4>1
      <4>3. \A t \in Terminal : listeners'[t] \subseteq listeners[t]
        BY <4>1
      <4>4. \A t \in Terminal : ~Owed(s, t)'
        BY <4>2 DEF Owed
      <4>5. \A q \in Session, t \in Terminal : q # s => (Owed(q, t)' => Owed(q, t))
        BY <2>1, <4>1, <4>2, <4>3 DEF Owed
      <4> QED
        BY <4>4, <4>5
    <3>3. CASE Subscribe(s)
      <4> DEFINE u == job[s].tty
      <4>1. /\ at[s] = "subscribe" /\ at' = [at EXCEPT ![s] = "serve"] /\ job' = [job EXCEPT ![s] = NoJob]
            /\ listeners' = listeners \/ listeners' = [listeners EXCEPT ![u] = listeners[u] \cup {s}]
        BY <3>3 DEF Subscribe, Go
      <4>2. at'[s] = "serve" /\ \A q \in Session : q # s => at'[q] = at[q] /\ job'[q] = job[q]
        BY <1>0, <4>1
      <4>3. \A t \in Terminal : s \notin listeners[t]
        BY <4>1 DEF PlaceInv, Attaching
      <4>4. \A t \in Terminal : s \in listeners'[t] => t = u
        BY <1>0, <4>1, <4>3
      <4>5. \A q \in Session, t \in Terminal : q # s => (q \in listeners'[t] => q \in listeners[t])
        BY <1>0, <4>1
      <4>6. \A t \in Terminal : Owed(s, t)' => Owed(s, t)
        BY <2>1, <4>1, <4>2, <4>4 DEF Owed
      <4>7. \A q \in Session, t \in Terminal : q # s => (Owed(q, t)' => Owed(q, t))
        BY <2>1, <4>2, <4>5 DEF Owed
      <4> QED
        BY <4>6, <4>7
    <3>4. CASE Write(s) \/ \E t \in Terminal, n \in 1 .. MaxInput : Input(s, t, n)
      <4>1. /\ at[s] \in {"serve", "write"} /\ listeners' = listeners
            /\ at' = at \/ at' = [at EXCEPT ![s] = "serve"] \/ at' = [at EXCEPT ![s] = "write"]
            /\ job' = job \/ \E j : job' = [job EXCEPT ![s] = j]
        BY <3>4 DEF Write, Input, Frame, Go
      <4>2. at'[s] \in {"serve", "write"} /\ \A q \in Session : q # s => at'[q] = at[q] /\ job'[q] = job[q]
        BY <1>0, <4>1
      <4>3. \A t \in Terminal : Owed(s, t)' => Owed(s, t)
        BY <2>1, <4>1, <4>2 DEF Owed
      <4>4. \A q \in Session, t \in Terminal : q # s => (Owed(q, t)' => Owed(q, t))
        BY <2>1, <4>1, <4>2 DEF Owed
      <4> QED
        BY <4>3, <4>4
    <3> QED
      BY <1>3, <3>1, <3>2, <3>3, <3>4
  <2> QED
    BY <1>1, <2>3, <2>4, CoverFrame
<1> QED
  BY <1>2, <1>3

LEMMA CoverStep ==
    ASSUME StreamTypes, FlushInv, PlaceInv, CoverInv, [StreamNext]_streamVars
    PROVE  CoverInv'
<1> USE DEF terminals, sessions, history
<1>1. CASE \/ UNCHANGED streamVars
           \/ \E t \in Terminal : Exit(t)
           \/ Disable
  <2>1. UNCHANGED <<at, job, dead, listeners, output, buffer, label, reader, flush, told, slipped, withheld, strayed, reply>>
    BY <1>1 DEF streamVars, Exit, Disable
  <2>2. \A q \in Session : \A c : Has(q, c) => Has(q, c)'
    BY <2>1 DEF Has, Understood
  <2>3. \A q \in Session, t \in Terminal : Owed(q, t)' => Owed(q, t)
    BY <2>1 DEF Owed
  <2> QED
    BY <2>1, <2>2, <2>3, CoverFrame
<1>2. ASSUME NEW s \in Session, NEW t \in Terminal,
             Create(s, t) \/ Close(s, t) \/ \E last \in 0 .. MaxOutput : Open(s, t, last)
      PROVE  CoverInv'
  <2>1. at[s] = "serve" /\ UNCHANGED <<output, reader, listeners, buffer, label, reply, dead, history>>
    BY <1>2 DEF Create, Close, Open, Frame
  <2>2. CASE UNCHANGED <<at, job, flush>>
    <3>1. \A q \in Session : \A c : Has(q, c) => Has(q, c)'
      BY <2>1, <2>2 DEF Has, Understood
    <3>2. \A q \in Session, u \in Terminal : Owed(q, u)' => Owed(q, u)
      BY <2>1, <2>2 DEF Owed
    <3> QED
      BY <2>1, <3>1, <3>2, CoverFrame
  <2>3. ASSUME NEW u \in Terminal, NEW last \in 0 .. MaxOutput, Stop(s, "stop", [tty |-> u, last |-> last])
        PROVE  CoverInv'
    <3>1. last \in 0 .. MaxOutput + MaxInput
      BY StreamNumbers
    <3>2. [tty |-> u, last |-> last] \in Jobs
      BY <3>1, JobFields
    <3> QED
      BY <2>1, <2>3, <3>2, CoverStop DEF history
  <2>4. 0 \in 0 .. MaxOutput
    BY StreamNumbers
  <2>5. UNCHANGED <<at, job, flush>> \/ \E u \in Terminal, last \in 0 .. MaxOutput : Stop(s, "stop", [tty |-> u, last |-> last])
    BY <1>2, <2>4 DEF Create, Close, Open
  <2> QED
    BY <2>2, <2>3, <2>5
<1>3. ASSUME NEW s \in Session, End(s)
      PROVE  CoverInv'
  <2>1. Stop(s, "end", NoJob) /\ at[s] = "serve" /\ UNCHANGED <<output, reader, listeners, buffer, label, reply, dead, history>>
    BY <1>3 DEF End
  <2> QED
    BY <2>1, CoverStop, JobFields
<1>4. CASE \E s \in Session :
              \/ Fire(s) \/ Unsubscribe(s) \/ Subscribe(s) \/ Write(s) \/ Disconnect(s)
              \/ \E t \in Terminal, n \in 1 .. MaxInput : Input(s, t, n)
  BY <1>4, CoverSession
<1>5. CASE \E t \in Terminal : Read(t) \/ \E s \in Session : Deliver(t, s)
  BY <1>5, CoverRead, CoverDeliver
<1>6. CASE \E f \in Flusher : Take(f) \/ Send(f)
  BY <1>6, CoverFlush
<1>7. CASE \E s \in Session : Attach(s) \/ Reply(s)
  BY <1>7, CoverAttach, CoverReply
<1> QED
  BY <1>1, <1>2, <1>3, <1>4, <1>5, <1>6, <1>7 DEF StreamNext

LEMMA StreamSpecInv == StreamSpec => []StreamInv
<1>1. StreamInv /\ [StreamNext]_streamVars => StreamInv'
  <2> SUFFICES ASSUME StreamInv, [StreamNext]_streamVars
               PROVE  StreamInv'
    OBVIOUS
  <2>1. StreamTypes /\ FlushInv /\ PlaceInv /\ CoverInv /\ InputInv
    BY StreamTypesAre DEF StreamInv
  <2>2. StreamTypes'
    BY <2>1, StreamTypesStep
  <2>3. StreamTypeOK'
    BY <2>2 DEF StreamTypeOK, StreamTypes, TtyStates, Places, Labels, Flushes, Jobs, Numbers
  <2>4. FlushInv' /\ PlaceInv'
    BY <2>1, FlushStep, PlaceStep
  <2>5. CoverInv' /\ InputInv'
    BY <2>1, CoverStep, InputStep
  <2> QED
    BY <2>3, <2>4, <2>5 DEF StreamInv
<1> QED
  BY <1>1, StreamInitInv, PTL DEF StreamSpec

LEMMA FlushHolds ==
    ASSUME NEW s, NEW g \in Flusher, flush[g].to = s, NEW c \in Understood(g)
    PROVE  c \in OnTheWay(s)
BY DEF OnTheWay

LEMMA ReaderHolds ==
    ASSUME NEW s, NEW t \in Terminal, s \in reader[t]
    PROVE  <<t, output[t]>> \in OnTheWay(s)
<1>1. <<t, output[t]>> \in InReaders(s)
  BY DEF InReaders
<1>2. ASSUME NEW c \in InReaders(s)
      PROVE  c \in OnTheWay(s)
  BY <1>2 DEF OnTheWay
<1> QED
  BY <1>1, <1>2

(* The terminals, the streams and the threads keep their types.            *)
THEOREM SpecStreamTypeOK == StreamSpec => []StreamTypeOK
BY StreamSpecInv, PTL DEF StreamInv

(* A client that watches a terminal gets all of its output or is told of a *)
(* gap, except for what is printed between attach() and subscribe(), for   *)
(* the replay that is not sent, and for what a late reader of a terminal   *)
(* that the session has left relabels.                                     *)
THEOREM SpecNothingElseIsLost == StreamSpec => []NothingElseIsLost
<1>1. StreamInv => NothingElseIsLost
  <2> SUFFICES ASSUME StreamInv, NEW s \in Session, NEW t \in Terminal, ~dead[s], s \in listeners[t],
                      at[s] \in {"serve", "write"}, NEW m \in 1 .. output[t]
               PROVE  <<t, m>> \in told[s] \cup OnTheWay(s) \cup slipped[s] \cup withheld[s] \cup strayed[s]
    BY DEF NothingElseIsLost, UpTo
  <2>1. Has(s, <<t, m>>)
    BY DEF StreamInv, CoverInv, Owed
  <2>2. reply[s] = {}
    BY DEF StreamInv, PlaceInv
  <2>3. CASE \E f \in Flusher : flush[f].to = s /\ <<t, m>> \in Understood(f)
    BY <2>3, FlushHolds
  <2>4. CASE \E u \in Terminal : s \in reader[u] /\ <<t, m>> = <<u, output[u]>>
    BY <2>4, ReaderHolds
  <2>5. CASE <<t, m>> \in buffer[s] /\ <<t, m>>[1] = label[s][1]
    BY <2>5 DEF OnTheWay
  <2>6. CASE <<t, m>> \in told[s] \cup slipped[s] \cup withheld[s] \cup strayed[s]
    BY <2>6
  <2> QED
    BY <2>1, <2>2, <2>3, <2>4, <2>5, <2>6 DEF Has
<1> QED
  BY <1>1, StreamSpecInv, PTL

(* Input that is sent again reaches the terminal once.                     *)
THEOREM SpecInputIsWrittenOnce == StreamSpec => []InputIsWrittenOnce
BY StreamSpecInv, PTL DEF StreamInv, InputInv
=============================================================================
