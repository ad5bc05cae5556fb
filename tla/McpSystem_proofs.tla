--------------------------- MODULE McpSystem_proofs -------------------------
(***************************************************************************)
(* Theorems about McpSystem for every set of requests, every number of     *)
(* worker processes, versions and faults.                                  *)
(*                                                                         *)
(* Inv is inductive: the types, who holds the lifecycle lock and where its *)
(* holder goes on (LockInv), and where a request that has no answer yet    *)
(* may be (AnswerInv).                                                     *)
(***************************************************************************)
EXTENDS McpSystem, TLAPS

USE ChannelAssumption, SupervisorAssumption, WorkerAssumption, SystemAssumption

\* What the proofs need to know of the threads' names.
ThreadNames ==
    /\ Main \in Thread
    /\ \A r \in Req : Waiter(r) \in Thread /\ Timer(r) \in Thread
    /\ \A t \in Thread : \/ t = Main
                         \/ \E r \in Req : t = Waiter(r)
                         \/ \E r \in Req : t = Timer(r)
    /\ \A r \in Req : Main # Waiter(r) /\ Main # Timer(r)
    /\ \A q, r \in Req : Waiter(q) # Timer(r)
    /\ \A q, r \in Req : Waiter(q) = Waiter(r) => q = r
    /\ \A q, r \in Req : Timer(q) = Timer(r) => q = r

\* Threads of different kinds, or of different requests, are different.
LEMMA ThreadsDiffer == ThreadNames
BY DEF ThreadNames, Thread, Main, Waiter, Timer, Waiters, Timers

\* A thread goes to one of its places.
LEMMA Move ==
    ASSUME NEW p, Places(p)
    PROVE  /\ \A l \in MainPC : Places([p EXCEPT ![Main] = l])
           /\ \A r \in Req : \A l \in WaiterPC : Places([p EXCEPT ![Waiter(r)] = l])
           /\ \A r \in Req : \A l \in TimerPC : Places([p EXCEPT ![Timer(r)] = l])
BY ThreadsDiffer DEF ThreadNames, Places, Label

\* Cancelled timers are done, nothing else moves.
LEMMA CancelTimers ==
    ASSUME NEW p, Places(p), NEW S \in SUBSET Req
    PROVE  /\ Places(WithoutTimers(S, p))
           /\ WithoutTimers(S, p)[Main] = p[Main]
           /\ \A r \in Req : WithoutTimers(S, p)[Waiter(r)] = p[Waiter(r)]
           /\ \A t \in Thread : WithoutTimers(S, p)[t] \in {p[t], "done"}
BY ThreadsDiffer DEF ThreadNames, Places, WithoutTimers, Label, TimerPC

-----------------------------------------------------------------------------
(* The inductive invariant.                                                *)

Holding == {"stopping", "spawn"}

\* One thread holds the lifecycle lock, and the one that stops a worker goes
\* on at a place of its own.
LockInv ==
    /\ \A t, u \in Thread : pc[t] \in Holding /\ pc[u] \in Holding => t = u
    /\ pc[Main] = "stopping" => resume \in {"spawn", "fail", "drain", "read"}
    /\ \A r \in Req : pc[Waiter(r)] = "stopping" => resume = "giveup"
    /\ \A r \in Req : pc[Timer(r)] = "stopping" => resume = "done"

\* Where the main thread is, or goes on when the worker has stopped.
MainAt == IF pc[Main] = "stopping" THEN resume ELSE pc[Main]

\* The main thread works on a line unless it waits for one or is done.
LineInv == MainAt \notin {"read", "drain", "exit"} => current \in Req

Submitting == {"ensure", "spawn", "snap", "admit", "write", "unwind", "fail"}

\* Who may still answer request r: nobody has read it yet; or the main thread
\* is submitting it and there is no waiter; or its waiter is under way.
AnswerInv ==
    /\ \A r \in unread : answers[r] = <<>> /\ pc[Waiter(r)] = "none"
    /\ MainAt \in Submitting =>
          current \notin unread /\ answers[current] = <<>> /\ pc[Waiter(current)] = "none"
    /\ \A r \in Req : pc[Waiter(r)] \notin {"none", "done"} => answers[r] = <<>>
    /\ \A r \in Req : Len(answers[r]) <= 1

DataOK == ChannelTypeOK /\ SupDataOK

ControlOK == Places(pc) /\ LockInv /\ LineInv

-----------------------------------------------------------------------------
(* The supervisor's data keeps its types.                                  *)

LEMMA StopBeginData ==
    ASSUME SupDataOK, NEW t, NEW next \in Label, StopBegin(t, next)
    PROVE  /\ process' \in 0 .. MaxGen
           /\ loaded' \in Version \cup {0}
           /\ reload' \in BOOLEAN
           /\ resume' \in Label
<1>1. process' \in 0 .. MaxGen
  BY SupervisorAssumption DEF StopBegin
<1>2. loaded' \in Version \cup {0}
  BY DEF StopBegin
<1>3. reload' \in BOOLEAN
  BY DEF StopBegin
<1>4. resume' \in Label
  BY DEF StopBegin, SupDataOK
<1> QED
  BY <1>1, <1>2, <1>3, <1>4

\* Popping requests from the table and signalling their waiters.
LEMMA SettleData ==
    ASSUME SupDataOK, NEW S, NEW value \in Slot
    PROVE  /\ WithoutPending(S) \in [Key -> Req \cup {None}]
           /\ Signalled(S, value) \in [Req -> Slot]
BY DEF WithoutPending, Signalled, SupDataOK

\* A response is one of the kinds a client can get.
LEMMA EmitData ==
    ASSUME SupDataOK, NEW r \in Req, NEW answer \in Answer, Emit(r, answer)
    PROVE  answers' \in [Req -> Seq(Answer)]
BY DEF Emit, SupDataOK

\* A thread's end of _stop_locked().
LEMMA StopEndData ==
    ASSUME DataOK, NEW t, StopEnd(t)
    PROVE  DataOK'
<1>1. /\ pending' \in [Key -> Req \cup {None}]
      /\ slot' \in [Req -> Slot]
  <2>1. "error" \in Slot
    BY DEF Slot
  <2> QED
    BY <2>1, SettleData DEF StopEnd, FailGeneration, DataOK
<1>2. resume' \in Label
  BY DEF StopEnd, Label, WaiterPC
<1>3. ChannelTypeOK'
  <2>1. toWorker' = <<>> /\ fromWorker' = <<>> /\ alive' = FALSE
    BY DEF StopEnd
  <2>2. toWorker' \in Seq(LinesToWorker)
    BY <2>1
  <2>3. fromWorker' \in Seq(LinesFromWorker)
    BY <2>1
  <2> QED
    BY <2>1, <2>2, <2>3 DEF ChannelTypeOK
<1>4. UNCHANGED <<source, loaded, reload, process, generation, gen, cancelled,
                  current, snapshot, unread, answers, closing, reader, hand>>
  BY DEF StopEnd
<1> QED
  BY <1>1, <1>2, <1>3, <1>4 DEF DataOK, SupDataOK

LEMMA ExpireData ==
    ASSUME DataOK, NEW t, NEW r, NEW next \in Label, Expire(t, r, next)
    PROVE  DataOK'
<1>1. /\ process' \in 0 .. MaxGen
      /\ loaded' \in Version \cup {0}
      /\ reload' \in BOOLEAN
      /\ resume' \in Label
  BY StopBeginData DEF Expire, DataOK, SupDataOK
<1> QED
  BY <1>1 DEF Expire, DataOK, SupDataOK, ChannelTypeOK, channelVars

LEMMA NotifyData ==
    ASSUME DataOK, NEW t, NEW r \in Req, NEW next, Notify(t, r, next)
    PROVE  DataOK'
<1>1. slot' \in [Req -> Slot]
  BY SettleData DEF Notify, DataOK, Slot
<1>2. toWorker' \in Seq(LinesToWorker)
  <2>1. CancelLine(r) \in LinesToWorker
    BY DEF CancelLine, LinesToWorker
  <2>2. toWorker' = toWorker \/ toWorker' = Append(toWorker, CancelLine(r))
    BY DEF Notify
  <2>3. toWorker \in Seq(LinesToWorker)
    BY DEF DataOK, ChannelTypeOK
  <2> QED
    BY <2>1, <2>2, <2>3
<1> QED
  BY <1>1, <1>2 DEF Notify, DataOK, SupDataOK, ChannelTypeOK

LEMMA MainData ==
    ASSUME DataOK, ControlOK, MainStep
    PROVE  DataOK'
<1> USE DEF DataOK, ChannelTypeOK, SupDataOK, channelVars
<1>a. {"spawn", "fail", "read"} \subseteq Label
  BY DEF Label, MainPC
<1>b. ASSUME pc[Main] \in Submitting \cup {"notify", "expire"}
      PROVE  current \in Req
  BY <1>b DEF ControlOK, LineInv, MainAt, Submitting
<1>1. CASE EnsureCurrent
  <2>1. /\ process' \in 0 .. MaxGen
        /\ loaded' \in Version \cup {0}
        /\ reload' \in BOOLEAN
        /\ resume' \in Label
    BY <1>1, <1>a, StopBeginData DEF EnsureCurrent, Defer
  <2> QED
    BY <1>1, <2>1 DEF EnsureCurrent
<1>2. CASE Spawn
  BY <1>2 DEF Spawn, FirstLines, Generation
<1>3. CASE SpawnFails
  BY <1>3 DEF SpawnFails
<1>4. CASE Snapshot
  BY <1>4 DEF Snapshot
<1>5. CASE Admit
  BY <1>5 DEF Admit
<1>6. CASE Reject
  <2>1. answers' \in [Req -> Seq(Answer)]
    BY <1>6, <1>b, EmitData DEF Reject, Answer, Submitting
  <2> QED
    BY <1>6, <2>1 DEF Reject
<1>7. CASE Write
  <2>1. RequestLine(current) \in LinesToWorker
    BY <1>7, <1>b DEF Write, RequestLine, LinesToWorker, Submitting
  <2> QED
    BY <1>7, <2>1 DEF Write
<1>8. CASE WriteFails
  BY <1>8 DEF WriteFails, WithoutPending
<1>9. CASE Unwind
  <2>1. /\ process' \in 0 .. MaxGen
        /\ loaded' \in Version \cup {0}
        /\ reload' \in BOOLEAN
        /\ resume' \in Label
    BY <1>9, <1>a, StopBeginData DEF Unwind
  <2> QED
    BY <1>9, <2>1 DEF Unwind
<1>10. CASE Fail
  <2>0. current \in Req /\ "uncertain" \in Answer
    BY <1>10, <1>b DEF Fail, Submitting, Answer
  <2>1. answers' \in [Req -> Seq(Answer)]
    BY <1>10, <2>0, EmitData DEF Fail
  <2> QED
    BY <1>10, <2>1 DEF Fail
<1>11. CASE Exit
  BY <1>11 DEF Exit
<1>12. CASE StopEnd(Main)
  BY <1>12, StopEndData
<1>13. CASE Expire(Main, current, "read")
  BY <1>13, <1>a, ExpireData
<1>14. CASE Notify(Main, current, "read")
  BY <1>14, <1>b, NotifyData DEF Notify
<1> QED
  BY <1>1, <1>2, <1>3, <1>4, <1>5, <1>6, <1>7, <1>8, <1>9, <1>10, <1>11, <1>12,
     <1>13, <1>14 DEF MainStep

LEMMA WaiterData ==
    ASSUME DataOK, NEW r \in Req, WaiterStep(r) \/ TimerStep(r)
    PROVE  DataOK'
<1> USE DEF DataOK, ChannelTypeOK, SupDataOK, channelVars
<1>a. {"giveup", "done"} \subseteq Label
  BY DEF Label, WaiterPC
<1>1. CASE Receive(r)
  <2>1. answers' \in [Req -> Seq(Answer)]
    <3>1. IsSilent(slot[r]) \/ AnswerFor(slot[r]) \in Answer
      BY <1>1 DEF Receive, AnswerFor, IsSilent, Answer, Slot
    <3> QED
      BY <1>1, <3>1, EmitData DEF Receive
  <2> QED
    BY <1>1, <2>1 DEF Receive
<1>2. CASE TimeOut(r)
  BY <1>2 DEF TimeOut
<1>3. CASE CancelLate(r)
  BY <1>3 DEF CancelLate, Mark
<1>4. CASE GiveUp(r)
  <2>1. answers' \in [Req -> Seq(Answer)]
    BY <1>4, EmitData DEF GiveUp, Answer
  <2> QED
    BY <1>4, <2>1 DEF GiveUp
<1>5. CASE Notify(Waiter(r), r, "giveup")
  BY <1>5, NotifyData
<1>6. CASE Expire(Waiter(r), r, "giveup")
  BY <1>6, <1>a, ExpireData
<1>7. CASE StopEnd(Waiter(r))
  BY <1>7, StopEndData
<1>8. CASE TimerFires(r)
  BY <1>8 DEF TimerFires
<1>9. CASE Expire(Timer(r), r, "done")
  BY <1>9, <1>a, ExpireData
<1>10. CASE StopEnd(Timer(r))
  BY <1>10, StopEndData
<1> QED
  BY <1>1, <1>2, <1>3, <1>4, <1>5, <1>6, <1>7, <1>8, <1>9, <1>10
     DEF WaiterStep, TimerStep

LEMMA ReaderData ==
    ASSUME DataOK, NEW g \in Generation, ReaderStep(g)
    PROVE  DataOK'
<1> USE DEF DataOK, ChannelTypeOK, channelVars
<1>a. {"error", "result", "wrong"} \subseteq Slot
  BY DEF Slot
<1>1. CASE TakeLine(g)
  <2>1. /\ Head(fromWorker) \in LinesFromWorker
        /\ Tail(fromWorker) \in Seq(LinesFromWorker)
    BY <1>1 DEF TakeLine
  <2> QED
    BY <1>1, <2>1 DEF TakeLine, SupDataOK
<1>2. CASE DeliverResponse(g)
  <2>1. /\ pending' \in [Key -> Req \cup {None}]
        /\ slot' \in [Req -> Slot]
    BY <1>2, <1>a, SettleData DEF DeliverResponse
  <2> QED
    BY <1>2, <2>1 DEF DeliverResponse, SupDataOK
<1>3. CASE DeliverFinished(g)
  <2>1. pending' \in [Key -> Req \cup {None}]
    BY <1>3, <1>a, SettleData DEF DeliverFinished
  <2> QED
    BY <1>3, <2>1 DEF DeliverFinished, SupDataOK
<1>4. CASE DeliverGarbage(g)
  <2>1. /\ pending' \in [Key -> Req \cup {None}]
        /\ slot' \in [Req -> Slot]
    BY <1>4, <1>a, SettleData DEF DeliverGarbage, FailGeneration
  <2> QED
    BY <1>4, <2>1 DEF DeliverGarbage, SupDataOK
<1>5. CASE ReaderEnds(g)
  <2>1. /\ pending' \in [Key -> Req \cup {None}]
        /\ slot' \in [Req -> Slot]
    BY <1>5, <1>a, SettleData DEF ReaderEnds, FailGeneration
  <2> QED
    BY <1>5, <2>1 DEF ReaderEnds, SupDataOK
<1> QED
  BY <1>1, <1>2, <1>3, <1>4, <1>5 DEF ReaderStep

LEMMA ClientData ==
    ASSUME DataOK, ClientStep
    PROVE  DataOK'
<1> USE DEF DataOK, ChannelTypeOK, SupDataOK, channelVars
<1>1. ASSUME NEW r \in Req, ReadLine(r)
      PROVE  DataOK'
  BY <1>1 DEF ReadLine
<1>2. ASSUME NEW k \in Key, ReadCancel(k)
      PROVE  DataOK'
  BY <1>2 DEF ReadCancel, Mark
<1>3. CASE ReadEOF
  <2>1. /\ process' \in 0 .. MaxGen
        /\ loaded' \in Version \cup {0}
        /\ reload' \in BOOLEAN
        /\ resume' \in Label
    BY <1>3, StopBeginData DEF ReadEOF, Label, MainPC
  <2> QED
    BY <1>3, <2>1 DEF ReadEOF
<1> QED
  BY <1>1, <1>2, <1>3 DEF ClientStep

-----------------------------------------------------------------------------
(* Control and answers.  Kept is what every step has to show; Calm says     *)
(* that a step emits nothing and reads nothing from the client.             *)

Kept == (ControlOK /\ AnswerInv)'

Calm == UNCHANGED <<answers, unread, current>>

Live(t) == pc[t] \notin {"none", "done"}

\* The lock stays in order when no thread gets it and its holder's place to go
\* on stays.
LEMMA LockKept ==
    ASSUME LockInv, resume' = resume,
           \A t \in Thread : pc'[t] \in Holding => pc'[t] = pc[t]
    PROVE  LockInv'
BY ThreadsDiffer DEF LockInv, Holding, ThreadNames

\* A step that emits nothing keeps AnswerInv unless it starts a submission or
\* a waiter.
LEMMA QuietStep ==
    ASSUME AnswerInv, Calm,
           MainAt' \in Submitting => MainAt \in Submitting,
           \A r \in Req : \/ pc'[Waiter(r)] = pc[Waiter(r)]
                          \/ Live(Waiter(r)) /\ pc'[Waiter(r)] # "none",
           unread \subseteq Req, MainAt \in Submitting => current \in Req
    PROVE  AnswerInv'
<1>1. \A r \in unread' : answers'[r] = <<>> /\ pc'[Waiter(r)] = "none"
  BY DEF AnswerInv, Calm, Live
<1>2. MainAt' \in Submitting =>
         /\ current' \notin unread'
         /\ answers'[current'] = <<>>
         /\ pc'[Waiter(current')] = "none"
  BY DEF AnswerInv, Calm, Live
<1>3. \A r \in Req : pc'[Waiter(r)] \notin {"none", "done"} => answers'[r] = <<>>
  BY DEF AnswerInv, Calm, Live
<1>4. \A r \in Req : Len(answers'[r]) <= 1
  BY DEF AnswerInv, Calm
<1> QED
  BY <1>1, <1>2, <1>3, <1>4 DEF AnswerInv

\* The main thread moves without touching the lock.
LEMMA MainGoes ==
    ASSUME ControlOK, AnswerInv, Calm, unread \subseteq Req,
           NEW l \in MainPC \ Holding, GoTo(Main, l), resume' = resume,
           pc[Main] # "stopping",
           l \in Submitting => pc[Main] \in Submitting,
           l \in {"read", "drain", "exit"} \/ current \in Req
    PROVE  Kept
<1>1. Places(pc)'
  BY Move DEF ControlOK, GoTo
<1>2. /\ pc'[Main] = l
      /\ \A t \in Thread \ {Main} : pc'[t] = pc[t]
  BY ThreadsDiffer DEF ControlOK, Places, GoTo, ThreadNames
<1>3. LockInv'
  BY <1>2, LockKept DEF ControlOK
<1>4. MainAt' = l /\ MainAt = pc[Main]
  BY <1>2 DEF MainAt, Holding
<1>5. LineInv'
  BY <1>4 DEF LineInv, Calm
<1>6. \A r \in Req : pc'[Waiter(r)] = pc[Waiter(r)]
  BY <1>2, ThreadsDiffer DEF ThreadNames
<1>7. MainAt \in Submitting => current \in Req
  BY DEF ControlOK, LineInv, Submitting
<1> QED
  BY <1>1, <1>3, <1>4, <1>5, <1>6, <1>7, QuietStep DEF Kept, ControlOK

\* The main thread begins to stop the worker.
LEMMA MainStops ==
    ASSUME ControlOK, AnswerInv, Calm, unread \subseteq Req,
           NEW next \in {"spawn", "fail", "drain", "read"}, StopBegin(Main, next),
           pc[Main] # "stopping",
           next \in Submitting => pc[Main] \in Submitting,
           next \in {"read", "drain"} \/ current \in Req
    PROVE  Kept
<1>1. Places(pc)'
  <2>1. PICK l \in MainPC : pc' = [pc EXCEPT ![Main] = l]
    BY DEF StopBegin, GoTo, MainPC
  <2>2. Places([pc EXCEPT ![Main] = l])
    BY Move DEF ControlOK
  <2> QED
    BY <2>1, <2>2
<1>2. /\ pc'[Main] \in {"stopping", next}
      /\ pc'[Main] = "stopping" => resume' = next
      /\ \A t \in Thread \ {Main} : pc'[t] = pc[t] /\ pc[t] \notin Holding
  BY ThreadsDiffer
     DEF ControlOK, Places, StopBegin, LifecycleFree, GoTo, ThreadNames, Holding
<1>3. LockInv'
  BY <1>2, ThreadsDiffer DEF LockInv, ThreadNames, Holding
<1>4. MainAt' = next /\ MainAt = pc[Main]
  BY <1>2 DEF MainAt
<1>5. LineInv'
  BY <1>4 DEF LineInv, Calm
<1>6. \A r \in Req : pc'[Waiter(r)] = pc[Waiter(r)]
  BY <1>2, ThreadsDiffer DEF ThreadNames
<1>7. MainAt \in Submitting => current \in Req
  BY DEF ControlOK, LineInv, Submitting
<1> QED
  BY <1>1, <1>3, <1>4, <1>5, <1>6, <1>7, QuietStep DEF Kept, ControlOK

\* A waiter or a timer moves without touching the lock.
LEMMA OtherGoes ==
    ASSUME ControlOK, AnswerInv, Calm, unread \subseteq Req,
           NEW r \in Req, NEW t, NEW l, GoTo(t, l), resume' = resume,
           \/ t = Waiter(r) /\ l \in WaiterPC \ (Holding \cup {"none"}) /\ Live(t)
           \/ t = Timer(r) /\ l \in TimerPC \ Holding
    PROVE  Kept
<1>1. Places(pc)'
  BY Move DEF ControlOK, GoTo
<1>2. t \in Thread \ {Main}
  BY ThreadsDiffer DEF ThreadNames
<1>3. pc'[t] = l /\ \A u \in Thread \ {t} : pc'[u] = pc[u]
  BY <1>2 DEF ControlOK, Places, GoTo
<1>4. LockInv'
  BY <1>3, LockKept DEF ControlOK
<1>5. MainAt' = MainAt
  BY <1>2, <1>3, ThreadsDiffer DEF MainAt, ThreadNames
<1>6. LineInv'
  BY <1>5 DEF LineInv, Calm, ControlOK
<1>7. \A q \in Req : \/ pc'[Waiter(q)] = pc[Waiter(q)]
                     \/ Live(Waiter(q)) /\ pc'[Waiter(q)] # "none"
  BY <1>3, ThreadsDiffer DEF ThreadNames
<1>8. MainAt \in Submitting => current \in Req
  BY DEF ControlOK, LineInv, Submitting
<1> QED
  BY <1>1, <1>4, <1>5, <1>6, <1>7, <1>8, QuietStep DEF Kept, ControlOK

\* A waiter or a timer begins to stop the worker.
LEMMA OtherStops ==
    ASSUME ControlOK, AnswerInv, Calm, unread \subseteq Req,
           NEW r \in Req, NEW t, NEW next, StopBegin(t, next),
           \/ t = Waiter(r) /\ next = "giveup" /\ Live(t)
           \/ t = Timer(r) /\ next = "done"
    PROVE  Kept
<1>1. Places(pc)'
  <2>1. \/ \E l \in WaiterPC : pc' = [pc EXCEPT ![Waiter(r)] = l]
        \/ \E l \in TimerPC : pc' = [pc EXCEPT ![Timer(r)] = l]
    BY DEF StopBegin, GoTo, WaiterPC, TimerPC
  <2> QED
    BY <2>1, Move DEF ControlOK
<1>2. t \in Thread \ {Main}
  BY ThreadsDiffer DEF ThreadNames
<1>3. /\ pc'[t] \in {"stopping", next}
      /\ pc'[t] = "stopping" => resume' = next
      /\ \A u \in Thread \ {t} : pc'[u] = pc[u] /\ pc[u] \notin Holding
  BY <1>2 DEF ControlOK, Places, StopBegin, LifecycleFree, GoTo, Holding
<1>4. LockInv'
  BY <1>2, <1>3, ThreadsDiffer DEF LockInv, ThreadNames, Holding
<1>5. MainAt' = MainAt
  BY <1>2, <1>3, ThreadsDiffer DEF MainAt, ThreadNames, Holding
<1>6. LineInv'
  BY <1>5 DEF LineInv, Calm, ControlOK
<1>7. \A q \in Req : \/ pc'[Waiter(q)] = pc[Waiter(q)]
                     \/ Live(Waiter(q)) /\ pc'[Waiter(q)] # "none"
  BY <1>3, ThreadsDiffer DEF ThreadNames
<1>8. MainAt \in Submitting => current \in Req
  BY DEF ControlOK, LineInv, Submitting
<1> QED
  BY <1>1, <1>4, <1>5, <1>6, <1>7, <1>8, QuietStep DEF Kept, ControlOK

\* The thread that waited for the worker's exit goes on; nobody else held the
\* lock.
LEMMA StopEndKept ==
    ASSUME ControlOK, AnswerInv, unread \subseteq Req, NEW t \in Thread, StopEnd(t)
    PROVE  Kept
<1> DEFINE moved == [pc EXCEPT ![t] = resume]
<1>1. PICK S \in SUBSET Req : pc' = WithoutTimers(S, moved)
  BY DEF StopEnd, FailGeneration, UnfinishedOf, Unfinished
<1>2. /\ pc[t] = "stopping"
      /\ t = Main => resume \in {"spawn", "fail", "drain", "read"}
      /\ \A r \in Req : t = Waiter(r) => resume = "giveup"
      /\ \A r \in Req : t = Timer(r) => resume = "done"
      /\ \A u \in Thread \ {t} : pc[u] \notin Holding
  BY DEF StopEnd, ControlOK, LockInv, Holding
<1>3. Places(moved)
  <2>1. "giveup" \in WaiterPC /\ "done" \in TimerPC
        /\ {"spawn", "fail", "drain", "read"} \subseteq MainPC
    BY DEF MainPC, WaiterPC, TimerPC
  <2> QED
    BY <1>2, <2>1, Move, ThreadsDiffer DEF ControlOK, ThreadNames
<1>4. moved[t] = resume /\ \A u \in Thread \ {t} : moved[u] = pc[u]
  BY DEF ControlOK, Places
<1> HIDE DEF moved
<1>5. /\ Places(pc)'
      /\ pc'[Main] = moved[Main]
      /\ \A r \in Req : pc'[Waiter(r)] = moved[Waiter(r)]
      /\ \A u \in Thread : pc'[u] \in {moved[u], "done"}
  BY <1>1, <1>3, CancelTimers
<1>6. \A u \in Thread : pc'[u] # "stopping" /\ (u # Main => pc'[u] # "spawn")
  <2>1. t = Main \/ resume \in {"giveup", "done"}
    BY <1>2, ThreadsDiffer DEF ThreadNames
  <2>2. moved[t] # "stopping" /\ (t # Main => moved[t] # "spawn")
    BY <1>2, <1>4, <2>1
  <2> QED
    BY <1>2, <1>4, <1>5, <2>2 DEF Holding
<1>7. LockInv'
  BY <1>6, ThreadsDiffer DEF LockInv, ThreadNames, Holding
<1>8. MainAt' = MainAt
  BY <1>2, <1>4, <1>5, <1>6, ThreadsDiffer DEF MainAt, ThreadNames, Holding
<1>9. Calm
  BY DEF Calm, StopEnd
<1>10. LineInv'
  BY <1>8, <1>9 DEF LineInv, Calm, ControlOK
<1>11. \A r \in Req : \/ pc'[Waiter(r)] = pc[Waiter(r)]
                      \/ Live(Waiter(r)) /\ pc'[Waiter(r)] # "none"
  <2> SUFFICES ASSUME NEW r \in Req, t = Waiter(r)
               PROVE  Live(Waiter(r)) /\ pc'[Waiter(r)] # "none"
    BY <1>4, <1>5, ThreadsDiffer DEF ThreadNames
  <2> QED
    BY <1>2, <1>4, <1>5, ThreadsDiffer DEF ThreadNames, Live
<1>12. MainAt \in Submitting => current \in Req
  BY DEF ControlOK, LineInv, Submitting
<1> QED
  BY <1>5, <1>7, <1>8, <1>9, <1>10, <1>11, <1>12, QuietStep DEF Kept, ControlOK

\* A reader cancels timers at most.
LEMMA ReaderGoes ==
    ASSUME ControlOK, AnswerInv, Calm, unread \subseteq Req, resume' = resume,
           NEW S \in SUBSET Req, pc' = WithoutTimers(S, pc)
    PROVE  Kept
<1>1. /\ Places(pc)'
      /\ pc'[Main] = pc[Main]
      /\ \A r \in Req : pc'[Waiter(r)] = pc[Waiter(r)]
      /\ \A t \in Thread : pc'[t] \in {pc[t], "done"}
  BY CancelTimers DEF ControlOK
<1>2. LockInv'
  BY <1>1, LockKept DEF ControlOK, Holding
<1>3. MainAt' = MainAt
  BY <1>1 DEF MainAt
<1>4. LineInv'
  BY <1>3 DEF LineInv, Calm, ControlOK
<1>5. MainAt \in Submitting => current \in Req
  BY DEF ControlOK, LineInv, Submitting
<1> QED
  BY <1>1, <1>2, <1>3, <1>4, <1>5, QuietStep DEF Kept, ControlOK

\* cancel(), its second half.
LEMMA NotifyKept ==
    ASSUME ControlOK, AnswerInv, unread \subseteq Req, NEW r \in Req,
           NEW t, NEW next, Notify(t, r, next),
           \/ t = Main /\ next = "read"
           \/ t = Waiter(r) /\ next = "giveup"
    PROVE  Kept
<1>1. PICK l \in {next, "expire"}, m \in {pc[Timer(r)], "armed"} :
         pc' = [pc EXCEPT ![Timer(r)] = m, ![t] = l]
  BY DEF Notify
<1>2. /\ pc[t] = "notify"
      /\ t \in Thread
      /\ Timer(r) \in Thread \ {t, Main}
      /\ \A q \in Req : Timer(r) # Waiter(q)
      /\ resume' = resume
      /\ Calm
  BY ThreadsDiffer DEF ThreadNames, Notify, Calm
<1> DEFINE armed == [pc EXCEPT ![Timer(r)] = m]
<1>3. Places(armed)
  BY <1>2, Move DEF ControlOK, Places, TimerPC
<1>4. Places(pc)'
  <2>1. pc' = [armed EXCEPT ![t] = l]
    BY <1>1
  <2>2. \/ t = Main /\ l \in MainPC
        \/ t = Waiter(r) /\ l \in WaiterPC
    BY DEF MainPC, WaiterPC
  <2> QED
    BY <1>3, <2>1, <2>2, Move
<1>5. /\ pc'[t] = l
      /\ pc'[Timer(r)] = m
      /\ \A u \in Thread \ {t, Timer(r)} : pc'[u] = pc[u]
  BY <1>1, <1>2 DEF ControlOK, Places
<1>6. LockInv'
  BY <1>2, <1>5, LockKept DEF ControlOK, Holding
<1>7. MainAt' \in Submitting => MainAt \in Submitting
  BY <1>2, <1>5, ThreadsDiffer DEF MainAt, Submitting, ThreadNames
<1>8. LineInv'
  BY <1>2, <1>5, ThreadsDiffer DEF LineInv, MainAt, ControlOK, Calm, ThreadNames
<1>9. \A q \in Req : \/ pc'[Waiter(q)] = pc[Waiter(q)]
                     \/ Live(Waiter(q)) /\ pc'[Waiter(q)] # "none"
  BY <1>2, <1>5, ThreadsDiffer DEF Live, ThreadNames
<1>10. MainAt \in Submitting => current \in Req
  BY DEF ControlOK, LineInv, Submitting
<1> QED
  BY <1>2, <1>4, <1>6, <1>7, <1>8, <1>9, <1>10, QuietStep DEF Kept, ControlOK

\* cancel(), its first half, for the main thread or a request's waiter.
LEMMA MarkKept ==
    ASSUME ControlOK, AnswerInv, unread \subseteq Req, NEW r \in Req, NEW t,
           Mark(t, r), answers' = answers, unread' = unread, resume' = resume,
           \/ t = Main /\ pc[Main] = "read" /\ current' = r
           \/ t = Waiter(r) /\ Live(t) /\ pc[t] # "stopping" /\ current' = current
    PROVE  Kept
<1>1. /\ pc' = [pc EXCEPT ![t] = "notify", ![Timer(r)] = "created"]
      /\ t \in Thread
      /\ Timer(r) \in Thread \ {t, Main}
      /\ \A q \in Req : Timer(r) # Waiter(q)
  BY ThreadsDiffer DEF ThreadNames, Mark
<1> DEFINE moved == [pc EXCEPT ![t] = "notify"]
<1>2. Places(moved)
  BY Move DEF ControlOK, MainPC, WaiterPC
<1>3. Places(pc)'
  <2>1. pc' = [moved EXCEPT ![Timer(r)] = "created"]
    BY <1>1
  <2>2. "created" \in TimerPC
    BY DEF TimerPC
  <2> QED
    BY <1>2, <2>1, <2>2, Move
<1>4. /\ pc'[t] = "notify"
      /\ pc'[Timer(r)] = "created"
      /\ \A u \in Thread \ {t, Timer(r)} : pc'[u] = pc[u]
  BY <1>1 DEF ControlOK, Places
<1>5. LockInv'
  BY <1>1, <1>4, LockKept DEF ControlOK, Holding
<1>6. CASE t = Main
  <2>1. /\ MainAt' = "notify"
        /\ \A q \in Req : pc'[Waiter(q)] = pc[Waiter(q)]
    BY <1>1, <1>4, <1>6, ThreadsDiffer DEF MainAt, ThreadNames
  <2>2. LineInv'
    BY <1>6, ThreadsDiffer DEF LineInv, ThreadNames
  <2>3. AnswerInv'
    BY <2>1 DEF AnswerInv, Submitting
  <2> QED
    BY <1>3, <1>5, <2>2, <2>3 DEF Kept, ControlOK
<1>7. CASE t = Waiter(r)
  <2>1. MainAt' = MainAt /\ Calm
    BY <1>1, <1>4, <1>7, ThreadsDiffer DEF MainAt, ThreadNames, Calm
  <2>2. LineInv'
    BY <2>1 DEF LineInv, Calm, ControlOK
  <2>3. \A q \in Req : \/ pc'[Waiter(q)] = pc[Waiter(q)]
                       \/ Live(Waiter(q)) /\ pc'[Waiter(q)] # "none"
    BY <1>1, <1>4, <1>7, ThreadsDiffer DEF ThreadNames
  <2>4. MainAt \in Submitting => current \in Req
    BY DEF ControlOK, LineInv, Submitting
  <2> QED
    BY <1>3, <1>5, <2>1, <2>2, <2>3, <2>4, QuietStep DEF Kept, ControlOK
<1> QED
  BY <1>6, <1>7

\* The client's line: nobody has answered it, and it has no waiter.
LEMMA ReadLineKept ==
    ASSUME ControlOK, AnswerInv, unread \subseteq Req, NEW r \in Req, ReadLine(r)
    PROVE  Kept
<1>1. /\ pc[Main] = "read"
      /\ r \in unread
      /\ unread' = unread \ {r}
      /\ current' = r
      /\ pc' = [pc EXCEPT ![Main] = "ensure"]
      /\ answers' = answers
      /\ resume' = resume
  BY DEF ReadLine, GoTo
<1>2. Places(pc)'
  BY <1>1, Move DEF ControlOK, MainPC
<1>3. pc'[Main] = "ensure" /\ \A t \in Thread \ {Main} : pc'[t] = pc[t]
  BY <1>1, ThreadsDiffer DEF ControlOK, Places, ThreadNames
<1>4. LockInv'
  BY <1>1, <1>3, LockKept DEF ControlOK, Holding
<1>5. LineInv'
  BY <1>1 DEF LineInv
<1>6. \A q \in Req : pc'[Waiter(q)] = pc[Waiter(q)]
  BY <1>3, ThreadsDiffer DEF ThreadNames
<1>7. AnswerInv'
  BY <1>1, <1>6 DEF AnswerInv
<1> QED
  BY <1>2, <1>4, <1>5, <1>7 DEF Kept, ControlOK

\* An answer to a request that has none is its first.
LEMMA EmitOnce ==
    ASSUME SupDataOK, NEW r \in Req, NEW answer, answers[r] = <<>>, Emit(r, answer)
    PROVE  /\ Len(answers'[r]) <= 1
           /\ \A q \in Req \ {r} : answers'[q] = answers[q]
BY DEF SupDataOK, Emit

\* The main thread answers the line it works on, and reads on.
LEMMA MainAnswers ==
    ASSUME DataOK, ControlOK, AnswerInv, GoTo(Main, "read"),
           NEW answer, Emit(current, answer), pc[Main] \in Submitting \ Holding,
           UNCHANGED <<unread, current, resume>>
    PROVE  Kept
<1>1. /\ current \in Req
      /\ MainAt \in Submitting
  BY DEF ControlOK, LineInv, MainAt, Submitting, Holding
<1>2. Places(pc)'
  BY Move DEF ControlOK, GoTo, MainPC
<1>3. pc'[Main] = "read" /\ \A t \in Thread \ {Main} : pc'[t] = pc[t]
  BY ThreadsDiffer DEF ControlOK, Places, ThreadNames, GoTo
<1>4. LockInv'
  BY <1>3, LockKept DEF ControlOK, Holding
<1>5. MainAt' = "read"
  BY <1>3 DEF MainAt
<1>6. LineInv'
  BY <1>5 DEF LineInv
<1>7. \A q \in Req : pc'[Waiter(q)] = pc[Waiter(q)]
  BY <1>3, ThreadsDiffer DEF ThreadNames
<1>8. answers[current] = <<>>
  BY <1>1 DEF AnswerInv
<1>9. /\ Len(answers'[current]) <= 1
      /\ \A q \in Req \ {current} : answers'[q] = answers[q]
  BY <1>1, <1>8, EmitOnce DEF DataOK
<1>10. unread \subseteq Req
  BY DEF DataOK, SupDataOK
<1>11. AnswerInv'
  BY <1>1, <1>5, <1>7, <1>9, <1>10 DEF AnswerInv, Submitting
<1> QED
  BY <1>2, <1>4, <1>6, <1>11 DEF Kept, ControlOK

\* A request's waiter answers it, and is done.
LEMMA WaiterAnswers ==
    ASSUME DataOK, ControlOK, AnswerInv, NEW r \in Req, GoTo(Waiter(r), "done"),
           NEW answer, Emit(r, answer), Live(Waiter(r)),
           UNCHANGED <<unread, current, resume>>
    PROVE  Kept
<1>1. Places(pc)'
  BY Move DEF ControlOK, GoTo, WaiterPC
<1>2. /\ pc'[Waiter(r)] = "done"
      /\ \A t \in Thread \ {Waiter(r)} : pc'[t] = pc[t]
  BY ThreadsDiffer DEF ControlOK, Places, ThreadNames, GoTo
<1>3. LockInv'
  BY <1>2, LockKept DEF ControlOK, Holding
<1>4. MainAt' = MainAt
  BY <1>2, ThreadsDiffer DEF MainAt, ThreadNames
<1>5. LineInv'
  BY <1>4 DEF LineInv, ControlOK
<1>6. \A q \in Req \ {r} : pc'[Waiter(q)] = pc[Waiter(q)]
  BY <1>2, ThreadsDiffer DEF ThreadNames
<1>7. /\ Len(answers'[r]) <= 1
      /\ \A q \in Req \ {r} : answers'[q] = answers[q]
  BY EmitOnce DEF DataOK, AnswerInv, Live
<1>8. unread \subseteq Req /\ (MainAt \in Submitting => current \in Req)
  BY DEF DataOK, SupDataOK, ControlOK, LineInv, Submitting
<1>9. AnswerInv'
  <2>1. \A q \in unread : q # r /\ answers'[q] = <<>> /\ pc'[Waiter(q)] = "none"
    BY <1>6, <1>7, <1>8 DEF AnswerInv, Live
  <2>2. MainAt \in Submitting =>
           /\ current # r
           /\ current \notin unread
           /\ answers'[current] = <<>>
           /\ pc'[Waiter(current)] = "none"
    BY <1>6, <1>7, <1>8 DEF AnswerInv, Live
  <2>3. \A q \in Req : pc'[Waiter(q)] \notin {"none", "done"} => answers'[q] = <<>>
    BY <1>2, <1>6, <1>7 DEF AnswerInv
  <2>4. \A q \in Req : Len(answers'[q]) <= 1
    BY <1>7 DEF AnswerInv
  <2> QED
    BY <1>4, <2>1, <2>2, <2>3, <2>4 DEF AnswerInv
<1> QED
  BY <1>1, <1>3, <1>5, <1>9 DEF Kept, ControlOK

\* The main thread hands the line it works on to the worker, and a request to
\* a waiter.
LEMMA WriteKept ==
    ASSUME DataOK, ControlOK, AnswerInv, Write
    PROVE  Kept
<1>1. /\ pc[Main] = "write"
      /\ \/ pc' = [pc EXCEPT ![Main] = "read"]
         \/ pc' = [pc EXCEPT ![Main] = "read", ![Waiter(current)] = "wait"]
      /\ Calm
      /\ resume' = resume
  BY DEF Write, Calm
<1>2. /\ current \in Req
      /\ MainAt = "write"
  BY <1>1 DEF ControlOK, LineInv, MainAt
<1>3. /\ answers[current] = <<>>
      /\ current \notin unread
  BY <1>2 DEF AnswerInv, Submitting
<1> DEFINE moved == [pc EXCEPT ![Main] = "read"]
<1>4. Places(moved)
  BY Move DEF ControlOK, MainPC
<1>5. Places(pc)'
  <2>1. pc' = moved \/ pc' = [moved EXCEPT ![Waiter(current)] = "wait"]
    BY <1>1
  <2>2. "wait" \in WaiterPC
    BY DEF WaiterPC
  <2> QED
    BY <1>2, <1>4, <2>1, <2>2, Move
<1>6. /\ pc'[Main] = "read"
      /\ pc'[Waiter(current)] \in {pc[Waiter(current)], "wait"}
      /\ \A t \in Thread \ {Main, Waiter(current)} : pc'[t] = pc[t]
  BY <1>1, <1>2, ThreadsDiffer DEF ControlOK, Places, ThreadNames
<1>7. LockInv'
  BY <1>1, <1>6, LockKept DEF ControlOK, Holding
<1>8. MainAt' = "read"
  BY <1>6 DEF MainAt
<1>9. LineInv'
  BY <1>8 DEF LineInv
<1>10. \A q \in Req \ {current} : pc'[Waiter(q)] = pc[Waiter(q)]
  BY <1>2, <1>6, ThreadsDiffer DEF ThreadNames
<1>11. unread \subseteq Req
  BY DEF DataOK, SupDataOK
<1>12. AnswerInv'
  BY <1>1, <1>3, <1>6, <1>8, <1>10, <1>11 DEF AnswerInv, Calm, Submitting
<1> QED
  BY <1>5, <1>7, <1>9, <1>12 DEF Kept, ControlOK

-----------------------------------------------------------------------------
(* Every step of the supervisor.                                           *)

LEMMA MainKept ==
    ASSUME DataOK, ControlOK, AnswerInv, MainStep
    PROVE  Kept
<1>a. unread \subseteq Req
  BY DEF DataOK, SupDataOK
<1>b. ASSUME pc[Main] \in (Submitting \ Holding) \cup {"notify", "expire"}
      PROVE  current \in Req
  BY <1>b DEF ControlOK, LineInv, MainAt, Submitting, Holding
<1>c. {"snap", "fail", "admit", "write", "unwind", "exit", "read"}
         \subseteq MainPC \ Holding
  BY DEF MainPC, Holding
<1>1. CASE EnsureCurrent
  <2>1. Calm /\ pc[Main] = "ensure" /\ current \in Req
    BY <1>1, <1>b DEF EnsureCurrent, Calm, Submitting, Holding
  <2>2. \/ StopBegin(Main, "fail")
        \/ StopBegin(Main, "spawn")
        \/ GoTo(Main, "snap") /\ resume' = resume
    BY <1>1 DEF EnsureCurrent
  <2> QED
    BY <1>a, <1>c, <2>1, <2>2, MainGoes, MainStops DEF Submitting
<1>2. CASE Spawn
  <2>1. Calm /\ pc[Main] = "spawn" /\ GoTo(Main, "snap") /\ resume' = resume
    BY <1>2 DEF Spawn, Calm
  <2>2. current \in Req
    BY <2>1 DEF ControlOK, LineInv, MainAt
  <2> QED
    BY <1>a, <1>c, <2>1, <2>2, MainGoes DEF Submitting
<1>3. CASE SpawnFails
  <2>1. Calm /\ pc[Main] = "spawn" /\ GoTo(Main, "fail") /\ resume' = resume
    BY <1>3 DEF SpawnFails, Calm
  <2>2. current \in Req
    BY <2>1 DEF ControlOK, LineInv, MainAt
  <2> QED
    BY <1>a, <1>c, <2>1, <2>2, MainGoes DEF Submitting
<1>4. CASE Snapshot
  <2>1. Calm /\ pc[Main] = "snap" /\ resume' = resume
    BY <1>4 DEF Snapshot, Calm
  <2>2. PICK l \in {"fail", "write", "admit"} : GoTo(Main, l)
    BY <1>4 DEF Snapshot
  <2>3. current \in Req
    BY <1>b, <2>1 DEF Submitting, Holding
  <2> QED
    BY <1>a, <1>c, <2>1, <2>2, <2>3, MainGoes DEF Submitting
<1>5. CASE Admit
  <2>1. Calm /\ pc[Main] = "admit" /\ GoTo(Main, "write") /\ resume' = resume
    BY <1>5 DEF Admit, Calm
  <2>2. current \in Req
    BY <1>b, <2>1 DEF Submitting, Holding
  <2> QED
    BY <1>a, <1>c, <2>1, <2>2, MainGoes DEF Submitting
<1>6. CASE Reject
  <2>1. /\ pc[Main] = "admit" /\ GoTo(Main, "read") /\ Emit(current, "rejected")
        /\ UNCHANGED <<unread, current, resume>>
    BY <1>6 DEF Reject
  <2> QED
    BY <2>1, MainAnswers DEF Submitting, Holding
<1>7. CASE Write
  BY <1>7, WriteKept
<1>8. CASE WriteFails
  <2>1. Calm /\ pc[Main] = "write" /\ GoTo(Main, "unwind") /\ resume' = resume
    BY <1>8 DEF WriteFails, Calm
  <2>2. current \in Req
    BY <1>b, <2>1 DEF Submitting, Holding
  <2> QED
    BY <1>a, <1>c, <2>1, <2>2, MainGoes DEF Submitting
<1>9. CASE Unwind
  <2>1. Calm /\ pc[Main] = "unwind" /\ StopBegin(Main, "fail")
    BY <1>9 DEF Unwind, Calm
  <2>2. current \in Req
    BY <1>b, <2>1 DEF Submitting, Holding
  <2> QED
    BY <1>a, <2>1, <2>2, MainStops DEF Submitting
<1>10. CASE Fail
  <2>1. /\ pc[Main] = "fail" /\ GoTo(Main, "read")
        /\ UNCHANGED <<unread, current, resume>>
    BY <1>10 DEF Fail
  <2>2. CASE Emit(current, "uncertain")
    BY <2>1, <2>2, MainAnswers DEF Submitting, Holding
  <2>3. CASE answers' = answers
    BY <1>a, <1>c, <2>1, <2>3, MainGoes DEF Submitting, Calm
  <2> QED
    BY <1>10, <2>2, <2>3 DEF Fail
<1>11. CASE Exit
  <2>1. Calm /\ pc[Main] = "drain" /\ GoTo(Main, "exit") /\ resume' = resume
    BY <1>11 DEF Exit, Calm
  <2> QED
    BY <1>a, <1>c, <2>1, MainGoes DEF Submitting
<1>12. CASE StopEnd(Main)
  BY <1>12, <1>a, StopEndKept, ThreadsDiffer DEF ThreadNames
<1>13. CASE Expire(Main, current, "read")
  <2>1. Calm /\ pc[Main] = "expire"
    BY <1>13 DEF Expire, Calm
  <2>2. \/ StopBegin(Main, "read")
        \/ GoTo(Main, "read") /\ resume' = resume
    BY <1>13 DEF Expire
  <2> QED
    BY <1>a, <1>c, <2>1, <2>2, MainGoes, MainStops DEF Submitting
<1>14. CASE Notify(Main, current, "read")
  <2>1. current \in Req
    BY <1>14, <1>b DEF Notify
  <2> QED
    BY <1>14, <1>a, <2>1, NotifyKept
<1> QED
  BY <1>1, <1>2, <1>3, <1>4, <1>5, <1>6, <1>7, <1>8, <1>9, <1>10, <1>11, <1>12,
     <1>13, <1>14 DEF MainStep

LEMMA WaiterKept ==
    ASSUME DataOK, ControlOK, AnswerInv, NEW r \in Req, WaiterStep(r)
    PROVE  Kept
<1>a. unread \subseteq Req
  BY DEF DataOK, SupDataOK
<1>b. {"done", "late", "expire", "giveup"} \subseteq WaiterPC \ (Holding \cup {"none"})
  BY DEF WaiterPC, Holding
<1>1. CASE Receive(r)
  <2>1. /\ GoTo(Waiter(r), "done") /\ Live(Waiter(r))
        /\ UNCHANGED <<unread, current, resume>>
    BY <1>1 DEF Receive, Live
  <2>2. CASE Emit(r, AnswerFor(slot[r]))
    BY <2>1, <2>2, WaiterAnswers
  <2>3. CASE answers' = answers
    BY <1>a, <1>b, <2>1, <2>3, OtherGoes DEF Calm
  <2> QED
    BY <1>1, <2>2, <2>3 DEF Receive
<1>2. CASE TimeOut(r)
  <2>1. Calm /\ Live(Waiter(r)) /\ resume' = resume
    BY <1>2 DEF TimeOut, Calm, Live
  <2>2. GoTo(Waiter(r), "late") \/ GoTo(Waiter(r), "expire")
    BY <1>2 DEF TimeOut, AfterTimeOut
  <2> QED
    BY <1>a, <1>b, <2>1, <2>2, OtherGoes
<1>3. CASE CancelLate(r)
  <2>1. /\ pc[Waiter(r)] = "late" /\ Calm /\ resume' = resume
    BY <1>3 DEF CancelLate, Calm
  <2>2. CASE Mark(Waiter(r), r)
    BY <1>a, <2>1, <2>2, MarkKept DEF Calm, Live
  <2>3. CASE GoTo(Waiter(r), "giveup")
    BY <1>a, <1>b, <2>1, <2>3, OtherGoes DEF Live
  <2> QED
    BY <1>3, <2>2, <2>3 DEF CancelLate
<1>4. CASE GiveUp(r)
  <2>1. /\ GoTo(Waiter(r), "done") /\ Live(Waiter(r)) /\ Emit(r, "uncertain")
        /\ UNCHANGED <<unread, current, resume>>
    BY <1>4 DEF GiveUp, Live
  <2> QED
    BY <2>1, WaiterAnswers
<1>5. CASE Notify(Waiter(r), r, "giveup")
  BY <1>5, <1>a, NotifyKept
<1>6. CASE Expire(Waiter(r), r, "giveup")
  <2>1. Calm /\ Live(Waiter(r))
    BY <1>6 DEF Expire, Calm, Live
  <2>2. \/ StopBegin(Waiter(r), "giveup")
        \/ GoTo(Waiter(r), "giveup") /\ resume' = resume
    BY <1>6 DEF Expire
  <2> QED
    BY <1>a, <1>b, <2>1, <2>2, OtherGoes, OtherStops
<1>7. CASE StopEnd(Waiter(r))
  BY <1>7, <1>a, StopEndKept, ThreadsDiffer DEF ThreadNames
<1> QED
  BY <1>1, <1>2, <1>3, <1>4, <1>5, <1>6, <1>7 DEF WaiterStep

LEMMA TimerKept ==
    ASSUME DataOK, ControlOK, AnswerInv, NEW r \in Req, TimerStep(r)
    PROVE  Kept
<1>a. unread \subseteq Req
  BY DEF DataOK, SupDataOK
<1>b. {"done", "expire"} \subseteq TimerPC \ Holding
  BY DEF TimerPC, Holding
<1>1. CASE TimerFires(r)
  <2>1. Calm /\ GoTo(Timer(r), "expire") /\ resume' = resume
    BY <1>1 DEF TimerFires, Calm
  <2> QED
    BY <1>a, <1>b, <2>1, OtherGoes
<1>2. CASE Expire(Timer(r), r, "done")
  <2>1. Calm
    BY <1>2 DEF Expire, Calm
  <2>2. \/ StopBegin(Timer(r), "done")
        \/ GoTo(Timer(r), "done") /\ resume' = resume
    BY <1>2 DEF Expire
  <2> QED
    BY <1>a, <1>b, <2>1, <2>2, OtherGoes, OtherStops
<1>3. CASE StopEnd(Timer(r))
  BY <1>3, <1>a, StopEndKept, ThreadsDiffer DEF ThreadNames
<1> QED
  BY <1>1, <1>2, <1>3 DEF TimerStep

LEMMA ReaderKept ==
    ASSUME DataOK, ControlOK, AnswerInv, NEW g \in Generation, ReaderStep(g)
    PROVE  Kept
<1>1. unread \subseteq Req
  BY DEF DataOK, SupDataOK
<1>2. Calm /\ resume' = resume
  BY DEF ReaderStep, TakeLine, DeliverResponse, DeliverFinished, DeliverGarbage,
         ReaderEnds, Calm
<1>3. \E S \in SUBSET Req : pc' = WithoutTimers(S, pc)
  <2>1. CASE TakeLine(g)
    <3>1. pc' = pc
      BY <2>1 DEF TakeLine
    <3>2. WithoutTimers({}, pc) = pc
      BY DEF WithoutTimers, ControlOK, Places
    <3> QED
      BY <3>1, <3>2
  <2>2. CASE DeliverResponse(g)
    <3>1. Addressed(g, KeyOf[hand[g].req]) \subseteq Req
      <4>1. hand[g] \in LinesFromWorker
        BY <2>2 DEF DeliverResponse, DataOK, SupDataOK
      <4>2. hand[g].req \in Req
        BY <2>2, <4>1 DEF DeliverResponse, LinesFromWorker, GarbageLine
      <4> QED
        BY <4>2 DEF Addressed, DataOK, SupDataOK
    <3> QED
      BY <2>2, <3>1 DEF DeliverResponse
  <2>3. CASE DeliverFinished(g)
    <3> DEFINE S == {r \in Addressed(g, KeyOf[hand[g].req]) : cancelled[r]}
    <3>1. S \subseteq Req
      <4>1. hand[g] \in LinesFromWorker
        BY <2>3 DEF DeliverFinished, DataOK, SupDataOK
      <4>2. hand[g].req \in Req
        BY <2>3, <4>1 DEF DeliverFinished, LinesFromWorker, GarbageLine
      <4> QED
        BY <4>2 DEF Addressed, DataOK, SupDataOK
    <3>2. pc' = WithoutTimers(S, pc)
      BY <2>3 DEF DeliverFinished
    <3> QED
      BY <3>1, <3>2
  <2>4. CASE DeliverGarbage(g) \/ ReaderEnds(g)
    <3>1. UnfinishedOf(g) \subseteq Req
      BY DEF UnfinishedOf, Unfinished
    <3>2. pc' = WithoutTimers(UnfinishedOf(g), pc)
      BY <2>4 DEF DeliverGarbage, ReaderEnds, FailGeneration
    <3> QED
      BY <3>1, <3>2
  <2> QED
    BY <2>1, <2>2, <2>3, <2>4 DEF ReaderStep
<1> QED
  BY <1>1, <1>2, <1>3, ReaderGoes

LEMMA ClientKept ==
    ASSUME DataOK, ControlOK, AnswerInv, ClientStep
    PROVE  Kept
<1>a. unread \subseteq Req
  BY DEF DataOK, SupDataOK
<1>1. ASSUME NEW r \in Req, ReadLine(r)
      PROVE  Kept
  BY <1>1, <1>a, ReadLineKept
<1>2. ASSUME NEW k \in Key, ReadCancel(k)
      PROVE  Kept
  <2>1. pending[k] \in Req
    BY <1>2 DEF ReadCancel, DataOK, SupDataOK
  <2>2. /\ Mark(Main, pending[k]) /\ pc[Main] = "read" /\ current' = pending[k]
        /\ answers' = answers /\ unread' = unread /\ resume' = resume
    BY <1>2 DEF ReadCancel
  <2> QED
    BY <1>a, <2>1, <2>2, MarkKept
<1>3. CASE ReadEOF
  <2>1. Calm /\ pc[Main] = "read" /\ StopBegin(Main, "drain")
    BY <1>3 DEF ReadEOF, Calm
  <2> QED
    BY <1>a, <2>1, MainStops DEF Submitting
<1> QED
  BY <1>1, <1>2, <1>3 DEF ClientStep

-----------------------------------------------------------------------------
(* The worker and the surroundings.                                        *)

LEMMA WorkerData ==
    ASSUME ChannelTypeOK, WorkerTypeOK, NEW r \in Req,
           \/ Dispatch(r) \/ Refuse(r) \/ Ignore(r) \/ Cancel(r)
           \/ ThreadStep(r) \/ Return(r)
    PROVE  (ChannelTypeOK /\ WorkerTypeOK)'
<1> USE DEF ChannelTypeOK, WorkerTypeOK
<1>a. /\ {RefusalLine(r), ResultLine(r), FinishedLine(r)} \subseteq LinesFromWorker
      /\ {"idle", "queued", "locking", "handling", "returned", "result", "acking"}
            = WorkState
  BY DEF LinesFromWorker, RefusalLine, ResultLine, FinishedLine, WorkState
<1>1. CASE Dispatch(r)
  <2>1. toWorker' \in Seq(LinesToWorker)
    BY <1>1 DEF Dispatch, NextLineIs
  <2>2. queue' \in Seq(Req)
    BY <1>1 DEF Dispatch
  <2>3. work' \in [Req -> WorkState]
    BY <1>1, <1>a DEF Dispatch
  <2> QED
    BY <1>1, <2>1, <2>2, <2>3 DEF Dispatch
<1>2. CASE Refuse(r)
  <2>1. toWorker' \in Seq(LinesToWorker)
    BY <1>2 DEF Refuse, NextLineIs
  <2>2. fromWorker' \in Seq(LinesFromWorker)
    BY <1>2, <1>a DEF Refuse, SendLine
  <2> QED
    BY <1>2, <2>1, <2>2 DEF Refuse
<1>3. CASE Ignore(r)
  <2>1. toWorker' \in Seq(LinesToWorker)
    BY <1>3 DEF Ignore, NextLineIs
  <2> QED
    BY <1>3, <2>1 DEF Ignore
<1>4. CASE Cancel(r)
  <2>1. toWorker' \in Seq(LinesToWorker)
    BY <1>4 DEF Cancel, NextLineIs
  <2>2. flagged' \subseteq Req
    BY <1>4 DEF Cancel, Target, AdmittedUnder, Admitted
  <2> QED
    BY <1>4, <2>1, <2>2 DEF Cancel
<1>5. ASSUME NEW state \in WorkState, MoveOn(r, state)
      PROVE  work' \in [Req -> WorkState] /\ started' \in [Req -> Nat]
  BY <1>5 DEF MoveOn
<1>6. CASE Take(r)
  <2>1. Taken(r) \in WorkState
    BY <1>a DEF Taken
  <2>2. work' \in [Req -> WorkState] /\ started' \in [Req -> Nat]
    BY <1>5, <1>6, <2>1 DEF Take
  <2>3. queue' \in Seq(Req)
    BY <1>6 DEF Take
  <2> QED
    BY <1>6, <2>2, <2>3 DEF Take
<1>7. CASE Lock(r)
  <2>1. Locked(r) \in WorkState
    BY <1>a DEF Locked
  <2>2. work' \in [Req -> WorkState] /\ started' \in [Req -> Nat]
    BY <1>5, <1>7, <2>1 DEF Lock
  <2> QED
    BY <1>7, <2>2 DEF Lock
<1>8. CASE Pop(r)
  <2>1. work' \in [Req -> WorkState]
    BY <1>8, <1>a DEF Pop, Outcome
  <2> QED
    BY <1>8, <2>1 DEF Pop
<1>9. CASE SendResult(r)
  <2>1. fromWorker' \in Seq(LinesFromWorker)
    BY <1>9, <1>a DEF SendResult, SendLine
  <2>2. work' \in [Req -> WorkState]
    BY <1>9, <1>a DEF SendResult
  <2> QED
    BY <1>9, <2>1, <2>2 DEF SendResult
<1>10. CASE SendFinished(r)
  <2>1. fromWorker' \in Seq(LinesFromWorker)
    BY <1>10, <1>a DEF SendFinished, SendLine
  <2>2. work' \in [Req -> WorkState]
    BY <1>10, <1>a DEF SendFinished
  <2> QED
    BY <1>10, <2>1, <2>2 DEF SendFinished
<1>11. CASE Return(r)
  <2>1. work' \in [Req -> WorkState]
    BY <1>11, <1>a DEF Return
  <2> QED
    BY <1>11, <2>1 DEF Return
<1> QED
  BY <1>1, <1>2, <1>3, <1>4, <1>6, <1>7, <1>8, <1>9, <1>10, <1>11 DEF ThreadStep

LEMMA LostData ==
    ASSUME WorkerTypeOK, WorkLost
    PROVE  WorkerTypeOK'
<1>1. work' \in [Req -> WorkState]
  BY DEF WorkLost, WorkState
<1>2. queue' \in Seq(Req)
  BY DEF WorkLost
<1> QED
  BY <1>1, <1>2 DEF WorkLost, WorkerTypeOK

\* What the system adds to its parts.
RestOK == WorkerTypeOK /\ code \in Version \cup {0} /\ faults \in 0 .. MaxFaults

LEMMA AftermathData ==
    ASSUME RestOK, Aftermath
    PROVE  RestOK'
<1>1. CASE WorkLost /\ code' = 0 /\ faults' = faults
  BY <1>1, LostData DEF RestOK
<1>2. CASE UNCHANGED <<workerVars, code>> /\ faults' = faults
  BY <1>2 DEF RestOK, workerVars, WorkerTypeOK
<1> QED
  BY <1>1, <1>2 DEF Aftermath

LEMMA SupervisorAlone ==
    ASSUME DataOK, ControlOK, AnswerInv, UNCHANGED supVars
    PROVE  SupDataOK' /\ Kept
<1>1. SupDataOK'
  BY DEF supVars, DataOK, SupDataOK
<1>2. pc' = pc /\ resume' = resume /\ Calm
  BY DEF supVars, Calm
<1>3. Places(pc)' /\ LockInv' /\ MainAt' = MainAt
  BY <1>2 DEF ControlOK, LockInv, MainAt
<1>4. LineInv' /\ AnswerInv'
  BY <1>2, <1>3 DEF LineInv, AnswerInv, Calm, ControlOK
<1> QED
  BY <1>1, <1>3, <1>4 DEF Kept, ControlOK

-----------------------------------------------------------------------------
(* The theorems.                                                           *)

Inv == DataOK /\ ControlOK /\ AnswerInv /\ RestOK

LEMMA InitInv == Init => Inv
<1> SUFFICES ASSUME Init
             PROVE  Inv
  OBVIOUS
<1> USE DEF Init, SupInit, WorkerInit, FreshWork
<1>1. ChannelTypeOK
  <2>1. toWorker \in Seq(LinesToWorker)
    OBVIOUS
  <2>2. fromWorker \in Seq(LinesFromWorker)
    OBVIOUS
  <2> QED
    BY <2>1, <2>2 DEF ChannelTypeOK
<1>2. SupDataOK
  <2>1. answers \in [Req -> Seq(Answer)]
    OBVIOUS
  <2>2. slot \in [Req -> Slot] /\ resume \in Label
    BY DEF Slot, Label, WaiterPC
  <2>3. /\ reader \in [Generation -> {"off", "on", "done"}]
        /\ hand \in [Generation -> LinesFromWorker \cup {None}]
    OBVIOUS
  <2>4. /\ source \in Version
        /\ pending \in [Key -> Req \cup {None}]
        /\ gen \in [Req -> 0 .. MaxGen]
        /\ cancelled \in [Req -> BOOLEAN]
    BY SupervisorAssumption
  <2>5. process \in 0 .. MaxGen /\ generation \in 0 .. MaxGen /\ snapshot \in 0 .. MaxGen
    BY SupervisorAssumption
  <2> QED
    BY <2>1, <2>2, <2>3, <2>4, <2>5 DEF SupDataOK
<1>3. pc[Main] = "read" /\ \A r \in Req : pc[Waiter(r)] = "none" /\ pc[Timer(r)] = "none"
  BY ThreadsDiffer DEF ThreadNames
<1>4. Places(pc)
  BY <1>3 DEF Places, Label, MainPC, WaiterPC, TimerPC
<1>5. LockInv
  BY <1>3, ThreadsDiffer DEF LockInv, ThreadNames, Holding
<1>6. LineInv /\ AnswerInv
  BY <1>3 DEF LineInv, AnswerInv, MainAt, Submitting
<1>7. WorkerTypeOK
  <2>1. work \in [Req -> WorkState]
    BY DEF WorkState
  <2>2. queue \in Seq(Req)
    OBVIOUS
  <2> QED
    BY <2>1, <2>2 DEF WorkerTypeOK
<1>8. RestOK
  BY <1>7, SystemAssumption DEF RestOK
<1> QED
  BY <1>1, <1>2, <1>4, <1>5, <1>6, <1>8 DEF Inv, DataOK, ControlOK

LEMMA NextInv ==
    ASSUME Inv, [Next]_vars
    PROVE  Inv'
<1> USE DEF Inv
<1>1. CASE SupervisorRuns
  <2>1. RestOK'
    BY <1>1, AftermathData
       DEF SupervisorRuns, MainRuns, WaiterRuns, TimerRuns, ReaderRuns, ClientActs
  <2>2. CASE MainStep
    BY <2>1, <2>2, MainData, MainKept DEF Kept
  <2>3. ASSUME NEW r \in Req, WaiterStep(r) \/ TimerStep(r)
        PROVE  Inv'
    BY <2>1, <2>3, WaiterData, WaiterKept, TimerKept DEF Kept
  <2>4. ASSUME NEW g \in Generation, ReaderStep(g)
        PROVE  Inv'
    BY <2>1, <2>4, ReaderData, ReaderKept DEF Kept
  <2>5. CASE ClientStep
    BY <2>1, <2>5, ClientData, ClientKept DEF Kept
  <2> QED
    BY <1>1, <2>2, <2>3, <2>4, <2>5
       DEF SupervisorRuns, MainRuns, WaiterRuns, TimerRuns, ReaderRuns, ClientActs
<1>2. CASE WorkerRuns
  <2>1. UNCHANGED supVars /\ code' = code /\ faults' = faults
    BY <1>2 DEF WorkerRuns
  <2>2. ChannelTypeOK' /\ WorkerTypeOK'
    BY <1>2, WorkerData DEF WorkerRuns, DispatchStep, DataOK, RestOK
  <2> QED
    BY <2>1, <2>2, SupervisorAlone DEF Kept, DataOK, RestOK
<1>3. CASE Surroundings
  <2>1. CASE ReplaceSource /\ UNCHANGED <<workerVars, code, faults>>
    <3>1. ChannelTypeOK' /\ RestOK'
      BY <2>1 DEF ReplaceSource, channelVars, workerVars, DataOK, RestOK,
                  ChannelTypeOK, WorkerTypeOK
    <3>2. SupDataOK'
      BY <2>1 DEF ReplaceSource, DataOK, SupDataOK
    <3>3. pc' = pc /\ resume' = resume /\ Calm
      BY <2>1 DEF ReplaceSource, Calm
    <3>4. Places(pc)' /\ LockInv' /\ MainAt' = MainAt
      BY <3>3 DEF ControlOK, LockInv, MainAt
    <3>5. LineInv' /\ AnswerInv'
      BY <3>3, <3>4 DEF LineInv, AnswerInv, Calm, ControlOK
    <3> QED
      BY <3>1, <3>2, <3>4, <3>5 DEF DataOK, ControlOK
  <2>2. CASE Boot
    <3>1. UNCHANGED <<supVars, workerVars, faults>> /\ code' \in Version \cup {0}
      BY <2>2 DEF Boot, DataOK, SupDataOK, RestOK
    <3>2. ChannelTypeOK'
      <4>1. \/ UNCHANGED channelVars
            \/ alive' = FALSE /\ toWorker' = <<>> /\ fromWorker' = fromWorker
        BY <2>2 DEF Boot
      <4>2. toWorker' \in Seq(LinesToWorker)
        <5>1. CASE toWorker' = <<>>
          BY <5>1
        <5>2. CASE toWorker' = toWorker
          BY <5>2 DEF DataOK, ChannelTypeOK
        <5> QED
          BY <4>1, <5>1, <5>2 DEF channelVars
      <4> QED
        BY <4>1, <4>2 DEF DataOK, ChannelTypeOK, channelVars
    <3>3. RestOK'
      BY <3>1 DEF workerVars, RestOK, WorkerTypeOK
    <3> QED
      BY <3>1, <3>2, <3>3, SupervisorAlone DEF Kept, DataOK
  <2>3. CASE Crash
    <3>1. UNCHANGED supVars
      BY <2>3 DEF Crash
    <3>2. ChannelTypeOK'
      <4>1. alive' = FALSE /\ toWorker' = <<>> /\ fromWorker' = fromWorker
        BY <2>3 DEF Crash
      <4>2. toWorker' \in Seq(LinesToWorker)
        BY <4>1
      <4> QED
        BY <4>1, <4>2 DEF DataOK, ChannelTypeOK
    <3>3. RestOK'
      BY <2>3, LostData, SystemAssumption DEF Crash, RestOK
    <3> QED
      BY <3>1, <3>2, <3>3, SupervisorAlone DEF Kept, DataOK
  <2>4. CASE Babble
    <3>1. UNCHANGED supVars
      BY <2>4 DEF Babble
    <3>2. ChannelTypeOK'
      <4>1. GarbageLine \in LinesFromWorker
        BY DEF LinesFromWorker
      <4> QED
        BY <2>4, <4>1 DEF Babble, SendLine, DataOK, ChannelTypeOK
    <3>3. RestOK'
      BY <2>4, SystemAssumption DEF Babble, RestOK, workerVars, WorkerTypeOK
    <3> QED
      BY <3>1, <3>2, <3>3, SupervisorAlone DEF Kept, DataOK
  <2> QED
    BY <1>3, <2>1, <2>2, <2>3, <2>4 DEF Surroundings
<1>4. CASE UNCHANGED vars
  <2>1. UNCHANGED <<channelVars, supVars, workerVars, code, faults>>
    BY <1>4 DEF vars
  <2>2. ChannelTypeOK' /\ RestOK'
    BY <2>1 DEF channelVars, workerVars, DataOK, RestOK, ChannelTypeOK, WorkerTypeOK
  <2> QED
    BY <2>1, <2>2, SupervisorAlone DEF Kept, DataOK
<1> QED
  BY <1>1, <1>2, <1>3, <1>4 DEF Next, Exited

\* The invariant holds for every instance.
LEMMA SpecInv == Spec => []Inv
BY InitInv, NextInv, PTL DEF Spec

\* Every variable of the supervisor, the worker and their pipes keeps its
\* type: in particular no thread leaves its own places, and a client only ever
\* gets one of the four answers.
THEOREM SpecTypeOK == Spec => []TypeOK
<1>1. Inv => TypeOK
  BY DEF Inv, DataOK, ControlOK, RestOK, TypeOK, SupTypeOK
<1> QED
  BY <1>1, SpecInv, PTL

\* A client gets at most one response for a request: emit() is reached at most
\* once per line, from submit()'s error paths or from the one waiter.
THEOREM SpecAtMostOneAnswer == Spec => []AtMostOneAnswer
<1>1. Inv => AtMostOneAnswer
  BY DEF Inv, AnswerInv, AtMostOneAnswer
<1> QED
  BY <1>1, SpecInv, PTL
=============================================================================
