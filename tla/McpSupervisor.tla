--------------------------- MODULE McpSupervisor ----------------------------
(***************************************************************************)
(* The stdio supervisor of napseer_mcp_supervisor.py: the client's lines   *)
(* come in, a replaceable worker process answers them.                     *)
(*                                                                         *)
(* Its threads are the main thread (supervise()'s read loop), one waiter   *)
(* per forwarded request (finish() in the executor), one timer per         *)
(* cancelled request (_expire_cancelled) and one stdout reader per worker  *)
(* generation.  A section under _pending_lock is one action.  The          *)
(* lifecycle lock is held over several actions: exactly while a thread     *)
(* waits for the worker to exit ("stopping") or the main thread starts one *)
(* ("spawn").  What a worker does is in McpWorker; McpSystem composes them.*)
(***************************************************************************)
EXTENDS McpChannel

CONSTANTS
    Version,      \* identities runtime_identity() may return
    Missing,      \* those at which a watched path cannot be stat'ed
    Disciplined,  \* does the client wait with an id until it is settled?
    Rollback,     \* may a replaced source come back with its old identity?
    MaxGen        \* bound: worker processes ever started

ASSUME SupervisorAssumption ==
    /\ Version \subseteq Nat \ {0}
    /\ 1 \in Version
    /\ Missing \subseteq Version
    /\ Disciplined \in BOOLEAN
    /\ Rollback \in BOOLEAN
    /\ MaxGen \in Nat \ {0}

VARIABLES
    source,       \* the identity of the worker's source on disk
    loaded,       \* Worker.identity (0: None)
    reload,       \* Worker._reload_pending
    process,      \* Worker.process, named by its generation (0: None)
    generation,   \* Worker.generation
    pending,      \* Worker._pending: the request registered under a key
    gen,          \* PendingRequest.generation
    cancelled,    \* PendingRequest.cancelled
    slot,         \* PendingRequest.response, its first value
    pc,           \* where each thread is
    resume,       \* where the thread that is "stopping" goes on
    current,      \* the line the main thread works on
    snapshot,     \* the process submit() took under the lifecycle lock
    unread,       \* lines the client has not sent yet
    answers,      \* the responses emitted for a request
    closing,      \* supervise()'s closing event
    reader,       \* the stdout reader of a generation
    hand          \* the line that reader has taken and not delivered

supVars == <<source, loaded, reload, process, generation, pending, gen,
             cancelled, slot, pc, resume, current, snapshot, unread, answers,
             closing, reader, hand>>

Generation == 1 .. MaxGen

Main == <<"main", None>>
Waiter(r) == <<"waiter", r>>
Timer(r) == <<"timer", r>>
Waiters == {Waiter(r) : r \in Req}
Timers == {Timer(r) : r \in Req}
Thread == {Main} \cup Waiters \cup Timers

MainPC == {"read", "ensure", "spawn", "snap", "admit", "write", "unwind",
           "fail", "notify", "expire", "stopping", "drain", "exit"}
WaiterPC == {"none", "wait", "late", "notify", "expire", "stopping", "giveup",
             "done"}
TimerPC == {"none", "created", "armed", "expire", "stopping", "done"}

Label == MainPC \cup WaiterPC \cup TimerPC

Places(p) ==
    /\ p \in [Thread -> Label]
    /\ p[Main] \in MainPC
    /\ \A r \in Req : p[Waiter(r)] \in WaiterPC /\ p[Timer(r)] \in TimerPC

Slot == {"empty", "result", "wrong", "error", "cancelled"}
Answer == {"result", "wrong", "uncertain", "rejected"}

SupDataOK ==
    /\ source \in Version
    /\ loaded \in Version \cup {0}
    /\ reload \in BOOLEAN
    /\ process \in 0 .. MaxGen
    /\ generation \in 0 .. MaxGen
    /\ pending \in [Key -> Req \cup {None}]
    /\ gen \in [Req -> 0 .. MaxGen]
    /\ cancelled \in [Req -> BOOLEAN]
    /\ slot \in [Req -> Slot]
    /\ resume \in Label
    /\ current \in Req \cup {None}
    /\ snapshot \in 0 .. MaxGen
    /\ unread \subseteq Req
    /\ answers \in [Req -> Seq(Answer)]
    /\ closing \in BOOLEAN
    /\ reader \in [Generation -> {"off", "on", "done"}]
    /\ hand \in [Generation -> LinesFromWorker \cup {None}]

SupTypeOK == SupDataOK /\ Places(pc)

SupInit ==
    /\ source = 1
    /\ loaded = 0
    /\ reload = FALSE
    /\ process = 0
    /\ generation = 0
    /\ pending = [k \in Key |-> None]
    /\ gen = [r \in Req |-> 0]
    /\ cancelled = [r \in Req |-> FALSE]
    /\ slot = [r \in Req |-> "empty"]
    /\ pc = [t \in Thread |-> IF t = Main THEN "read" ELSE "none"]
    /\ resume = "none"
    /\ current = None
    /\ snapshot = 0
    /\ unread = Req
    /\ answers = [r \in Req |-> <<>>]
    /\ closing = FALSE
    /\ reader = [g \in Generation |-> "off"]
    /\ hand = [g \in Generation |-> None]

-----------------------------------------------------------------------------
(* Helpers: the pending table, the response slots and the lifecycle lock.  *)

Registered(r) == pending[KeyOf[r]] = r

Unfinished == {r \in Req : Registered(r)}

\* Mutant: _fail_generation() does not look at the generation.
AnyUnfinished(g) == Unfinished

UnfinishedOf(g) == {r \in Unfinished : gen[r] = g}

GoTo(t, label) == pc' = [pc EXCEPT ![t] = label]

\* threading.Timer.cancel(): a timer that has not fired never fires.
WithoutTimers(S, label) ==
    [t \in Thread |->
        IF \E r \in S : t = Timer(r) /\ label[t] \in {"created", "armed"}
        THEN "done"
        ELSE label[t]]

\* Worker._signal for every request of S: put_nowait, the first value stays.
Signalled(S, value) ==
    [r \in Req |-> IF r \in S /\ slot[r] = "empty" THEN value ELSE slot[r]]

WithoutPending(S) ==
    [k \in Key |-> IF pending[k] \in S THEN None ELSE pending[k]]

\* Mutant: shutdown keeps the lifecycle lock.
FreeUnlessDraining ==
    \A t \in Thread : pc[t] \notin {"stopping", "spawn", "drain"}

LifecycleFree == \A t \in Thread : pc[t] \notin {"stopping", "spawn"}

\* _fail_generation(g); label: the threads' places after the step's own move.
FailGeneration(g, label) ==
    /\ pending' = WithoutPending(UnfinishedOf(g))
    /\ slot' = Signalled(UnfinishedOf(g), "error")
    /\ pc' = WithoutTimers(UnfinishedOf(g), label)

\* emit() for request r: nothing is written once closing is set.
Emit(r, answer) ==
    answers' = IF closing THEN answers
               ELSE [answers EXCEPT ![r] = Append(@, answer)]

\* _stop_locked() up to the wait for the process's exit.
StopBegin(t, next) ==
    /\ LifecycleFree
    /\ process' = 0
    /\ loaded' = 0
    /\ reload' = FALSE
    /\ IF process = 0
       THEN GoTo(t, next) /\ UNCHANGED resume
       ELSE GoTo(t, "stopping") /\ resume' = next

\* _stop_locked() from the process's exit on: the pipes are closed and the
\* generation's requests fail.
StopEnd(t) ==
    /\ pc[t] = "stopping"
    /\ alive' = FALSE
    /\ toWorker' = <<>>
    /\ fromWorker' = <<>>
    /\ FailGeneration(generation, [pc EXCEPT ![t] = resume])
    /\ resume' = "none"
    /\ UNCHANGED <<source, loaded, reload, process, generation, gen, cancelled,
                   current, snapshot, unread, answers, closing, reader, hand>>

\* _expire_cancelled(pending of r) by thread t.
Expire(t, r, next) ==
    /\ pc[t] = "expire"
    /\ LifecycleFree
    /\ IF Registered(r) /\ gen[r] = generation
       THEN StopBegin(t, next)
       ELSE GoTo(t, next) /\ UNCHANGED <<process, loaded, reload, resume>>
    /\ UNCHANGED <<source, generation, pending, gen, cancelled, slot, current,
                   snapshot, unread, answers, closing, reader, hand>>
    /\ UNCHANGED channelVars

\* What _write() checks before it writes a line for process p, and the room
\* that its select() waits for.
CanWrite(p) == process = p /\ alive /\ Len(toWorker) < PipeSize

\* _write() raises: another process, a dead one, or no room before the
\* deadline (select may report the pipe full however fast the worker is).
CannotWrite(p) == process # p \/ ~alive \/ Len(toWorker) = PipeSize

-----------------------------------------------------------------------------
(* The main thread.                                                        *)

\* A disciplined client uses an id again once the request before has its
\* answer or is cancelled (a cancellation the client sends for a request that
\* timed out at that moment changes nothing more).
IdIsFree(r) ==
    \A q \in Req \ (unread \cup Notification \cup {r}) :
        KeyOf[q] = KeyOf[r] => answers[q] # <<>> \/ cancelled[q]

ReadLine(r) ==
    /\ pc[Main] = "read"
    /\ r \in unread
    /\ Disciplined /\ r \notin Notification => IdIsFree(r)
    /\ unread' = unread \ {r}
    /\ current' = r
    /\ GoTo(Main, "ensure")
    /\ UNCHANGED <<source, loaded, reload, process, generation, pending, gen,
                   cancelled, slot, resume, snapshot, answers, closing, reader,
                   hand>>
    /\ UNCHANGED channelVars

\* Mutant: cancel() frees the id and the slot at once.
MarkAndForget(t, r) ==
    /\ cancelled' = [cancelled EXCEPT ![r] = TRUE]
    /\ pc' = [pc EXCEPT ![t] = "notify", ![Timer(r)] = "created"]
    /\ pending' = WithoutPending({r})

\* cancel() under _pending_lock: the request is marked and its grace timer
\* created; the line to the worker follows in Notify.  The entry stays: the
\* work is not finished, and its id and its slot are still taken.
Mark(t, r) ==
    /\ cancelled' = [cancelled EXCEPT ![r] = TRUE]
    /\ pc' = [pc EXCEPT ![t] = "notify", ![Timer(r)] = "created"]
    /\ UNCHANGED pending

\* The client cancels an id: supervise() calls cancel(value).
ReadCancel(k) ==
    /\ pc[Main] = "read"
    /\ pending[k] \notin Initialize \cup {None}
    /\ ~cancelled[pending[k]]
    /\ Mark(Main, pending[k])
    /\ current' = pending[k]
    /\ UNCHANGED <<source, loaded, reload, process, generation, gen,
                   slot, resume, snapshot, unread, answers, closing, reader,
                   hand>>
    /\ UNCHANGED channelVars

\* The rest of cancel(): the waiter is signalled, the timer starts, and the
\* worker is told, if it is still the request's own; a failed write expires
\* the request at once.
Notify(t, r, next) ==
    /\ pc[t] = "notify"
    /\ slot' = Signalled({r}, "cancelled")
    /\ LET armed == [pc EXCEPT ![Timer(r)] = IF @ = "created" THEN "armed" ELSE @]
           same  == process # 0 /\ gen[r] = generation
       IN  \/ /\ ~same
              /\ pc' = [armed EXCEPT ![t] = next]
              /\ UNCHANGED toWorker
           \/ /\ same
              /\ CanWrite(process)
              /\ toWorker' = Append(toWorker, CancelLine(r))
              /\ pc' = [armed EXCEPT ![t] = next]
           \/ /\ same
              /\ CannotWrite(process)
              /\ pc' = [armed EXCEPT ![t] = "expire"]
              /\ UNCHANGED toWorker
    /\ UNCHANGED <<source, loaded, reload, process, generation, pending, gen,
                   cancelled, resume, current, snapshot, unread, answers,
                   closing, reader, hand, fromWorker, alive>>

\* The client closes its end: the loop ends, finally stops the worker.
ReadEOF ==
    /\ pc[Main] = "read"
    /\ closing' = TRUE
    /\ StopBegin(Main, "drain")
    /\ UNCHANGED <<source, generation, pending, gen, cancelled, slot, current,
                   snapshot, unread, answers, reader, hand>>
    /\ UNCHANGED channelVars

\* waiters.shutdown(wait=True), then the process exits.
Exit ==
    /\ pc[Main] = "drain"
    /\ \A r \in Req : pc[Waiter(r)] \in {"none", "done"}
    /\ GoTo(Main, "exit")
    /\ UNCHANGED <<source, loaded, reload, process, generation, pending, gen,
                   cancelled, slot, resume, current, snapshot, unread, answers,
                   closing, reader, hand>>
    /\ UNCHANGED channelVars

\* Mutant: cancelled work does not hold a reload back.
WorkLeftUncancelled == {r \in UnfinishedOf(generation) : ~cancelled[r]} # {}

WorkLeft == UnfinishedOf(generation) # {}

\* Mutant: a deferred reload records the new identity already.
DeferAndAdopt == reload' = TRUE /\ loaded' = source

\* A reload that has to wait is remembered; the old identity stays.
Defer == reload' = TRUE /\ UNCHANGED loaded

\* ensure_current(): a missing source stops the worker; a changed one waits
\* while requests are unfinished; a dead or outdated worker is replaced
\* (start() begins with _stop_locked()).
EnsureCurrent ==
    LET dead    == process = 0 \/ ~alive
        changed == loaded # 0 /\ loaded # source
        later   == changed /\ ~dead /\ WorkLeft
    IN  /\ pc[Main] = "ensure"
        /\ LifecycleFree
        /\ \/ /\ source \in Missing
              /\ StopBegin(Main, "fail")
           \/ /\ source \notin Missing
              /\ later
              /\ Defer
              /\ GoTo(Main, "snap")
              /\ UNCHANGED <<process, resume>>
           \/ /\ source \notin Missing
              /\ ~later
              /\ IF dead \/ loaded = 0 \/ changed \/ reload
                 THEN StopBegin(Main, "spawn")
                 ELSE GoTo(Main, "snap")
                      /\ UNCHANGED <<process, loaded, reload, resume>>
        /\ UNCHANGED <<source, generation, pending, gen, cancelled, slot,
                       current, snapshot, unread, answers, closing, reader,
                       hand>>
        /\ UNCHANGED channelVars

\* Mutant: a new worker is given a failed request again.
ReplayedLines ==
    IF \E r \in Req : slot[r] = "error"
    THEN <<RequestLine(CHOOSE r \in Req : slot[r] = "error")>>
    ELSE <<>>

\* What a new worker finds in its stdin: nothing is replayed.
FirstLines == <<>>

\* start() after _stop_locked(): the identity is taken before the process
\* starts (the worker reads its source later: see McpSystem's Boot).
Spawn ==
    /\ pc[Main] = "spawn"
    /\ source \notin Missing
    /\ generation < MaxGen
    /\ generation' = generation + 1
    /\ process' = generation + 1
    /\ loaded' = source
    /\ alive' = TRUE
    /\ toWorker' = FirstLines
    /\ fromWorker' = <<>>
    /\ reader' = [reader EXCEPT ![generation + 1] = "on"]
    /\ GoTo(Main, "snap")
    /\ UNCHANGED <<source, reload, pending, gen, cancelled, slot, resume,
                   current, snapshot, unread, answers, closing, hand>>

\* start() raises: the source is gone, or the process cannot be started.
SpawnFails ==
    /\ pc[Main] = "spawn"
    /\ GoTo(Main, "fail")
    /\ UNCHANGED <<source, loaded, reload, process, generation, pending, gen,
                   cancelled, slot, resume, current, snapshot, unread, answers,
                   closing, reader, hand>>
    /\ UNCHANGED channelVars

\* submit() takes the process and the generation; a grace timer may have
\* stopped the worker since ensure_current().
Snapshot ==
    /\ pc[Main] = "snap"
    /\ LifecycleFree
    /\ snapshot' = process
    /\ GoTo(Main, IF process = 0 THEN "fail"
                  ELSE IF current \in Notification THEN "write"
                  ELSE "admit")
    /\ UNCHANGED <<source, loaded, reload, process, generation, pending, gen,
                   cancelled, slot, resume, current, unread, answers, closing,
                   reader, hand>>
    /\ UNCHANGED channelVars

\* Mutant: the waiter is started before the line is written.
AdmitAndWait ==
    /\ pc[Main] = "admit"
    /\ pending[KeyOf[current]] = None
    /\ Cardinality(Unfinished) < MaxInFlight
    /\ pending' = [pending EXCEPT ![KeyOf[current]] = current]
    /\ gen' = [gen EXCEPT ![current] = snapshot]
    /\ pc' = [pc EXCEPT ![Main] = "write", ![Waiter(current)] = "wait"]
    /\ UNCHANGED <<source, loaded, reload, process, generation, cancelled, slot,
                   resume, current, snapshot, unread, answers, closing, reader,
                   hand>>
    /\ UNCHANGED channelVars

\* submit()'s section under _pending_lock.
Admit ==
    /\ pc[Main] = "admit"
    /\ pending[KeyOf[current]] = None
    /\ Cardinality(Unfinished) < MaxInFlight
    /\ pending' = [pending EXCEPT ![KeyOf[current]] = current]
    /\ gen' = [gen EXCEPT ![current] = snapshot]
    /\ GoTo(Main, "write")
    /\ UNCHANGED <<source, loaded, reload, process, generation, cancelled, slot,
                   resume, current, snapshot, unread, answers, closing, reader,
                   hand>>
    /\ UNCHANGED channelVars

\* RequestRejected: a duplicate id or too many unfinished requests (-32097).
Reject ==
    /\ pc[Main] = "admit"
    /\ \/ pending[KeyOf[current]] # None
       \/ Cardinality(Unfinished) >= MaxInFlight
    /\ Emit(current, "rejected")
    /\ GoTo(Main, "read")
    /\ UNCHANGED <<source, loaded, reload, process, generation, pending, gen,
                   cancelled, slot, resume, current, snapshot, unread, closing,
                   reader, hand>>
    /\ UNCHANGED channelVars

\* _write() succeeds; for a request supervise() then hands it to a waiter.
Write ==
    /\ pc[Main] = "write"
    /\ CanWrite(snapshot)
    /\ toWorker' = Append(toWorker, RequestLine(current))
    /\ pc' = IF current \in Notification
             THEN [pc EXCEPT ![Main] = "read"]
             ELSE [pc EXCEPT ![Main] = "read", ![Waiter(current)] = "wait"]
    /\ UNCHANGED <<source, loaded, reload, process, generation, pending, gen,
                   cancelled, slot, resume, current, snapshot, unread, answers,
                   closing, reader, hand, fromWorker, alive>>

\* _write() raises: the request is taken back, and the worker is stopped.
WriteFails ==
    /\ pc[Main] = "write"
    /\ CannotWrite(snapshot)
    /\ pending' = WithoutPending({current})
    /\ GoTo(Main, "unwind")
    /\ UNCHANGED <<source, loaded, reload, process, generation, gen, cancelled,
                   slot, resume, current, snapshot, unread, answers, closing,
                   reader, hand>>
    /\ UNCHANGED channelVars

Unwind ==
    /\ pc[Main] = "unwind"
    /\ StopBegin(Main, "fail")
    /\ UNCHANGED <<source, generation, pending, gen, cancelled, slot, current,
                   snapshot, unread, answers, closing, reader, hand>>
    /\ UNCHANGED channelVars

\* supervise() answers a WorkerUnavailable of submit() with -32098; a
\* notification gets no answer.
Fail ==
    /\ pc[Main] = "fail"
    /\ IF current \in Notification THEN UNCHANGED answers
       ELSE Emit(current, "uncertain")
    /\ GoTo(Main, "read")
    /\ UNCHANGED <<source, loaded, reload, process, generation, pending, gen,
                   cancelled, slot, resume, current, snapshot, unread, closing,
                   reader, hand>>
    /\ UNCHANGED channelVars

-----------------------------------------------------------------------------
(* The waiter of request r: finish() and wait().                           *)

\* Mutant: the error object itself is emitted.
RawAnswer(value) == value

\* What finish() makes of a value: WorkerUnavailable becomes -32098.
AnswerFor(value) == IF value = "error" THEN "uncertain" ELSE value

\* wait() returns None.
IsSilent(value) == value = "cancelled"

\* response.get() returns: a result is emitted, an error as -32098, and
\* nothing for a cancelled request.
Receive(r) ==
    /\ pc[Waiter(r)] = "wait"
    /\ slot[r] # "empty"
    /\ IF IsSilent(slot[r]) THEN UNCHANGED answers
       ELSE Emit(r, AnswerFor(slot[r]))
    /\ GoTo(Waiter(r), "done")
    /\ UNCHANGED <<source, loaded, reload, process, generation, pending, gen,
                   cancelled, slot, resume, current, snapshot, unread, closing,
                   reader, hand>>
    /\ UNCHANGED channelVars

\* Mutant: a timed out initialize leaves its worker running.
InitializeGivesUp(r) == IF r \in Initialize THEN "giveup" ELSE "late"

\* initialize is not cancelled: its worker is stopped.
AfterTimeOut(r) == IF r \in Initialize THEN "expire" ELSE "late"

\* response.get() raises queue.Empty after RESPONSE_TIMEOUT_SECONDS.
TimeOut(r) ==
    /\ pc[Waiter(r)] = "wait"
    /\ slot[r] = "empty"
    /\ GoTo(Waiter(r), AfterTimeOut(r))
    /\ UNCHANGED <<source, loaded, reload, process, generation, pending, gen,
                   cancelled, slot, resume, current, snapshot, unread, answers,
                   closing, reader, hand>>
    /\ UNCHANGED channelVars

\* cancel(id, expected=pending): nothing when the entry is no longer this
\* request or is cancelled already.
CancelLate(r) ==
    /\ pc[Waiter(r)] = "late"
    /\ IF Registered(r) /\ ~cancelled[r]
       THEN Mark(Waiter(r), r)
       ELSE GoTo(Waiter(r), "giveup") /\ UNCHANGED <<cancelled, pending>>
    /\ UNCHANGED <<source, loaded, reload, process, generation, gen,
                   slot, resume, current, snapshot, unread, answers, closing,
                   reader, hand>>
    /\ UNCHANGED channelVars

\* Mutant: a timeout is reported as -32097.
GiveUpAsRejected(r) ==
    /\ pc[Waiter(r)] = "giveup"
    /\ Emit(r, "rejected")
    /\ GoTo(Waiter(r), "done")
    /\ UNCHANGED <<source, loaded, reload, process, generation, pending, gen,
                   cancelled, slot, resume, current, snapshot, unread, closing,
                   reader, hand>>
    /\ UNCHANGED channelVars

\* Mutant: what was cancelled is not answered, whoever cancelled it.
GiveUpSilently(r) ==
    /\ pc[Waiter(r)] = "giveup"
    /\ IF cancelled[r] THEN UNCHANGED answers ELSE Emit(r, "uncertain")
    /\ GoTo(Waiter(r), "done")
    /\ UNCHANGED <<source, loaded, reload, process, generation, pending, gen,
                   cancelled, slot, resume, current, snapshot, unread, closing,
                   reader, hand>>
    /\ UNCHANGED channelVars

\* "response timed out": -32098.
GiveUp(r) ==
    /\ pc[Waiter(r)] = "giveup"
    /\ Emit(r, "uncertain")
    /\ GoTo(Waiter(r), "done")
    /\ UNCHANGED <<source, loaded, reload, process, generation, pending, gen,
                   cancelled, slot, resume, current, snapshot, unread, closing,
                   reader, hand>>
    /\ UNCHANGED channelVars

\* CANCEL_GRACE_SECONDS passed without an acknowledgement.
TimerFires(r) ==
    /\ pc[Timer(r)] = "armed"
    /\ GoTo(Timer(r), "expire")
    /\ UNCHANGED <<source, loaded, reload, process, generation, pending, gen,
                   cancelled, slot, resume, current, snapshot, unread, answers,
                   closing, reader, hand>>
    /\ UNCHANGED channelVars

-----------------------------------------------------------------------------
(* The stdout reader of generation g: _read_stdout and _deliver_response.  *)

TakeLine(g) ==
    /\ reader[g] = "on"
    /\ g = generation
    /\ hand[g] = None
    /\ fromWorker # <<>>
    /\ hand' = [hand EXCEPT ![g] = Head(fromWorker)]
    /\ fromWorker' = Tail(fromWorker)
    /\ UNCHANGED <<source, loaded, reload, process, generation, pending, gen,
                   cancelled, slot, pc, resume, current, snapshot, unread,
                   answers, closing, reader, toWorker, alive>>

\* Mutant: _deliver_response() does not compare generations.
RegisteredUnder(g, k) == {pending[k]} \ {None}

\* The request a line of generation g with id k is for, if there is one.
Addressed(g, k) == {r \in {pending[k]} \ {None} : gen[r] = g}

\* Mutant: a late response is signalled to a cancelled request too.
TellAll(S) == S

\* A cancelled request's waiter is not told.
Told(S) == {r \in S : ~cancelled[r]}

\* A response settles the request registered under its id, if that request
\* went to this generation.
DeliverResponse(g) ==
    /\ hand[g] # None
    /\ hand[g].type \in {"result", "refusal"}
    /\ LET S == Addressed(g, KeyOf[hand[g].req])
       IN  /\ pending' = WithoutPending(S)
           /\ slot' = Signalled(Told(S), IF S = {hand[g].req} THEN "result" ELSE "wrong")
           /\ pc' = WithoutTimers(S, pc)
    /\ hand' = [hand EXCEPT ![g] = None]
    /\ UNCHANGED <<source, loaded, reload, process, generation, gen, cancelled,
                   resume, current, snapshot, unread, answers, closing, reader>>
    /\ UNCHANGED channelVars

\* The acknowledgement of cancelled work; ignored for any other request.
DeliverFinished(g) ==
    /\ hand[g] # None
    /\ hand[g].type = "finished"
    /\ LET S == {r \in Addressed(g, KeyOf[hand[g].req]) : cancelled[r]}
       IN  /\ pending' = WithoutPending(S)
           /\ pc' = WithoutTimers(S, pc)
    /\ hand' = [hand EXCEPT ![g] = None]
    /\ UNCHANGED <<source, loaded, reload, process, generation, gen, cancelled,
                   slot, resume, current, snapshot, unread, answers, closing,
                   reader>>
    /\ UNCHANGED channelVars

\* A line that is no JSON object: the worker is terminated, the generation
\* fails, and the reader ends.
DeliverGarbage(g) ==
    /\ hand[g] # None
    /\ hand[g].type = "garbage"
    /\ alive' = (alive /\ g # generation)
    /\ FailGeneration(g, pc)
    /\ hand' = [hand EXCEPT ![g] = None]
    /\ reader' = [reader EXCEPT ![g] = "done"]
    /\ UNCHANGED <<source, loaded, reload, process, generation, gen, cancelled,
                   resume, current, snapshot, unread, answers, closing,
                   toWorker, fromWorker>>

\* The end of the worker's output.
ReaderEnds(g) ==
    /\ reader[g] = "on"
    /\ hand[g] = None
    /\ g < generation \/ (~alive /\ fromWorker = <<>>)
    /\ FailGeneration(g, pc)
    /\ reader' = [reader EXCEPT ![g] = "done"]
    /\ UNCHANGED <<source, loaded, reload, process, generation, gen, cancelled,
                   resume, current, snapshot, unread, answers, closing, hand>>
    /\ UNCHANGED channelVars

-----------------------------------------------------------------------------
(* The steps of the supervisor, and of what surrounds it.                  *)

MainStep ==
    \/ EnsureCurrent \/ Spawn \/ SpawnFails \/ Snapshot \/ Admit \/ Reject
    \/ Write \/ WriteFails \/ Unwind \/ Fail \/ Exit
    \/ StopEnd(Main) \/ Expire(Main, current, "read")
    \/ Notify(Main, current, "read")

WaiterStep(r) ==
    \/ Receive(r) \/ TimeOut(r) \/ CancelLate(r) \/ GiveUp(r)
    \/ Notify(Waiter(r), r, "giveup")
    \/ Expire(Waiter(r), r, "giveup")
    \/ StopEnd(Waiter(r))

TimerStep(r) ==
    TimerFires(r) \/ Expire(Timer(r), r, "done") \/ StopEnd(Timer(r))

ReaderStep(g) ==
    \/ TakeLine(g) \/ DeliverResponse(g) \/ DeliverFinished(g)
    \/ DeliverGarbage(g) \/ ReaderEnds(g)

ClientStep ==
    \/ \E r \in Req : ReadLine(r)
    \/ \E k \in Key : ReadCancel(k)
    \/ ReadEOF

\* The source on disk is replaced, removed or, with Rollback, put back.
ReplaceSource ==
    /\ \E v \in Version :
          /\ v > source \/ (Rollback /\ v # source)
          /\ source' = v
    /\ UNCHANGED <<loaded, reload, process, generation, pending, gen, cancelled,
                   slot, pc, resume, current, snapshot, unread, answers,
                   closing, reader, hand>>
    /\ UNCHANGED channelVars
=============================================================================
