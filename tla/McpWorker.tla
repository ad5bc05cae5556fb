----------------------------- MODULE McpWorker ------------------------------
(***************************************************************************)
(* The worker process of napseer_mcp_server.py: McpRequestRuntime, the     *)
(* tool executor and call_tool's mutation lock.                            *)
(*                                                                         *)
(* The main thread reads stdin and dispatches; MaxWorkers executor threads *)
(* take the admitted requests in their order.  work[r] is where request r  *)
(* is:                                                                     *)
(*   idle      not in this process (or settled)                            *)
(*   queued    admitted, its work item in the executor's queue             *)
(*   locking   taken by a thread, waits for MCP_MUTATION_LOCK              *)
(*   handling  its tool runs (a mutation holds the lock)                   *)
(*   returned  the handler returned, the request is still admitted         *)
(*   result, acking   popped; the thread is about to send its response, or *)
(*             the acknowledgement of a cancelled request                  *)
(* A cancelled request that never reached its tool goes to "returned" too. *)
(***************************************************************************)
EXTENDS McpChannel

CONSTANTS
    Mutation,     \* requests that call a tool with side effects
    MaxWorkers,   \* MCP_MAX_WORKERS
    Supervised    \* NAPSEER_MCP_SUPERVISED

ASSUME WorkerAssumption ==
    /\ Mutation \subseteq Req \ (Initialize \cup Notification)
    /\ MaxWorkers \in Nat \ {0, 1}
    /\ Supervised \in BOOLEAN

VARIABLES
    work,         \* see above
    queue,        \* the executor's work queue
    flagged,      \* requests whose cancelled event is set
    closed,       \* McpRequestRuntime._closed
    started       \* how often the tool of a request was started

workVars == <<work, queue, flagged, closed>>
workerVars == <<work, queue, flagged, closed, started>>

WorkState == {"idle", "queued", "locking", "handling", "returned", "result",
              "acking"}

WorkerTypeOK ==
    /\ work \in [Req -> WorkState]
    /\ queue \in Seq(Req)
    /\ flagged \subseteq Req
    /\ closed \in BOOLEAN
    /\ started \in [Req -> Nat]

FreshWork ==
    /\ work = [r \in Req |-> "idle"]
    /\ queue = <<>>
    /\ flagged = {}
    /\ closed = FALSE

WorkerInit == FreshWork /\ started = [r \in Req |-> 0]

\* What is left of the work when the process is gone.
WorkLost ==
    /\ work' = [r \in Req |-> "idle"]
    /\ queue' = <<>>
    /\ flagged' = {}
    /\ closed' = FALSE
    /\ UNCHANGED started

\* Mutant: cancelled work in the queue is not counted.
AdmittedUncancelled ==
    {r \in Req : \/ work[r] \in {"locking", "handling", "returned"}
                 \/ work[r] = "queued" /\ r \notin flagged}

\* McpRequestRuntime._requests: one entry per id.
Admitted == {r \in Req : work[r] \in {"queued", "locking", "handling", "returned"}}

AdmittedUnder(k) == {r \in Admitted : KeyOf[r] = k}

\* The executor threads that are taken.
Busy == {r \in Req : work[r] \notin {"idle", "queued"}}

CanSend == alive /\ Len(fromWorker) < PipeSize

SendLine(line) == fromWorker' = Append(fromWorker, line)

-----------------------------------------------------------------------------
(* The main thread: dispatch().                                            *)

NextLineIs(line) == alive /\ ~closed /\ toWorker # <<>> /\ Head(toWorker) = line

Dispatch(r) ==
    /\ NextLineIs(RequestLine(r))
    /\ r \notin Notification
    /\ AdmittedUnder(KeyOf[r]) = {}
    /\ Cardinality(Admitted) < MaxInFlight
    /\ toWorker' = Tail(toWorker)
    /\ work' = [work EXCEPT ![r] = "queued"]
    /\ queue' = Append(queue, r)
    /\ flagged' = flagged \ {r}
    /\ UNCHANGED <<closed, started, fromWorker, alive>>

\* Mutant: the return after an admission error is missing.
RefuseAndGoOn(r) ==
    /\ NextLineIs(RequestLine(r))
    /\ r \notin Notification
    /\ \/ AdmittedUnder(KeyOf[r]) # {}
       \/ Cardinality(Admitted) >= MaxInFlight
    /\ CanSend
    /\ toWorker' = Tail(toWorker)
    /\ SendLine(RefusalLine(r))
    /\ work' = [work EXCEPT ![r] = "queued"]
    /\ queue' = Append(queue, r)
    /\ UNCHANGED <<flagged, closed, started, alive>>

\* A duplicate id or a full table: an error, and the request never starts.
Refuse(r) ==
    /\ NextLineIs(RequestLine(r))
    /\ r \notin Notification
    /\ \/ AdmittedUnder(KeyOf[r]) # {}
       \/ Cardinality(Admitted) >= MaxInFlight
    /\ CanSend
    /\ toWorker' = Tail(toWorker)
    /\ SendLine(RefusalLine(r))
    /\ UNCHANGED <<work, queue, flagged, closed, started, alive>>

\* Notifications other than a cancellation change nothing.
Ignore(r) ==
    /\ NextLineIs(RequestLine(r))
    /\ r \in Notification
    /\ toWorker' = Tail(toWorker)
    /\ UNCHANGED <<work, queue, flagged, closed, started, fromWorker, alive>>

\* Mutant: cancel() does not check that it found a request.
TargetOrNone(k) == IF AdmittedUnder(k) = {} THEN {None} ELSE AdmittedUnder(k)

\* The request cancel() finds under an id; initialize is not cancelled.
Target(k) == AdmittedUnder(k) \ Initialize

\* cancel(): the request admitted under the id is flagged; queued work stays
\* admitted until the executor takes it.
Cancel(r) ==
    /\ NextLineIs(CancelLine(r))
    /\ toWorker' = Tail(toWorker)
    /\ flagged' = flagged \cup Target(KeyOf[r])
    /\ UNCHANGED <<work, queue, closed, started, fromWorker, alive>>

-----------------------------------------------------------------------------
(* An executor thread: _execute(), handle() and call_tool() for request r. *)

\* Request r moves on to a state; its tool starts when that is "handling".
MoveOn(r, state) ==
    /\ work' = [work EXCEPT ![r] = state]
    /\ started' = IF state = "handling" THEN [started EXCEPT ![r] = @ + 1]
                  ELSE started

\* Mutant: the work item of a cancelled request is dropped.
SkippedWhenFlagged(r) ==
    IF r \in flagged THEN "queued"
    ELSE IF r \in Mutation THEN "locking" ELSE "handling"

\* The first check for a cancellation; only a tool with side effects needs
\* the lock.
Taken(r) ==
    IF r \in flagged THEN "returned"
    ELSE IF r \in Mutation THEN "locking" ELSE "handling"

\* A thread takes the next work item.
Take(r) ==
    /\ alive
    /\ queue # <<>>
    /\ Head(queue) = r
    /\ Cardinality(Busy) < MaxWorkers
    /\ queue' = Tail(queue)
    /\ MoveOn(r, Taken(r))
    /\ UNCHANGED <<flagged, closed, toWorker, fromWorker, alive>>

MutationLockFree == \A r \in Mutation : work[r] # "handling"

\* Mutant: no check after the wait for the lock.
LockedUnchecked(r) == "handling"

\* The second check for a cancellation, once the lock is held.
Locked(r) == IF r \in flagged THEN "returned" ELSE "handling"

\* call_tool(): with MCP_MUTATION_LOCK.
Lock(r) ==
    /\ alive
    /\ work[r] = "locking"
    /\ MutationLockFree
    /\ MoveOn(r, Locked(r))
    /\ UNCHANGED <<queue, flagged, closed, toWorker, fromWorker, alive>>

\* The tool returns or raises; nothing makes it.
Return(r) ==
    /\ alive
    /\ work[r] = "handling"
    /\ work' = [work EXCEPT ![r] = "returned"]
    /\ UNCHANGED <<queue, flagged, closed, started, toWorker, fromWorker, alive>>

\* Mutant: without a supervisor a cancelled request is answered.
AnsweredAnyway(r) == IF r \in flagged /\ Supervised THEN "acking" ELSE "result"

\* What is left to send: _notify_finished() writes only to a supervisor.
Outcome(r) ==
    IF r \notin flagged THEN "result"
    ELSE IF Supervised THEN "acking" ELSE "idle"

\* _execute()'s finally: the flag is sampled and the request popped under one
\* lock.
Pop(r) ==
    /\ alive
    /\ work[r] = "returned"
    /\ work' = [work EXCEPT ![r] = Outcome(r)]
    /\ flagged' = flagged \ {r}
    /\ UNCHANGED <<queue, closed, started, toWorker, fromWorker, alive>>

SendResult(r) ==
    /\ work[r] = "result"
    /\ CanSend
    /\ SendLine(ResultLine(r))
    /\ work' = [work EXCEPT ![r] = "idle"]
    /\ UNCHANGED <<queue, flagged, closed, started, toWorker, alive>>

SendFinished(r) ==
    /\ work[r] = "acking"
    /\ CanSend
    /\ SendLine(FinishedLine(r))
    /\ work' = [work EXCEPT ![r] = "idle"]
    /\ UNCHANGED <<queue, flagged, closed, started, toWorker, alive>>

-----------------------------------------------------------------------------
(* The end of stdin: main()'s finally calls close().                       *)

\* Every admitted request is flagged; a future still in the queue is
\* cancelled and never runs (its entry stays).
Close ==
    /\ alive
    /\ ~closed
    /\ toWorker = <<>>
    /\ closed' = TRUE
    /\ flagged' = flagged \cup Admitted
    /\ queue' = <<>>
    /\ UNCHANGED <<work, started, toWorker, fromWorker, alive>>

\* Mutant: close() waits until no request is admitted.
TableIsEmpty == Busy = {} /\ Admitted = {}

\* executor.shutdown(wait=True) waits for the threads.
ThreadsAreDone == Busy = {}

\* The process exits.
Leave ==
    /\ alive
    /\ closed
    /\ ThreadsAreDone
    /\ alive' = FALSE
    /\ WorkLost
    /\ UNCHANGED <<toWorker, fromWorker>>

-----------------------------------------------------------------------------
DispatchStep == \E r \in Req : Dispatch(r) \/ Refuse(r) \/ Ignore(r) \/ Cancel(r)

\* An executor thread's own steps, without the tool's return.
ThreadStep(r) ==
    Take(r) \/ Lock(r) \/ Pop(r) \/ SendResult(r) \/ SendFinished(r)
=============================================================================
