-------------------------- MODULE McpWorkerDirect ---------------------------
(***************************************************************************)
(* A worker on its own: a client writes to its stdin, without a supervisor *)
(* in between that admits, renames or counts anything.  Here the worker's  *)
(* own admission control, its mutation lock and its end of input are put   *)
(* to use (main() and McpRequestRuntime of napseer_mcp_server.py).         *)
(***************************************************************************)
EXTENDS McpWorker

VARIABLES
    unsent,     \* requests the client has not written
    ended,      \* the client has closed the worker's stdin
    got         \* the lines the client has read, per request

vars == <<channelVars, workerVars, unsent, ended, got>>

TypeOK ==
    /\ ChannelTypeOK
    /\ WorkerTypeOK
    /\ unsent \subseteq Req
    /\ ended \in BOOLEAN
    /\ got \in [Req -> Seq(LinesFromWorker)]

Init ==
    /\ toWorker = <<>>
    /\ fromWorker = <<>>
    /\ alive = TRUE
    /\ WorkerInit
    /\ unsent = Req
    /\ ended = FALSE
    /\ got = [r \in Req |-> <<>>]

ClientWrites(line) ==
    /\ ~ended
    /\ alive
    /\ Len(toWorker) < PipeSize
    /\ toWorker' = Append(toWorker, line)
    /\ UNCHANGED <<workerVars, fromWorker, alive, ended, got>>

ClientSends(r) ==
    /\ r \in unsent
    /\ unsent' = unsent \ {r}
    /\ ClientWrites(RequestLine(r))

\* A cancellation may come at any time, even twice, or for an id that is not
\* in use.
ClientCancels(r) ==
    /\ ClientWrites(CancelLine(r))
    /\ UNCHANGED unsent

ClientEnds ==
    /\ ~ended
    /\ ended' = TRUE
    /\ UNCHANGED <<channelVars, workerVars, unsent, got>>

ClientReads ==
    /\ fromWorker # <<>>
    /\ got' = [got EXCEPT ![Head(fromWorker).req] = Append(@, Head(fromWorker))]
    /\ fromWorker' = Tail(fromWorker)
    /\ UNCHANGED <<workerVars, toWorker, alive, unsent, ended>>

Client ==
    \/ \E r \in Req : ClientSends(r) \/ ClientCancels(r)
    \/ ClientEnds

\* A step of the worker; the client does nothing.
Alone(step) == step /\ UNCHANGED <<unsent, ended, got>>

WorkerRuns ==
    \/ Alone(DispatchStep)
    \/ \E r \in Req : Alone(ThreadStep(r)) \/ Alone(Return(r))
    \/ Alone(ended /\ Close)
    \/ Alone(Leave)

Gone == ~alive /\ fromWorker = <<>> /\ UNCHANGED vars

Next == Client \/ ClientReads \/ WorkerRuns \/ Gone

Spec == Init /\ [][Next]_vars

\* The worker's threads run and its client reads; a tool returns in the end
\* (every call it makes has a deadline of its own).
Fairness ==
    /\ WF_vars(ClientReads)
    /\ WF_vars(Alone(DispatchStep))
    /\ \A r \in Req : WF_vars(Alone(ThreadStep(r))) /\ WF_vars(Alone(Return(r)))
    /\ WF_vars(Alone(ended /\ Close)) /\ WF_vars(Alone(Leave))

FairSpec == Spec /\ Fairness

-----------------------------------------------------------------------------
Lines(r, types) ==
    {i \in DOMAIN fromWorker : fromWorker[i].req = r /\ fromWorker[i].type \in types}

\* A request gets at most one line back, wherever its cancellation, its
\* refusal and its response meet.
AtMostOneLine ==
    \A r \in Req :
        Cardinality(Lines(r, {"result", "refusal", "finished"})) + Len(got[r]) <= 1

\* "the request was not started": a refused request never reaches its tool.
RefusedNeverStarts ==
    \A r \in Req :
        Lines(r, {"refusal"}) # {} \/ got[r] = <<RefusalLine(r)>> => started[r] = 0

\* "allowing a cancel/submit loop to defeat the admission limit": whatever is
\* cancelled, the executor's queue and threads never hold more tools than
\* requests are admitted.
QueueIsBounded ==
    Len(queue) + Cardinality({r \in Req : work[r] \in {"locking", "handling"}})
        <= MaxInFlight

\* Two mutations never run at the same time, and none starts after its
\* cancellation was read, however long it had waited for the lock.
MutationsAreOrdered ==
    [][\A r \in Mutation :
          started'[r] # started[r] =>
              r \notin flagged /\ \A q \in Mutation \ {r} : work[q] # "handling"]_vars

\* Once a request is flagged, the client never sees a result of it.
CancelledIsSilent ==
    \A r \in Req : [](r \in flagged => [](work[r] # "result"))

\* A request the worker has admitted is settled: one line, or silence when it
\* was cancelled; none keeps its place for ever.
AdmittedIsSettled == \A r \in Req : r \in Admitted ~> r \notin Admitted

\* After the end of its input the worker exits.
EndOfInputEnds == ended ~> ~alive
=============================================================================
