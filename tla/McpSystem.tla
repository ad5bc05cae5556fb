----------------------------- MODULE McpSystem ------------------------------
(***************************************************************************)
(* The supervisor, its worker process and their surroundings: the client,  *)
(* the source on disk, and a worker that may die, hang or print something  *)
(* that is not JSON.  Whenever the process is dead its work is gone; what  *)
(* it had written stays readable.                                          *)
(***************************************************************************)
EXTENDS McpSupervisor, McpWorker

CONSTANT MaxFaults  \* bound: crashes and garbage lines

ASSUME SystemAssumption == MaxFaults \in Nat

VARIABLES
    code,           \* the source the running process has read (0: none yet)
    faults          \* faults so far

vars == <<channelVars, supVars, workerVars, code, faults>>

TypeOK ==
    /\ ChannelTypeOK
    /\ SupTypeOK
    /\ WorkerTypeOK
    /\ code \in Version \cup {0}
    /\ faults \in 0 .. MaxFaults

Init ==
    /\ toWorker = <<>>
    /\ fromWorker = <<>>
    /\ alive = FALSE
    /\ SupInit
    /\ WorkerInit
    /\ code = 0
    /\ faults = 0

\* A step of the supervisor leaves the worker alone, or takes its work with it
\* when it ends the process.
Aftermath ==
    /\ IF alive /\ ~alive'
       THEN WorkLost /\ code' = 0
       ELSE UNCHANGED <<workerVars, code>>
    /\ UNCHANGED faults

\* Timers and readers are daemon threads: none outlives the main thread.
Running == pc[Main] # "exit"

MainRuns == MainStep /\ Aftermath
WaiterRuns(r) == Running /\ WaiterStep(r) /\ Aftermath
TimerRuns(r) == Running /\ TimerStep(r) /\ Aftermath
ReaderRuns(g) == Running /\ ReaderStep(g) /\ Aftermath
ClientActs == ClientStep /\ Aftermath

SupervisorRuns ==
    \/ MainRuns
    \/ \E r \in Req : WaiterRuns(r) \/ TimerRuns(r)
    \/ \E g \in Generation : ReaderRuns(g)
    \/ ClientActs

\* The interpreter reads the worker's source, some time after Popen returned;
\* without a source the process dies.
Boot ==
    /\ alive
    /\ code = 0
    /\ IF source \in Missing
       THEN alive' = FALSE /\ toWorker' = <<>> /\ UNCHANGED <<fromWorker, code>>
       ELSE code' = source /\ UNCHANGED channelVars
    /\ UNCHANGED <<supVars, workerVars, faults>>

WorkerRuns ==
    /\ code # 0
    /\ \/ DispatchStep
       \/ \E r \in Req : ThreadStep(r) \/ Return(r)
    /\ UNCHANGED <<supVars, code, faults>>

Crash ==
    /\ alive
    /\ faults < MaxFaults
    /\ faults' = faults + 1
    /\ alive' = FALSE
    /\ toWorker' = <<>>
    /\ WorkLost
    /\ code' = 0
    /\ UNCHANGED <<supVars, fromWorker>>

\* A print() in a library: a line that is no JSON object.
Babble ==
    /\ code # 0
    /\ CanSend
    /\ faults < MaxFaults
    /\ faults' = faults + 1
    /\ SendLine(GarbageLine)
    /\ UNCHANGED <<supVars, workerVars, code, toWorker, alive>>

Surroundings ==
    \/ ReplaceSource /\ UNCHANGED <<workerVars, code, faults>>
    \/ Boot
    \/ Crash
    \/ Babble

\* The supervisor has exited: nothing is left to happen.
Exited == pc[Main] = "exit" /\ UNCHANGED vars

Next == SupervisorRuns \/ WorkerRuns \/ Surroundings \/ Exited

Spec == Init /\ [][Next]_vars

-----------------------------------------------------------------------------
(* Safety.                                                                 *)

\* A client gets at most one response for a request, whatever a timeout, a
\* cancellation, a dying worker and a late answer do at the same time.
AtMostOneAnswer == \A r \in Req : Len(answers[r]) <= 1

\* "responses are correlated by JSON-RPC request id": a response never
\* reaches another request than the one it was written for, not even one
\* that uses the same id in a later generation.
AnswersCorrelated ==
    \A r \in Req : \A i \in DOMAIN answers[r] : answers[r][i] # "wrong"

\* README: "-32097 means a request was rejected before execution": its tool
\* has not been started and never will be.
RejectedNeverStarts ==
    \A r \in Req : answers[r] = <<"rejected">> => started[r] = 0

\* "never replays it automatically": a tool is started at most once, over all
\* the worker processes there have been.
StartedAtMostOnce == \A r \in Req : started[r] <= 1

\* A response that is passed on comes from a tool that ran: the worker's own
\* admission control never turns down what the supervisor admitted.
ResultMeansStarted ==
    \A r \in Req : answers[r] = <<"result">> => started[r] > 0

\* A request that cancel() marked gets no result any more, however late.
CancelledGetsNoResult ==
    \A r \in Req : cancelled[r] => answers[r] # <<"result">>

\* Every request the worker has in its pipe or still works on, cancelled or
\* not, is counted as unfinished by the supervisor, under its own generation.
WorkIsAccounted ==
    alive => \A r \in Req \ Notification :
                 \/ r \in Admitted
                 \/ \E i \in DOMAIN toWorker : toWorker[i] = RequestLine(r)
                 => Registered(r) /\ gen[r] = generation

\* When the identity the supervisor holds is the one on disk, the process
\* runs that source and not an older one.
CurrentIdentityCurrentCode ==
    (process # 0 /\ alive /\ code # 0 /\ loaded = source) => code = source

\* "New source loads only after unfinished work has drained": ensure_current
\* ends a running worker for a changed source only when it has no work.
ReloadWaitsForWork ==
    [][(/\ pc[Main] = "ensure" /\ pc'[Main] = "stopping"
        /\ alive /\ source \notin Missing) => Admitted = {}]_vars

\* A cancel line flags the request it was written for.
CancelHitsItsRequest ==
    [][\A r \in flagged' \ flagged : toWorker # <<>> /\ Head(toWorker) = CancelLine(r)]_vars

-----------------------------------------------------------------------------
(* Liveness: the threads of the supervisor run, its timeouts expire; the    *)
(* worker may hang at any point.                                           *)

Fairness ==
    /\ WF_vars(MainRuns)
    /\ \A r \in Req : WF_vars(WaiterRuns(r)) /\ WF_vars(TimerRuns(r))
    /\ \A g \in Generation : WF_vars(ReaderRuns(g))

FairSpec == Spec /\ Fairness

\* A request that was read is answered, unless the client withdraws it while
\* its waiter still waits, or leaves.  A waiter whose time is over cancels the
\* request too, and then owes the client the -32098, also when the client's own
\* cancellation, a late response or the end of the worker comes in between.
EveryRequestSettles ==
    \A r \in Req \ Notification :
        pc[Main] = "ensure" /\ current = r ~>
            \/ answers[r] # <<>>
            \/ cancelled[r] /\ pc[Waiter(r)] = "wait"
            \/ closing

\* An admitted request does not keep its slot for ever, even when its tool
\* never returns and ignores the cancellation.
SlotsAreFreed == \A r \in Req : Registered(r) ~> ~Registered(r)

\* Once the client has closed its end, the supervisor exits.
ShutdownEnds == closing ~> pc[Main] = "exit"

-----------------------------------------------------------------------------
(* The system implements what RequestService promises for the requests with *)
(* an id: asked once the supervisor has read them, replied once a response  *)
(* is emitted.                                                              *)

Requests == Req \ Notification

ReplyOf(r) ==
    IF answers[r] = <<>> THEN "none" ELSE answers[r][Len(answers[r])]

Promise == INSTANCE RequestService WITH
    Req       <- Requests,
    asked     <- Requests \ unread,
    runs      <- [r \in Requests |-> started[r]],
    reply     <- [r \in Requests |-> ReplyOf(r)],
    withdrawn <- {r \in Requests : cancelled[r]}

\* Every step of the system is a step of the service or invisible to it.
ImplementsService == Promise!Service
=============================================================================
