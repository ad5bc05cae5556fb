----------------------------- MODULE McpChannel -----------------------------
(***************************************************************************)
(* What the MCP supervisor and its worker process share: the messages of   *)
(* the client, the JSON-RPC lines they exchange, and the two pipes of the  *)
(* worker process that runs now (at most one runs: the supervisor waits    *)
(* for a worker to exit before it starts another).                         *)
(*                                                                         *)
(* A request r is one line of the client; KeyOf[r] is its JSON-RPC id as   *)
(* request_key() renders it.  Two requests may have one key: nothing stops *)
(* a client from using an id again.  A line in a pipe carries, besides     *)
(* what the code sees of it (its type and its key), the request it stems   *)
(* from, so that properties can tell two requests with one key apart.      *)
(***************************************************************************)
EXTENDS Naturals, Sequences, FiniteSets

CONSTANTS
    Req,          \* the lines the client may send, each at most once
    Key,          \* the rendered JSON-RPC ids
    KeyOf,        \* KeyOf[r]: the id of request r
    Notification, \* the lines without an id
    Initialize,   \* the requests whose method is "initialize"
    None,         \* no request, no line
    MaxInFlight,  \* MAX_IN_FLIGHT_REQUESTS of both processes
    PipeSize      \* lines a pipe holds before its writer blocks

ASSUME ChannelAssumption ==
    /\ KeyOf \in [Req -> Key]
    /\ Notification \subseteq Req
    /\ Initialize \subseteq Req \ Notification
    /\ None \notin Req
    /\ MaxInFlight \in Nat \ {0}
    /\ PipeSize \in Nat \ {0}

VARIABLES
    toWorker,     \* lines in the worker's stdin pipe
    fromWorker,   \* lines in the worker's stdout pipe
    alive         \* process.poll() is None for the latest worker process

channelVars == <<toWorker, fromWorker, alive>>

RequestLine(r) == [type |-> "request", req |-> r]
CancelLine(r)  == [type |-> "cancel", req |-> r]

\* A result (the handler's answer), a refusal (duplicate id, too many
\* requests), the private acknowledgement that cancelled work is cleaned up,
\* and a line that is no JSON object.
ResultLine(r)   == [type |-> "result", req |-> r]
RefusalLine(r)  == [type |-> "refusal", req |-> r]
FinishedLine(r) == [type |-> "finished", req |-> r]
GarbageLine     == [type |-> "garbage", req |-> None]

LinesToWorker == [type : {"request", "cancel"}, req : Req]

LinesFromWorker ==
    [type : {"result", "refusal", "finished"}, req : Req] \cup {GarbageLine}

ChannelTypeOK ==
    /\ toWorker \in Seq(LinesToWorker)
    /\ fromWorker \in Seq(LinesFromWorker)
    /\ alive \in BOOLEAN
=============================================================================
