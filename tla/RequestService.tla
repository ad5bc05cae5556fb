-------------------------- MODULE RequestService ----------------------------
(***************************************************************************)
(* What the MCP service promises its client about one request, however     *)
(* many worker processes come and go: a request is asked, its tool runs at *)
(* most once, and it gets at most one reply.                               *)
(*   result     the tool ran (-> its response)                             *)
(*   rejected   the tool has not run and never will (error -32097)         *)
(*   uncertain  the tool may have run, may run or may never run (-32098)   *)
(* A request that was cancelled gets no result any more.                   *)
(***************************************************************************)
EXTENDS Naturals

CONSTANT Req

VARIABLES
    asked,      \* requests the client has sent
    runs,       \* how often a request's tool was started
    reply,      \* the reply a request got, or "none"
    withdrawn   \* requests that are cancelled

serviceVars == <<asked, runs, reply, withdrawn>>

ServiceInit ==
    /\ asked = {}
    /\ runs = [r \in Req |-> 0]
    /\ reply = [r \in Req |-> "none"]
    /\ withdrawn = {}

Ask(r) ==
    /\ r \notin asked
    /\ asked' = asked \cup {r}
    /\ UNCHANGED <<runs, reply, withdrawn>>

\* The tool may start late, even after an uncertain reply, but never again
\* and never after a rejection.
Run(r) ==
    /\ r \in asked
    /\ runs[r] = 0
    /\ reply[r] # "rejected"
    /\ runs' = [runs EXCEPT ![r] = 1]
    /\ UNCHANGED <<asked, reply, withdrawn>>

Reply(r, value) ==
    /\ r \in asked
    /\ reply[r] = "none"
    /\ reply' = [reply EXCEPT ![r] = value]
    /\ UNCHANGED <<asked, runs, withdrawn>>

Result(r) == runs[r] = 1 /\ r \notin withdrawn /\ Reply(r, "result")

Reject(r) == runs[r] = 0 /\ r \notin withdrawn /\ Reply(r, "rejected")

Uncertain(r) == Reply(r, "uncertain")

\* Only a request that is still open can be cancelled: no result is out.
Withdraw(r) ==
    /\ r \in asked \ withdrawn
    /\ reply[r] = "none"
    /\ withdrawn' = withdrawn \cup {r}
    /\ UNCHANGED <<asked, runs, reply>>

ServiceNext ==
    \E r \in Req :
        Ask(r) \/ Run(r) \/ Result(r) \/ Reject(r) \/ Uncertain(r) \/ Withdraw(r)

Service == ServiceInit /\ [][ServiceNext]_serviceVars
=============================================================================
