---------------------------- MODULE MCMcpSystem -----------------------------
(* Small instances of McpSystem for TLC.                                   *)
EXTENDS McpSystem, TLC

CONSTANTS a, b, c, n, k1, k2, k3

\* Every request has an id of its own.
OwnKeys == [r \in Req |-> CASE r = a -> k1 [] r = b -> k2 [] OTHER -> k3]

\* All requests use one id.
OneKey == [r \in Req |-> k1]

\* Requests with ids of their own, exchanged together with their ids.
Swap ==
    {f \in Permutations(Req \cup Key) :
        \A r \in Req :
            /\ f[r] \in Req
            /\ f[r] \in Initialize <=> r \in Initialize
            /\ f[OwnKeys[r]] = OwnKeys[f[r]]}
=============================================================================
