------------------------- MODULE MCMcpWorkerDirect --------------------------
(* Small instances of McpWorkerDirect for TLC.                             *)
EXTENDS McpWorkerDirect

CONSTANTS a, b, c, n, k1, k2, k3

\* Every request has an id of its own.
OwnKeys == [r \in Req |-> CASE r = a -> k1 [] r = b -> k2 [] OTHER -> k3]
=============================================================================
