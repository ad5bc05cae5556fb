---------------------------- MODULE GatewayRelay -----------------------------
(***************************************************************************)
(* The lanes of gateway_relay_loop(), which listen for requests to connect *)
(* a browser, and the threads that they start for relay sessions:          *)
(* handle_gateway_relay_session() from the request through the SPAKE2      *)
(* handshake to its finally clause.  Delays and the streak of closed       *)
(* connections are left out: a lane that waits goes on at any time.  The   *)
(* frames of an open session, and the rotation gate that looks at each of  *)
(* them alone, are left out too; every thread that is started runs.        *)
(***************************************************************************)
EXTENDS Naturals

CONSTANTS
    Lanes,        \* gateway_listener_max_lanes()
    MinLanes,     \* gateway_listener_min_lanes()
    Sid,          \* session ids the relay asks for
    MaxRequests   \* bound: requests for one session id

ASSUME RelaySidAssumption == "none" \notin Sid

ASSUME RelayAssumption == MinLanes \in 1 .. 3 /\ Lanes \in MinLanes .. 5 /\ MaxRequests \in Nat

VARIABLES
    lane,         \* where a lane is in its loop
    claim,        \* the session id a lane has looked up
    unstable,     \* time.time() < GATEWAY_LISTENER_UNSTABLE_UNTIL
    active,       \* GATEWAY_LISTENER_ACTIVE_LANES
    enabled,      \* gateway_remote_should_run()
    registry,     \* GATEWAY_RELAY_THREADS
    thread,       \* where the thread is that a lane started for a session
    requests,     \* requests for a session so far
    raced         \* history: sessions that two lanes had looked up at one time

laneVars == <<lane, claim, unstable, active, enabled>>
sessionVars == <<registry, thread, requests, raced>>
relayVars == <<laneVars, sessionVars>>

Lane == 1 .. Lanes
Closed == "none"
Threads == {"none", "secret", "dial", "accept", "hello", "confirm", "open", "reject", "discard"}

RelayTypeOK ==
    /\ lane \in [Lane -> {"wait", "connect", "renew", "listen", "claimed", "left"}]
    /\ claim \in [Lane -> Sid \cup {Closed}]
    /\ active \subseteq Lane /\ {unstable, enabled} \subseteq BOOLEAN
    /\ registry \subseteq Sid /\ raced \subseteq Sid
    /\ thread \in [Sid \X Lane -> Threads]
    /\ requests \in [Sid -> 0 .. MaxRequests]

RelayInit ==
    /\ lane = [l \in Lane |-> "wait"]
    /\ claim = [l \in Lane |-> Closed]
    /\ unstable = FALSE /\ active = {} /\ enabled \in BOOLEAN
    /\ registry = {}
    /\ thread = [t \in Sid \X Lane |-> "none"]
    /\ requests = [s \in Sid |-> 0]
    /\ raced = {}

-----------------------------------------------------------------------------
(* gateway_relay_loop().                                                   *)

\* gateway_listener_target_lanes().
Target == IF unstable THEN Lanes ELSE MinLanes

LaneGoes(l, place) == lane' = [lane EXCEPT ![l] = place]

Dial(l) ==
    /\ lane[l] = "wait" /\ enabled /\ l <= Target
    /\ LaneGoes(l, "connect")
    /\ UNCHANGED <<claim, unstable, active, enabled, sessionVars>>

Connected(l) ==
    /\ lane[l] \in {"connect", "renew"}
    /\ LaneGoes(l, "listen") /\ active' = active \cup {l}
    /\ UNCHANGED <<claim, unstable, enabled, sessionVars>>

\* 401: renew_auth() and a second attempt, once.
Rejected(l) ==
    /\ lane[l] = "connect" /\ LaneGoes(l, "renew")
    /\ UNCHANGED <<claim, unstable, active, enabled, sessionVars>>

\* except Exception: a connection that fails or breaks, a message that is no JSON.
LaneFails(l) ==
    /\ lane[l] \in {"connect", "renew", "listen"}
    /\ LaneGoes(l, "wait") /\ active' = active \ {l}
    /\ unstable' = TRUE
    /\ UNCHANGED <<claim, enabled, sessionVars>>

\* The relay closes the connection: unstable, when it was short or the second in
\* a row.  Remote access was disabled: the loop that listens ends.
ClosedByRelay(l) ==
    /\ lane[l] = "listen"
    /\ LaneGoes(l, "wait") /\ active' = active \ {l}
    /\ unstable' \in {unstable, TRUE}
    /\ UNCHANGED <<claim, enabled, sessionVars>>

\* Mutant: a lane keeps a list of its own.
TakenHere(l, s) == thread[<<s, l>>] # "none"

Taken(l, s) == s \in registry

\* connect.request: a session id that has a thread is ignored ...  (A lane asks
\* for a session a second time only when its thread of the first is over.)
Request(l, s) ==
    /\ lane[l] = "listen" /\ requests[s] < MaxRequests /\ thread[<<s, l>>] = "none"
    /\ requests' = [requests EXCEPT ![s] = @ + 1]
    /\ \/ Taken(l, s) /\ UNCHANGED <<lane, claim, raced>>
       \/ /\ ~Taken(l, s)
          /\ LaneGoes(l, "claimed") /\ claim' = [claim EXCEPT ![l] = s]
          /\ raced' = IF \E k \in Lane : claim[k] = s THEN raced \cup {s} ELSE raced
    /\ UNCHANGED <<unstable, active, enabled, registry, thread>>

\* ... and one that had none is added, without another look.
StartThread(l) ==
    /\ lane[l] = "claimed"
    /\ registry' = registry \cup {claim[l]}
    /\ thread' = [thread EXCEPT ![<<claim[l], l>>] = "secret"]
    /\ claim' = [claim EXCEPT ![l] = Closed] /\ LaneGoes(l, "listen")
    /\ UNCHANGED <<unstable, active, enabled, requests, raced>>

-----------------------------------------------------------------------------
(* handle_gateway_relay_session().                                         *)

Moves(t, from, to) == thread[t] = from /\ thread' = [thread EXCEPT ![t] = to]

Rest == <<laneVars, registry, requests, raced>>

\* The secret of the relay is read, the socket opened, connect.accept sent, and
\* the two messages of SPAKE2 are checked; then frames are handled.
Advance(t) ==
    /\ \/ Moves(t, "secret", "dial")
       \/ Moves(t, "dial", "accept")
       \/ Moves(t, "accept", "hello")
       \/ Moves(t, "hello", "confirm")
       \/ Moves(t, "confirm", "open")
    /\ UNCHANGED Rest

\* connect.reject, also after connect.accept.
Fail(t) ==
    /\ \E from \in {"secret", "dial", "accept", "hello", "confirm", "open"} : Moves(t, from, "reject")
    /\ UNCHANGED Rest

Reject(t) == Moves(t, "reject", "discard") /\ UNCHANGED Rest

\* The relay closes the socket, or a send fails.
Hangup(t) == Moves(t, "open", "discard") /\ UNCHANGED Rest

\* finally: the id leaves GATEWAY_RELAY_THREADS, and the thread ends.
Discard(t) ==
    /\ Moves(t, "discard", "none")
    /\ registry' = registry \ {t[1]}
    /\ UNCHANGED <<laneVars, requests, raced>>

-----------------------------------------------------------------------------
\* Remote access is enabled or disabled, the window of instability ends.
Settings ==
    /\ \/ enabled' = ~enabled /\ UNCHANGED unstable
       \/ unstable /\ unstable' = FALSE /\ UNCHANGED enabled
    /\ UNCHANGED <<lane, claim, active, sessionVars>>

RelayNext ==
    \/ \E l \in Lane :
          \/ Dial(l) \/ Connected(l) \/ Rejected(l) \/ LaneFails(l)
          \/ ClosedByRelay(l) \/ StartThread(l)
          \/ \E s \in Sid : Request(l, s)
    \/ \E t \in Sid \X Lane :
          Advance(t) \/ Fail(t) \/ Reject(t) \/ Hangup(t) \/ Discard(t)
    \/ Settings

RelaySpec == RelayInit /\ [][RelayNext]_relayVars

-----------------------------------------------------------------------------
(* Properties.  Two lanes may look a session up before either adds it: the *)
(* test of the list and the addition to it are not one step.  Both start a *)
(* thread then, and the first that ends takes the other off the list.      *)

Running(s) == \E l \in Lane : thread[<<s, l>>] # "none"

\* However a session ended, it leaves no entry that would refuse its id for ever,
\* not even after two lanes started it at once; and no session gets a second
\* thread, or runs unlisted, in any other way than that.
ListedWhileRunning ==
    \A s \in Sid :
        /\ s \in registry => Running(s)
        /\ s \notin raced =>
              /\ Running(s) => s \in registry
              /\ \A j, k \in Lane : thread[<<s, j>>] # "none" /\ thread[<<s, k>>] # "none" => j = k
=============================================================================
