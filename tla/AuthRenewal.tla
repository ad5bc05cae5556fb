---------------------------- MODULE AuthRenewal -----------------------------
(***************************************************************************)
(* One login, shared by the threads of several processes: request_json(),  *)
(* renew_auth(), save_auth(), operator_logout() and the relay lanes of     *)
(* napseer_mcp_server.py, on one credential file of                        *)
(* napseer_credentials.py.                                                 *)
(*                                                                         *)
(* A token stands for the access and refresh token that the service issued *)
(* together; tokens are numbered in the order they are issued.  A refresh  *)
(* token can be used once: the service rotates it.                         *)
(***************************************************************************)
EXTENDS Naturals, FiniteSets

CONSTANTS
    Process,      \* MCP workers, gateways and commands of one user
    Thread,       \* their threads
    ProcessOf,    \* the process of a thread
    Does,         \* what a thread is used for
    MaxTokens,    \* bound: tokens the service issues
    MaxOps,       \* bound: operations a thread begins
    MaxCrashes    \* bound: processes that are killed

Task == {"request", "lane", "save", "login", "logout"}

ASSUME AuthAssumption ==
    /\ ProcessOf \in [Thread -> Process]
    /\ Does \in [Thread -> SUBSET Task]
    /\ MaxTokens \in Nat \ {0}
    /\ MaxOps \in Nat
    /\ MaxCrashes \in Nat

Token == 1 .. MaxTokens

\* No token: nobody is logged in.
None == 0

VARIABLES
    file,         \* the credential file; None: the tombstone of a logout
    memory,       \* TOKEN and REFRESH_TOKEN of a process
    pc,           \* where a thread is
    op,           \* what it does there
    sent,         \* the token in the Authorization header
    asked,        \* request_token, then stale_token; None: not given
    use,          \* what it has read from the file under the locks
    got,          \* what the service has issued to it
    left,         \* operations a thread may still begin
    crashes,      \* processes that were killed so far
    issued,       \* the service: tokens issued so far
    refreshable,  \* the service: refresh tokens that were not used yet
    accepted,     \* the service: access tokens that have not expired
    lost,         \* tokens used at the service, the answer to which was lost
    seen          \* what the file was since a thread has reloaded it

local == <<pc, op, sent, asked, use, got, left>>
service == <<issued, refreshable, accepted>>
history == <<lost, seen>>
vars == <<file, memory, local, crashes, service, history>>

Place == {"idle", "reload", "header", "remember", "wire", "rejected",
          "lock", "cred", "refreshing", "rotated", "revoking", "revoked",
          "saving", "authorize", "store", "publish"}

\* Places inside AUTH_STATE_LOCK (in renew_auth() inside AUTH_RENEW_LOCK too,
\* which is never taken without the other one and tells nothing more).
HoldsState == {"cred", "refreshing", "rotated", "revoking", "revoked", "saving"}

\* Mutant: save_auth() reads the file before it takes the lock.
HoldsCredToRenew == {"refreshing", "rotated", "revoking", "revoked"}

\* Places inside credential_lock().
HoldsCred == {"refreshing", "rotated", "revoking", "revoked", "saving"}

TypeOK ==
    /\ file \in Token \cup {None}
    /\ memory \in [Process -> Token \cup {None}]
    /\ pc \in [Thread -> Place]
    /\ op \in [Thread -> Task \cup {"retry"}]
    /\ sent \in [Thread -> Token \cup {None}]
    /\ asked \in [Thread -> Token \cup {None}]
    /\ use \in [Thread -> Token \cup {None}]
    /\ got \in [Thread -> Token \cup {None}]
    /\ left \in [Thread -> Nat]
    /\ crashes \in 0 .. MaxCrashes
    /\ issued \in Token
    /\ refreshable \subseteq Token
    /\ accepted \subseteq Token
    /\ lost \subseteq Token
    /\ seen \in [Thread -> SUBSET (Token \cup {None})]

\* The user has logged in once; the access token may be good or not.
Init ==
    /\ file = 1
    /\ memory = [p \in Process |-> 1]
    /\ pc = [t \in Thread |-> "idle"]
    /\ op = [t \in Thread |-> "request"]
    /\ sent = [t \in Thread |-> None]
    /\ asked = [t \in Thread |-> None]
    /\ use = [t \in Thread |-> None]
    /\ got = [t \in Thread |-> None]
    /\ left = [t \in Thread |-> MaxOps]
    /\ crashes = 0
    /\ issued = 1
    /\ refreshable = {1}
    /\ accepted = {1}
    /\ lost = {}
    /\ seen = [t \in Thread |-> {}]

-----------------------------------------------------------------------------
Peers(t) == {u \in Thread : ProcessOf[u] = ProcessOf[t]}

\* AUTH_STATE_LOCK of t's process is free.
StateFree(t) == \A u \in Peers(t) : pc[u] \notin HoldsState

\* Mutant: no lock between processes.
NoProcessLock(t) == \A u \in Peers(t) : pc[u] \notin HoldsCred

\* credential_lock() of the file is free.
CredFree(t) == \A u \in Thread : pc[u] \notin HoldsCred

\* write() takes the lock once more, inside of transaction().
MayWrite(t) == \A u \in Thread \ {t} : pc[u] \notin HoldsCred

GoTo(t, place) == pc' = [pc EXCEPT ![t] = place]

\* Its operation is over, with a result or an error: locals are gone.
End(t) ==
    /\ GoTo(t, "idle")
    /\ sent' = [sent EXCEPT ![t] = None]
    /\ asked' = [asked EXCEPT ![t] = None]
    /\ use' = [use EXCEPT ![t] = None]
    /\ got' = [got EXCEPT ![t] = None]
    /\ UNCHANGED <<op, left>>

\* The request is sent again, once, with the token that is current then.
Retry(t) ==
    /\ GoTo(t, "reload")
    /\ op' = [op EXCEPT ![t] = "retry"]
    /\ sent' = [sent EXCEPT ![t] = None]
    /\ asked' = [asked EXCEPT ![t] = None]
    /\ use' = [use EXCEPT ![t] = None]
    /\ got' = [got EXCEPT ![t] = None]
    /\ UNCHANGED left

\* The file becomes token.
WriteFile(token) ==
    /\ file' = token
    /\ seen' = [u \in Thread |-> IF pc[u] = "header" THEN seen[u] \cup {token} ELSE seen[u]]
    /\ UNCHANGED lost

SetMemory(t, token) == memory' = [memory EXCEPT ![ProcessOf[t]] = token]

Begin(t) ==
    /\ pc[t] = "idle"
    /\ left[t] > 0
    /\ left' = [left EXCEPT ![t] = @ - 1]
    /\ \E o \in Does[t] :
          /\ op' = [op EXCEPT ![t] = o]
          /\ GoTo(t, CASE o \in {"request", "lane"} -> "reload"
                       [] o \in {"save", "logout"}  -> "lock"
                       [] o = "login"               -> "authorize")
    /\ UNCHANGED <<file, memory, sent, asked, use, got, crashes, service, history>>

-----------------------------------------------------------------------------
(* A request: request_json(), and the connection of a relay lane.          *)

\* Mutant: the token in memory is taken to be current.
InMemory(t) == memory[ProcessOf[t]]

\* What refresh_public_auth_state() loads.
Loaded(t) == file

Reload(t) ==
    /\ pc[t] = "reload"
    /\ StateFree(t)
    /\ SetMemory(t, Loaded(t))
    /\ seen' = [seen EXCEPT ![t] = {file}]
    /\ GoTo(t, "header")
    /\ UNCHANGED <<file, op, sent, asked, use, got, left, crashes, service, lost>>

\* The header is built from TOKEN, which other threads may change.
Header(t) ==
    /\ pc[t] = "header"
    /\ seen' = [seen EXCEPT ![t] = {}]
    /\ LET token == memory[ProcessOf[t]] IN
          \/ /\ token = None /\ op[t] # "lane"
             /\ End(t)
          \/ /\ token # None \/ op[t] = "lane"
             /\ sent' = [sent EXCEPT ![t] = token]
             /\ GoTo(t, "remember")
             /\ UNCHANGED <<op, asked, use, got, left>>
    /\ UNCHANGED <<file, memory, crashes, service, lost>>

\* request_token = TOKEN: read once more, and used by a first attempt only.
\* A lane does not remember what it sent.
Remember(t) ==
    /\ pc[t] = "remember"
    /\ asked' = [asked EXCEPT ![t] =
                    IF op[t] = "request" THEN memory[ProcessOf[t]] ELSE None]
    /\ GoTo(t, "wire")
    /\ UNCHANGED <<file, memory, op, sent, use, got, left, crashes, service, history>>

\* The service answers.
Answer(t) ==
    /\ pc[t] = "wire"
    /\ \/ sent[t] \in accepted /\ End(t)
       \/ sent[t] \notin accepted /\ op[t] = "retry" /\ End(t)
       \/ /\ sent[t] \notin accepted
          /\ op[t] # "retry"
          /\ GoTo(t, IF op[t] = "request" THEN "rejected" ELSE "lock")
          /\ UNCHANGED <<op, sent, asked, use, got, left>>
    /\ UNCHANGED <<file, memory, crashes, service, history>>

\* It does not, or the request is cancelled.
NoAnswer(t) ==
    /\ pc[t] = "wire"
    /\ End(t)
    /\ UNCHANGED <<file, memory, crashes, service, history>>

\* After a 401: another process may have replaced the token meanwhile.
Recheck(t) ==
    /\ pc[t] = "rejected"
    /\ StateFree(t)
    /\ SetMemory(t, Loaded(t))
    /\ \/ Loaded(t) \notin {None, asked[t]} /\ Retry(t)
       \/ /\ Loaded(t) \in {None, asked[t]}
          /\ GoTo(t, "lock")
          /\ UNCHANGED <<op, sent, asked, use, got, left>>
    /\ UNCHANGED <<file, crashes, service, history>>

-----------------------------------------------------------------------------
(* The locks, and what is done under them.                                 *)

TakeState(t) ==
    /\ pc[t] = "lock"
    /\ StateFree(t)
    /\ GoTo(t, "cred")
    /\ UNCHANGED <<file, memory, op, sent, asked, use, got, left, crashes, service, history>>

\* "Credential update is busy"
CredTimesOut(t) ==
    /\ pc[t] = "cred"
    /\ ~CredFree(t)
    /\ End(t)
    /\ UNCHANGED <<file, memory, crashes, service, history>>

\* Under the locks, with the credential read from the file.
Proceed(t, place) ==
    /\ use' = [use EXCEPT ![t] = Loaded(t)]
    /\ GoTo(t, place)
    /\ UNCHANGED <<op, sent, asked, got, left>>

\* Mutant: what another thread has renewed is renewed again.
NeverRenewed(t) == FALSE

\* Another thread or process has replaced the token that got the 401.
AlreadyRenewed(t) == asked[t] # None /\ Loaded(t) # asked[t]

StartRenewal(t) ==
    /\ pc[t] = "cred"
    /\ op[t] \in {"request", "lane"}
    /\ CredFree(t)
    /\ SetMemory(t, Loaded(t))
    /\ \/ Loaded(t) = None /\ End(t)
       \/ Loaded(t) # None /\ AlreadyRenewed(t) /\ Retry(t)
       \/ Loaded(t) # None /\ ~AlreadyRenewed(t) /\ Proceed(t, "refreshing")
    /\ UNCHANGED <<file, crashes, service, history>>

StartLogout(t) ==
    /\ pc[t] = "cred"
    /\ op[t] = "logout"
    /\ CredFree(t)
    /\ \/ /\ file = None
          /\ SetMemory(t, None)
          /\ End(t)
       \/ /\ file # None
          /\ Proceed(t, "revoking")
          /\ UNCHANGED memory
    /\ UNCHANGED <<file, crashes, service, history>>

StartSave(t) ==
    /\ pc[t] = "cred"
    /\ op[t] = "save"
    /\ CredFree(t)
    /\ Proceed(t, "saving")
    /\ UNCHANGED <<file, memory, crashes, service, history>>

\* save_auth() has changed other fields: the credential stays what it read.
Save(t) ==
    /\ pc[t] = "saving"
    /\ MayWrite(t)
    /\ WriteFile(use[t])
    /\ SetMemory(t, use[t])
    /\ End(t)
    /\ UNCHANGED <<crashes, service>>

\* The service issues the next token to t.
Issue(t) ==
    /\ issued < MaxTokens
    /\ issued' = issued + 1
    /\ got' = [got EXCEPT ![t] = issued + 1]
    /\ accepted' = accepted \cup {issued + 1}

\* The service rotates the refresh token.
Rotate(t) ==
    /\ pc[t] = "refreshing"
    /\ use[t] \in refreshable
    /\ Issue(t)
    /\ refreshable' = (refreshable \ {use[t]}) \cup {issued + 1}
    /\ GoTo(t, "rotated")
    /\ UNCHANGED <<file, memory, op, sent, asked, use, left, crashes, history>>

\* Mutant: a renewal is tried again until it succeeds.
RenewalRetried(t) ==
    /\ pc[t] = "refreshing"
    /\ GoTo(t, "lock")
    /\ UNCHANGED <<file, memory, op, sent, asked, use, got, left, crashes, service, history>>

\* The service refuses, or does not answer: nothing is written.
RenewalFails(t) ==
    /\ pc[t] = "refreshing"
    /\ End(t)
    /\ UNCHANGED <<file, memory, crashes, service, history>>

\* Mutant: an incomplete answer is stored like a token.
StoreUnchecked(t) ==
    /\ pc[t] = "rotated"
    /\ MayWrite(t)
    /\ WriteFile(MaxTokens + 1)
    /\ SetMemory(t, got[t])
    /\ Retry(t)
    /\ UNCHANGED <<crashes, service>>

\* Mutant: the rotated refresh token is not kept.
StoreAccessOnly(t) ==
    /\ pc[t] = "rotated"
    /\ MayWrite(t)
    /\ WriteFile(use[t])
    /\ SetMemory(t, got[t])
    /\ Retry(t)
    /\ UNCHANGED <<crashes, service>>

StoreRenewed(t) ==
    /\ pc[t] = "rotated"
    /\ MayWrite(t)
    /\ WriteFile(got[t])
    /\ SetMemory(t, got[t])
    /\ Retry(t)
    /\ UNCHANGED <<crashes, service>>

\* operator_logout() revokes before it writes.
Revoke(t) ==
    /\ pc[t] = "revoking"
    /\ refreshable' = refreshable \ {use[t]}
    /\ accepted' = accepted \ {use[t]}
    /\ GoTo(t, "revoked")
    /\ UNCHANGED <<file, memory, op, sent, asked, use, got, left, crashes, issued, history>>

\* "Session revocation could not be confirmed": credentials are kept.
RevokeFails(t) ==
    /\ pc[t] = "revoking"
    /\ End(t)
    /\ UNCHANGED <<file, memory, crashes, service, history>>

Tombstone(t) ==
    /\ pc[t] = "revoked"
    /\ WriteFile(None)
    /\ SetMemory(t, None)
    /\ End(t)
    /\ UNCHANGED <<crashes, service>>

\* The service has acted but its answer does not arrive, is malformed, or is
\* dropped because the request was cancelled.
AnswerLost(t) ==
    /\ pc[t] \in {"rotated", "revoked"}
    /\ lost' = lost \cup {use[t]}
    /\ End(t)
    /\ UNCHANGED <<file, memory, crashes, service, seen>>

-----------------------------------------------------------------------------
(* A login: the browser first, and only then the lock of the file.         *)

Authorize(t) ==
    /\ pc[t] = "authorize"
    /\ Issue(t)
    /\ refreshable' = refreshable \cup {issued + 1}
    /\ GoTo(t, "store")
    /\ UNCHANGED <<file, memory, op, sent, asked, use, left, crashes, history>>

LoginFails(t) ==
    /\ pc[t] = "authorize" \/ (pc[t] = "store" /\ ~CredFree(t))
    /\ End(t)
    /\ UNCHANGED <<file, memory, crashes, service, history>>

StoreLogin(t) ==
    /\ pc[t] = "store"
    /\ CredFree(t)
    /\ WriteFile(got[t])
    /\ GoTo(t, "publish")
    /\ UNCHANGED <<memory, op, sent, asked, use, got, left, crashes, service>>

Publish(t) ==
    /\ pc[t] = "publish"
    /\ StateFree(t)
    /\ SetMemory(t, Loaded(t))
    /\ End(t)
    /\ UNCHANGED <<file, crashes, service, history>>

-----------------------------------------------------------------------------
(* The surroundings.                                                       *)

\* An access token expires.
Expire(token) ==
    /\ token \in accepted
    /\ accepted' = accepted \ {token}
    /\ UNCHANGED <<file, memory, local, crashes, issued, refreshable, history>>

\* A process is killed and started again; the system frees its locks.
Crash(p) ==
    LET hit == {t \in Thread : ProcessOf[t] = p}
        reset(f) == [t \in Thread |-> IF t \in hit THEN None ELSE f[t]]
    IN  /\ crashes < MaxCrashes
        /\ crashes' = crashes + 1
        /\ pc' = [t \in Thread |-> IF t \in hit THEN "idle" ELSE pc[t]]
        /\ sent' = reset(sent)
        /\ asked' = reset(asked)
        /\ use' = reset(use)
        /\ got' = reset(got)
        /\ memory' = [memory EXCEPT ![p] = file]
        /\ lost' = lost \cup {use[t] : t \in {u \in hit : pc[u] \in {"rotated", "revoked"}}}
        /\ seen' = [t \in Thread |-> IF t \in hit THEN {} ELSE seen[t]]
        /\ UNCHANGED <<file, op, left, service>>

RequestStep(t) ==
    Reload(t) \/ Header(t) \/ Remember(t) \/ Answer(t) \/ NoAnswer(t) \/ Recheck(t)

LockedStep(t) ==
    \/ TakeState(t) \/ CredTimesOut(t)
    \/ StartRenewal(t) \/ Rotate(t) \/ RenewalFails(t) \/ StoreRenewed(t)
    \/ StartLogout(t) \/ Revoke(t) \/ RevokeFails(t) \/ Tombstone(t)
    \/ StartSave(t) \/ Save(t) \/ AnswerLost(t)

LoginStep(t) == Authorize(t) \/ LoginFails(t) \/ StoreLogin(t) \/ Publish(t)

ThreadStep(t) == RequestStep(t) \/ LockedStep(t) \/ LoginStep(t)

\* Every operation is over, and none is begun any more.
AllDone == (\A t \in Thread : pc[t] = "idle" /\ left[t] = 0) /\ UNCHANGED vars

Next ==
    \/ \E t \in Thread : Begin(t) \/ ThreadStep(t)
    \/ \E token \in Token : Expire(token)
    \/ \E p \in Process : Crash(p)
    \/ AllDone

Spec == Init /\ [][Next]_vars

\* Threads run, and what they wait for at the service answers or times out.
Fairness == \A t \in Thread : WF_vars(ThreadStep(t))

FairSpec == Spec /\ Fairness

-----------------------------------------------------------------------------
(* Properties.                                                             *)

\* While a thread works on the credential it has read under the locks, at the
\* service or on its way back, the file stays what it read.
FileIsPinned == \A t \in Thread : pc[t] \in HoldsCred => file = use[t]

\* "reload the latest token written by another lane before attempting a
\* refresh": a refresh token that the service has already rotated or revoked
\* is not sent again, unless the answer to its first use was lost.
RefreshTokensAreUsedOnce ==
    [][\A t \in Thread : (pc[t] # "refreshing" /\ pc'[t] = "refreshing") =>
          use'[t] \in refreshable \cup lost]_vars

\* test_user_credentials.py, "test_logout_waits_for_inflight_rotation_and_
\* cannot_be_undone": only a login brings a credential back.
LogoutCannotBeUndone ==
    [][(file = None /\ file' # None) =>
          \E t \in Thread : op[t] = "login" /\ pc[t] = "store" /\ file' = got[t]]_vars

\* "Reload the project auth file before building each authenticated request":
\* a request never sends a token that was replaced before it reloaded.
SendsCurrentToken ==
    \A t \in Thread : pc[t] = "header" => memory[ProcessOf[t]] \in seen[t]

\* "If another lane already replaced the token that received a 401, reuse that
\* state instead of rotating credentials a second time."
RotatesOnlyRejected == \A t \in Thread : pc[t] = "refreshing" => use[t] = sent[t]

\* No other thread changes TOKEN, and no relay lane runs in t.
Alone(t) == Peers(t) = {t} /\ "lane" \notin Does[t]

\* The same for a process of one thread, whose TOKEN request_json() reads twice
\* with the same result.
AloneRotatesOnlyRejected ==
    \A t \in Thread : Alone(t) /\ pc[t] = "refreshing" => use[t] = sent[t]

\* README.md: "Network failures preserve credentials".  Whenever nobody works
\* on the file, the login in it can still be renewed or logged out, unless an
\* answer was lost.
GrantIsKept ==
    (\A t \in Thread : pc[t] \notin HoldsCred) => file \in refreshable \cup lost \cup {None}

\* Whatever the service and the other threads do, an operation ends.
OperationsEnd == \A t \in Thread : pc[t] # "idle" ~> pc[t] = "idle"
=============================================================================
