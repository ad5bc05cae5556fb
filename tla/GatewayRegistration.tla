------------------------- MODULE GatewayRegistration -------------------------
(***************************************************************************)
(* How a gateway gets the credentials of a worker of its own.  A container *)
(* registers with a bootstrap token, waits until somebody accepts it in    *)
(* the cloud, and activates the registration: commands, the MCP tool and   *)
(* the service loop do that with one credential file and one vault.  On a  *)
(* workstation `nap gateway repair` does all of it with the login of the   *)
(* operator and replaces gateway-auth.json, while a gateway that uses the  *)
(* file may be renewing what is in it.                                     *)
(*                                                                         *)
(* A registration and the worker it becomes have the same number, 0 means  *)
(* none.  The service, and who accepts in the cloud, are external.         *)
(***************************************************************************)
EXTENDS Naturals, Sequences, FiniteSets

CONSTANTS
    RegCall,    \* the calls under way, each in a process of its own
    RegJobs,    \* the assignments of jobs to calls that are considered
    MaxUses,    \* how many registrations the bootstrap token is good for
    MaxTrouble  \* bound: processes that end and answers that are lost

RegKinds == {"configure", "preregister", "activate", "run", "repair", "replace", "renew"}

NoCall == "nobody"

ASSUME RegistrationAssumption ==
    /\ \A j \in RegJobs : j \in [RegCall -> RegKinds]
    /\ NoCall \notin RegCall
    /\ MaxUses \in Nat /\ MaxTrouble \in Nat

VARIABLES
    regJob,         \* what each call does
    vaultLocked,    \* there is a vault, and the processes have no passphrase for it
    registrations,  \* the registrations at the service
    uses,           \* how often the bootstrap token has been used
    auth,           \* the credential file and the vault of the folder
    gatewayAuth,    \* gateway-auth.json
    tmp,            \* gateway-auth.json.tmp, 0 when there is none
    authHolder,     \* the call that holds the credential lock
    regAt,          \* where each call stands
    own,            \* the registration it works on
    memory,         \* AUTH of its process
    trouble,
    torn,           \* history: the registrations whose call ended between the file and the vault
    overlapped      \* history: those that replaced the file under a renewal
regVars == <<regJob, vaultLocked, registrations, uses, auth, gatewayAuth, tmp, authHolder, regAt, own, memory,
             trouble, torn, overlapped>>
regServer == <<registrations, uses>>
regFiles == <<auth, gatewayAuth, tmp>>
regHistory == <<trouble, torn, overlapped>>

Number == 0 .. 2 * Cardinality(RegCall) + 1
Enrolled == 2 * Cardinality(RegCall) + 1   \* the worker the signing key belongs to
NoAuth == [reg |-> 0, activation |-> 0, worker |-> 0]

RegTypeOK ==
    /\ regJob \in RegJobs /\ vaultLocked \in BOOLEAN
    /\ registrations \in Seq({"pending", "accepted", "denied", "active"}) /\ uses \in 0..MaxUses
    /\ auth \in [reg : Number, activation : Number, worker : Number]
    /\ gatewayAuth \in [reg : Number, worker : Number] /\ tmp \in Number
    /\ authHolder \in RegCall \cup {NoCall}
    /\ regAt \in [RegCall -> {"start", "register", "lock", "public", "vault", "activate", "save", "mint", "local",
                              "accept", "enable", "write", "replace", "renew", "renewed", "done", "invalid", "failed"}]
    /\ own \in [RegCall -> Number]
    /\ memory \in [RegCall -> [reg : Number, activation : Number, worker : Number]]
    /\ trouble \in 0..MaxTrouble /\ torn \subseteq Number /\ overlapped \subseteq Number

RegInit ==
    /\ regJob \in RegJobs /\ vaultLocked \in BOOLEAN
    /\ uses = 0 /\ auth = NoAuth /\ tmp = 0
    /\ \/ registrations = <<>> /\ gatewayAuth = [reg |-> 0, worker |-> 0]
       \/ registrations = <<"active">> /\ gatewayAuth = [reg |-> 1, worker |-> 1]
    /\ authHolder = NoCall
    /\ regAt = [c \in RegCall |-> "start"] /\ own = [c \in RegCall |-> 0]
    /\ memory = [c \in RegCall |-> NoAuth]
    /\ trouble = 0 /\ torn = {} /\ overlapped = {}

RegGo(c, place) == regAt' = [regAt EXCEPT ![c] = place]
Own(c, r) == own' = [own EXCEPT ![c] = r]
LastRegistration == Len(registrations)

KeepsWorker(c) == regJob[c] \in {"configure", "run"} /\ auth.worker # 0

\* A process begins with what is in the files; who has a worker keeps it, and a
\* repair leaves a file that is there, unless it is told to replace it.
StartCall(c) ==
    /\ regAt[c] = "start"
    /\ memory' = [memory EXCEPT ![c] = IF regJob[c] = "renew" THEN [NoAuth EXCEPT !.worker = gatewayAuth.worker] ELSE auth]
    /\ LET m == memory'[c] IN
       RegGo(c, CASE regJob[c] \in {"configure", "run", "preregister"} -> IF KeepsWorker(c) THEN "done" ELSE "register"
                  [] regJob[c] = "activate" -> IF m.reg = 0 \/ m.activation = 0 THEN "failed" ELSE "activate"
                  [] regJob[c] = "repair" -> IF gatewayAuth.reg # 0 THEN "done" ELSE "mint"
                  [] regJob[c] = "replace" -> "mint"
                  [] regJob[c] = "renew" -> IF m.worker = 0 THEN "failed" ELSE "renew")
    /\ Own(c, memory'[c].reg)
    /\ UNCHANGED <<regJob, vaultLocked, regServer, regFiles, authHolder, regHistory>>

-----------------------------------------------------------------------------
(* gateway_service_preregister(): the registration is sent, then saved.    *)
Preregister(c) ==
    /\ regAt[c] = "register"
    /\ IF uses < MaxUses
         THEN /\ uses' = uses + 1
              /\ registrations' = Append(registrations, "pending")
              /\ Own(c, LastRegistration + 1)
              /\ RegGo(c, "lock")
         ELSE RegGo(c, "invalid") /\ UNCHANGED <<regServer, own>>
    /\ UNCHANGED <<regJob, vaultLocked, regFiles, authHolder, memory, regHistory>>

\* Mutant: no transaction of the credential store around the two writes.
NoTransaction(c) == TRUE

MaySave(c) == authHolder = NoCall

\* save_auth(): the credential lock, the id in the public file ...
LockAuth(c) ==
    /\ regAt[c] = "lock" /\ MaySave(c)
    /\ authHolder' = c
    /\ RegGo(c, "public")
    /\ UNCHANGED <<regJob, vaultLocked, regServer, regFiles, own, memory, regHistory>>

SavePublic(c) ==
    /\ regAt[c] = "public"
    /\ auth' = [auth EXCEPT !.reg = own[c]]
    /\ RegGo(c, "vault")
    /\ UNCHANGED <<regJob, vaultLocked, regServer, gatewayAuth, tmp, authHolder, own, memory, regHistory>>

\* ... and the activation token in the vault, which must be open for it.
SaveVault(c) ==
    /\ regAt[c] = "vault"
    /\ authHolder' = NoCall
    /\ IF vaultLocked
         THEN torn' = torn \cup {own[c]} /\ RegGo(c, "failed") /\ UNCHANGED <<auth, memory>>
         ELSE /\ auth' = [auth EXCEPT !.activation = own[c]]
              /\ memory' = [memory EXCEPT ![c] = auth']
              /\ RegGo(c, IF regJob[c] = "run" THEN "activate" ELSE "done")
              /\ UNCHANGED torn
    /\ UNCHANGED <<regJob, vaultLocked, regServer, gatewayAuth, tmp, own, trouble, overlapped>>

\* Somebody looks at the registrations in the cloud.
Review(r) ==
    /\ registrations[r] = "pending"
    /\ \E verdict \in {"accepted", "denied"} : registrations' = [registrations EXCEPT ![r] = verdict]
    /\ UNCHANGED <<regJob, vaultLocked, uses, regFiles, authHolder, regAt, own, memory, regHistory>>

\* gateway_service_activate(): the loop waits while the registration is pending,
\* or has been activated by another call; everybody else fails then.
Activate(c) ==
    /\ regAt[c] = "activate"
    /\ LET r == memory[c].reg IN
       IF registrations[r] = "accepted" /\ memory[c].activation = r
       THEN /\ registrations' = [registrations EXCEPT ![r] = "active"]
            /\ Own(c, r) /\ RegGo(c, "save")
       ELSE /\ regJob[c] = "activate" \/ registrations[r] = "denied"
            /\ RegGo(c, "failed") /\ UNCHANGED <<registrations, own>>
    /\ UNCHANGED <<regJob, vaultLocked, uses, regFiles, authHolder, memory, regHistory>>

\* The activation timeout of the loop.
ActivationTimesOut(c) ==
    /\ regAt[c] = "activate" /\ regJob[c] = "run"
    /\ RegGo(c, "failed")
    /\ UNCHANGED <<regJob, vaultLocked, regServer, regFiles, authHolder, own, memory, regHistory>>

SaveWorker(c) ==
    /\ regAt[c] = "save" /\ MaySave(c)
    /\ auth' = [auth EXCEPT !.worker = own[c]]
    /\ RegGo(c, "done")
    /\ UNCHANGED <<regJob, vaultLocked, regServer, gatewayAuth, tmp, authHolder, own, memory, regHistory>>

-----------------------------------------------------------------------------
(* gateway_worker_repair(): a bootstrap token for one use, a registration  *)
(* that is accepted and activated at once, and only then the file.         *)
Mint(c) ==
    /\ regAt[c] = "mint"
    /\ RegGo(c, "local")
    /\ UNCHANGED <<regJob, vaultLocked, regServer, regFiles, authHolder, own, memory, regHistory>>

RegisterLocal(c) ==
    /\ regAt[c] = "local"
    /\ registrations' = Append(registrations, "pending")
    /\ Own(c, LastRegistration + 1)
    /\ RegGo(c, "accept")
    /\ UNCHANGED <<regJob, vaultLocked, uses, regFiles, authHolder, memory, regHistory>>

AcceptLocal(c) ==
    /\ regAt[c] = "accept"
    /\ IF registrations[own[c]] = "denied"
         THEN RegGo(c, "failed") /\ UNCHANGED registrations
         ELSE registrations' = [registrations EXCEPT ![own[c]] = "accepted"] /\ RegGo(c, "enable")
    /\ UNCHANGED <<regJob, vaultLocked, uses, regFiles, authHolder, own, memory, regHistory>>

ActivateLocal(c) ==
    /\ regAt[c] = "enable"
    /\ registrations' = [registrations EXCEPT ![own[c]] = "active"]
    /\ RegGo(c, "write")
    /\ UNCHANGED <<regJob, vaultLocked, uses, regFiles, authHolder, own, memory, regHistory>>

\* write_gateway_worker_auth(): every repair uses the same temporary file, and
\* none takes the credential lock.
WriteTemporary(c) ==
    /\ regAt[c] = "write"
    /\ tmp' = own[c]
    /\ RegGo(c, "replace")
    /\ UNCHANGED <<regJob, vaultLocked, regServer, auth, gatewayAuth, authHolder, own, memory, regHistory>>

ReplaceFile(c) ==
    /\ regAt[c] = "replace"
    /\ IF tmp = 0
         THEN RegGo(c, "failed") /\ UNCHANGED <<gatewayAuth, tmp, overlapped>>
         ELSE /\ gatewayAuth' = [reg |-> tmp, worker |-> tmp] /\ tmp' = 0
              /\ overlapped' = IF \E d \in RegCall : regAt[d] = "renewed" THEN overlapped \cup {tmp} ELSE overlapped
              /\ RegGo(c, "done")
    /\ UNCHANGED <<regJob, vaultLocked, regServer, auth, authHolder, own, memory, trouble, torn>>

-----------------------------------------------------------------------------
(* renew_auth() of a gateway that runs with gateway-auth.json.             *)

\* Mutant: the credentials the process began with are renewed.
FromMemory(c) == memory[c].worker

Renewable(c) == gatewayAuth.worker

\* The file is read again under the lock, and what it holds is renewed.
Renew(c) ==
    /\ regAt[c] = "renew" /\ \A d \in RegCall : regAt[d] # "renewed"
    /\ Own(c, Renewable(c))
    /\ RegGo(c, "renewed")
    /\ UNCHANGED <<regJob, vaultLocked, regServer, regFiles, authHolder, memory, regHistory>>

\* The tokens and the worker are merged into what the file holds by now.  When
\* the refresh fails and there is a signing key, its worker is enrolled instead.
SaveRenewed(c) ==
    /\ regAt[c] = "renewed"
    /\ \/ gatewayAuth' = [gatewayAuth EXCEPT !.worker = own[c]] /\ UNCHANGED trouble
       \/ /\ trouble < MaxTrouble
          /\ trouble' = trouble + 1
          /\ gatewayAuth' = [gatewayAuth EXCEPT !.worker = Enrolled]
    /\ RegGo(c, "done")
    /\ UNCHANGED <<regJob, vaultLocked, regServer, auth, tmp, authHolder, own, memory, torn, overlapped>>

-----------------------------------------------------------------------------
\* A process ends, or an answer is lost and its call fails: what the service did
\* stays done, and the locks of the process are free again.
Trouble(c) ==
    /\ trouble < MaxTrouble /\ regAt[c] \notin {"start", "done", "invalid", "failed"}
    /\ trouble' = trouble + 1
    /\ \/ UNCHANGED regServer
       \/ /\ regAt[c] = "register" /\ uses < MaxUses
          /\ uses' = uses + 1 /\ registrations' = Append(registrations, "pending")
       \/ /\ regAt[c] = "activate" /\ registrations[memory[c].reg] = "accepted"
          /\ registrations' = [registrations EXCEPT ![memory[c].reg] = "active"] /\ UNCHANGED uses
       \/ /\ regAt[c] = "enable"
          /\ registrations' = [registrations EXCEPT ![own[c]] = "active"] /\ UNCHANGED uses
    /\ torn' = IF regAt[c] = "vault" THEN torn \cup {own[c]} ELSE torn
    /\ authHolder' = IF authHolder = c THEN NoCall ELSE authHolder
    /\ RegGo(c, "failed")
    /\ UNCHANGED <<regJob, vaultLocked, regFiles, own, memory, overlapped>>

Registering(c) ==
    \/ Preregister(c) \/ LockAuth(c) \/ SavePublic(c) \/ SaveVault(c)
    \/ Activate(c) \/ ActivationTimesOut(c) \/ SaveWorker(c)
Repairing(c) ==
    \/ Mint(c) \/ RegisterLocal(c) \/ AcceptLocal(c) \/ ActivateLocal(c) \/ WriteTemporary(c) \/ ReplaceFile(c)

RegNext ==
    \/ \E c \in RegCall :
           StartCall(c) \/ Registering(c) \/ Repairing(c) \/ Renew(c) \/ SaveRenewed(c) \/ Trouble(c)
    \/ \E r \in DOMAIN registrations : Review(r)

RegSpec == RegInit /\ [][RegNext]_regVars

-----------------------------------------------------------------------------
(* Properties.                                                             *)

\* The registration the file names is the one whose activation token the vault
\* holds, however many calls register at once and whichever of them failed earlier:
\* only the call that is saving it now, or one that ended between the two files
\* with this very registration, separates them.
RegistrationIsWhole ==
    \/ auth.reg = auth.activation
    \/ auth.reg \in torn
    \/ \E c \in RegCall : regAt[c] = "vault"

\* A repair is not undone by a gateway that was started before it: what
\* gateway-auth.json holds is the worker of the registration it names, or the one
\* that a renewal enrolled for the signing key, unless a renewal was under way when
\* the file got this registration.
RepairIsKept == gatewayAuth.worker \in {gatewayAuth.reg, Enrolled} \/ gatewayAuth.reg \in overlapped
==============================================================================
