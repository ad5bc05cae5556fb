---------------------------- MODULE GatewayVault -----------------------------
(***************************************************************************)
(* The local gateway storage of a folder: vault.json, which holds secrets  *)
(* under a key derived from a secret and from a salt in the file,          *)
(* vault.local-key, and what gateway-relay-state.json says of remote       *)
(* access.  The gateway, MCP workers and commands keep the derived key and *)
(* the secrets in memory and write the files in place; GATEWAY_LOCK is a   *)
(* lock of one process only.  A secret is the passphrase, or a machine-    *)
(* local key, named by the process that made it; a key is the pair of the  *)
(* secret and the salt it derives from.  A reader of a half-written vault  *)
(* fails, so the vault is written at once; one of a half-written relay     *)
(* state takes it for empty, so that is written in two steps.              *)
(***************************************************************************)
EXTENDS Naturals

CONSTANTS
    Process,      \* processes that use the folder
    MaxSalts,     \* bound: how often a vault is written with a new salt
    MaxUpdates,   \* bound: commands that write the relay state
    MaxKills      \* bound: processes that are killed

ASSUME VaultAssumption ==
    MaxSalts \in Nat /\ MaxUpdates \in Nat /\ MaxKills \in Nat /\ {"none", "passphrase"} \cap Process = {}

VARIABLES
    vault,        \* vault.json: none, torn, or a salt and the key it is encrypted with
    localKey,     \* vault.local-key, or "none"
    relayState,   \* remote_enabled of the relay state; "none" also in an empty or torn file
    key,          \* VAULT_KEY of a process; GATEWAY_UNLOCKED when there is one
    op,           \* the operation of a process
    do,           \* its next step
    got,          \* what that step needs: a local key or the relay state
    envelope,     \* the salt of the vault that it writes back
    value,        \* what it makes of remote_enabled
    salts, updates, kills,
    stale,        \* history: others wrote a new salt since a process derived its key
    behind,       \* history: others wrote the relay state since a process read it
    crossed,      \* history: a process wrote the vault back with a stale key
    twoKeys,      \* history: a local key was written over another
    disabled,     \* history: remote access was disabled, and not enabled since
    lost          \* history: an update that was behind was written, or one was cut short

vaultFiles == <<vault, localKey, relayState>>
vaultSteps == <<op, do, got, envelope, value>>
vaultHistory == <<stale, behind, crossed, twoKeys, disabled, lost>>
vaultBounds == <<salts, updates, kills>>
vaultVars == <<vaultFiles, key, vaultSteps, vaultBounds, vaultHistory>>

LocalKey == Process \cup {"none"}
Key == [secret : Process \cup {"passphrase"}, salt : 1 .. MaxSalts + 1]
NoKey == [secret |-> "none", salt |-> 0]
NoVault == [salt |-> 0, key |-> NoKey]
Torn == [salt |-> 0, key |-> [secret |-> "passphrase", salt |-> 0]]
Derived(secret, salt) == [secret |-> secret, salt |-> salt]

\* gateway_open_local() on its own, before a command that needs the vault, and
\* within gateway_setup().
Opening == {"open", "reopen", "setup"}
Op == Opening \cup {"rotate", "configure", "target", "update", "set"}
Do == {"idle", "key", "create", "write", "reread", "missing", "state", "truncate", "put", "envelope", "back"}

VaultTypeOK ==
    /\ vault \in [salt : 1 .. MaxSalts + 1, key : Key] \cup {NoVault, Torn}
    /\ localKey \in LocalKey
    /\ relayState \in {"none", "on", "off"}
    /\ key \in [Process -> Key \cup {NoKey}]
    /\ op \in [Process -> Op] /\ do \in [Process -> Do]
    /\ value \in [Process -> {"on", "off", "keep"}]
    /\ salts \in 0 .. MaxSalts + 1 /\ updates \in 0 .. MaxUpdates /\ kills \in 0 .. MaxKills
    /\ stale \in [Process -> BOOLEAN] /\ behind \in [Process -> BOOLEAN]
    /\ {crossed, twoKeys, disabled, lost} \subseteq BOOLEAN

\* No vault, a vault of the machine-local key, or one of an earlier version
\* that is still encrypted with the passphrase.
VaultInit ==
    /\ \/ vault = NoVault /\ localKey = "none" /\ relayState = "none" /\ salts = 0
       \/ /\ \/ localKey \in Process /\ vault = [salt |-> 1, key |-> Derived(localKey, 1)]
             \/ localKey = "none" /\ vault = [salt |-> 1, key |-> Derived("passphrase", 1)]
          /\ relayState \in {"on", "off"} /\ salts = 1
    /\ key = [p \in Process |-> NoKey]
    /\ op = [p \in Process |-> "open"] /\ do = [p \in Process |-> "idle"]
    /\ got = [p \in Process |-> "none"] /\ envelope = [p \in Process |-> 0]
    /\ value = [p \in Process |-> "keep"]
    /\ updates = 0 /\ kills = 0
    /\ stale = [p \in Process |-> FALSE] /\ behind = [p \in Process |-> FALSE]
    /\ crossed = FALSE /\ twoKeys = FALSE /\ disabled = (relayState = "off") /\ lost = FALSE

Goto(p, next) == do' = [do EXCEPT ![p] = next]
Undertake(p, what, next) == do[p] = "idle" /\ op' = [op EXCEPT ![p] = what] /\ Goto(p, next)
Gets(p, x) == got' = [got EXCEPT ![p] = x]
Finish(p) ==
    /\ Goto(p, "idle") /\ Gets(p, "none")
    /\ op' = [op EXCEPT ![p] = "open"]
    /\ envelope' = [envelope EXCEPT ![p] = 0]
    /\ value' = [value EXCEPT ![p] = "keep"]

\* read_vault(): the secret opens the vault when it derives the key from the salt.
Readable(secret) == vault.salt > 0 /\ vault.key = Derived(secret, vault.salt)

-----------------------------------------------------------------------------
(* gateway_open_local(), gateway_setup(), gateway_rotate_passphrase().     *)

\* The vault opens with the machine-local key.
OpenLocal(p) ==
    /\ \E what \in {"open", "reopen"} : Undertake(p, what, "missing")
    /\ Readable(localKey)
    /\ key' = [key EXCEPT ![p] = vault.key]
    /\ stale' = [stale EXCEPT ![p] = FALSE]
    /\ UNCHANGED <<vaultFiles, got, envelope, value, vaultBounds, behind, crossed, twoKeys, disabled, lost>>

\* A vault of the passphrase is written again with the machine-local key.
Migrate(p) ==
    /\ \E what \in {"open", "reopen"} : Undertake(p, what, "key")
    /\ ~Readable(localKey) /\ Readable("passphrase")
    /\ UNCHANGED <<vaultFiles, key, got, envelope, value, vaultBounds, vaultHistory>>

\* gateway_setup() of a folder without a vault, or with overwrite.
Setup(p, overwrite) ==
    /\ Undertake(p, "setup", "key") /\ (vault = NoVault \/ overwrite)
    /\ UNCHANGED <<vaultFiles, key, got, envelope, value, vaultBounds, vaultHistory>>

\* require_unlocked(), and a new salt with the new passphrase of the relay.
Rotate(p) ==
    /\ Undertake(p, "rotate", "key") /\ key[p] # NoKey
    /\ UNCHANGED <<vaultFiles, key, got, envelope, value, vaultBounds, vaultHistory>>

\* read_local_vault_key(create=True): the file is looked for ...
FindKey(p) ==
    /\ do[p] = "key"
    /\ IF localKey # "none" THEN Gets(p, localKey) /\ Goto(p, "write")
                            ELSE UNCHANGED got /\ Goto(p, "create")
    /\ UNCHANGED <<vaultFiles, key, op, envelope, value, vaultBounds, vaultHistory>>

\* ... and made when it was not there.
CreateKey(p) ==
    /\ do[p] = "create" /\ Goto(p, "write")
    /\ localKey' = p /\ Gets(p, p)
    /\ twoKeys' = (twoKeys \/ localKey # "none")
    /\ UNCHANGED <<vault, relayState, key, op, envelope, value, vaultBounds, stale, behind, crossed, disabled, lost>>

\* write_vault(): a new salt.
WriteVault(p) ==
    /\ do[p] = "write" /\ Goto(p, "reread") /\ salts <= MaxSalts
    /\ salts' = salts + 1
    /\ vault' = [salt |-> salts', key |-> Derived(got[p], salts')]
    /\ stale' = [q \in Process |-> TRUE]
    /\ UNCHANGED <<localKey, relayState, key, op, got, envelope, value, updates, kills,
                   behind, crossed, twoKeys, disabled, lost>>

\* Mutant: the key of the last time stays in memory.
KeyOfBefore(p) == IF key[p] = NoKey THEN vault.key ELSE key[p]

NewKey(p) == vault.key

\* read_vault(return_key=True), which raises when the vault was replaced by one
\* of another secret; gateway_setup() opens the vault, with the key of the file.
Reread(p) ==
    /\ do[p] = "reread"
    /\ IF Readable(IF op[p] = "setup" THEN localKey ELSE got[p])
         THEN /\ key' = [key EXCEPT ![p] = NewKey(p)]
              /\ stale' = [stale EXCEPT ![p] = FALSE]
              /\ IF op[p] \in Opening
                   THEN Goto(p, "missing") /\ UNCHANGED <<op, got, envelope, value>>
                   ELSE Finish(p)
         ELSE Finish(p) /\ UNCHANGED <<key, stale>>
    /\ UNCHANGED <<vaultFiles, vaultBounds, behind, crossed, twoKeys, disabled, lost>>

\* persist_vault_secrets(), of every operation that changes a secret.
Persist(p) ==
    /\ Undertake(p, "open", "envelope") /\ key[p] # NoKey
    /\ UNCHANGED <<vaultFiles, key, got, envelope, value, vaultBounds, vaultHistory>>

\* The envelope is read; there must be a key and a vault ...
ReadEnvelope(p) ==
    /\ do[p] = "envelope"
    /\ IF key[p] # NoKey /\ vault.salt > 0
         THEN /\ envelope' = [envelope EXCEPT ![p] = vault.salt]
              /\ Goto(p, "back") /\ UNCHANGED <<op, got, value>>
         ELSE Finish(p)
    /\ UNCHANGED <<vaultFiles, key, vaultBounds, vaultHistory>>

\* What enables remote access after the vault was opened.
Afterwards(p) ==
    IF op[p] \in {"reopen", "setup"}
      THEN /\ op' = [op EXCEPT ![p] = IF op[p] = "setup" THEN "set" ELSE "configure"]
           /\ value' = [value EXCEPT ![p] = "on"]
           /\ Goto(p, "state") /\ UNCHANGED <<got, envelope>>
      ELSE Finish(p)

\* ... and written back with its salt and with what the key in memory encrypts.
WriteBack(p) ==
    /\ do[p] = "back"
    /\ vault' = [salt |-> envelope[p], key |-> key[p]]
    /\ crossed' = (crossed \/ stale[p])
    /\ Afterwards(p)
    /\ UNCHANGED <<localKey, relayState, key, vaultBounds, stale, behind, twoKeys, disabled, lost>>

-----------------------------------------------------------------------------
(* write_gateway_relay_state(): read, merge, write in place.               *)

BeingPut(p) == \E q \in Process \ {p} : do[q] = "put"

\* gateway_open_local() fills in a relay state without the setting from the
\* secrets of the vault, and one of an earlier version with its target mode.
Missing(p) ==
    /\ do[p] = "missing"
    /\ \/ /\ behind' = [behind EXCEPT ![p] = BeingPut(p)]
          /\ \E v \in IF relayState = "none" THEN {"on", "off"} ELSE {"keep"} :
                value' = [value EXCEPT ![p] = v]
          /\ Goto(p, "state")
       \/ relayState # "none" /\ Goto(p, "envelope") /\ UNCHANGED <<value, behind>>
    /\ UNCHANGED <<vaultFiles, key, op, got, envelope, vaultBounds, stale, crossed, twoKeys, disabled, lost>>

\* gateway_remote_enable(), gateway_remote_disable(), or an update of other
\* fields, such as that of a new managed session of tmux.
Update(p, v) ==
    /\ Undertake(p, "update", "state") /\ updates < MaxUpdates
    /\ value' = [value EXCEPT ![p] = v]
    /\ updates' = updates + 1
    /\ UNCHANGED <<vaultFiles, key, got, envelope, salts, kills, vaultHistory>>

\* gateway_tmux_configure() enables remote access, too, and twice.
Configure(p) ==
    /\ Undertake(p, "configure", "state") /\ key[p] # NoKey /\ updates < MaxUpdates
    /\ value' = [value EXCEPT ![p] = "on"]
    /\ updates' = updates + 1
    /\ UNCHANGED <<vaultFiles, key, got, envelope, salts, kills, vaultHistory>>

ReadRelayState(p) ==
    /\ do[p] = "state" /\ Goto(p, "truncate")
    /\ Gets(p, relayState)
    /\ behind' = [behind EXCEPT ![p] = BeingPut(p) \/ (op[p] \in Opening /\ @)]
    /\ UNCHANGED <<vaultFiles, key, op, envelope, value, vaultBounds, stale, crossed, twoKeys, disabled, lost>>

\* The updates that have read the state fall behind this one.
Reading(q) == do[q] \in {"truncate", "put"} \/ (do[q] = "state" /\ op[q] \in Opening)
FallBehind(p) == [q \in Process |-> (q # p /\ Reading(q)) \/ behind[q]]

Truncate(p) ==
    /\ do[p] = "truncate" /\ Goto(p, "put")
    /\ relayState' = "none"
    /\ behind' = FallBehind(p)
    /\ UNCHANGED <<vault, localKey, key, op, got, envelope, value, vaultBounds, stale, crossed, twoKeys, disabled, lost>>

\* Mutant: the update of other fields starts from defaults.
Defaults(p) == IF value[p] = "keep" THEN "on" ELSE value[p]

Merged(p) == IF value[p] = "keep" THEN got[p] ELSE value[p]

\* What follows an update: the second one of gateway_tmux_configure(), the end
\* of gateway_setup(), or that the secrets are saved.
AfterPut(p) ==
    IF op[p] = "configure"
      THEN op' = [op EXCEPT ![p] = "target"] /\ Goto(p, "state") /\ UNCHANGED <<got, envelope, value>>
      ELSE IF op[p] = "set" \/ key[p] = NoKey
             THEN Finish(p)
             ELSE Goto(p, "envelope") /\ UNCHANGED <<op, got, envelope, value>>

\* Whether the process decides by what it has read, and not by its command.
ByTheFile(p) == value[p] = "keep" \/ op[p] \in Opening

PutRelayState(p) ==
    /\ do[p] = "put" /\ AfterPut(p)
    /\ relayState' = Merged(p)
    /\ behind' = [FallBehind(p) EXCEPT ![p] = FALSE]
    /\ disabled' = IF ByTheFile(p) THEN disabled ELSE value[p] = "off"
    /\ lost' = (lost \/ (ByTheFile(p) /\ behind[p]))
    /\ UNCHANGED <<vault, localKey, key, vaultBounds, stale, crossed, twoKeys>>

\* gateway_remote_enabled_value(): without the setting, by the secrets of the
\* vault, or by whether there is a relay secret, and most often so.
RemoteEnabled == relayState # "off"

-----------------------------------------------------------------------------
\* A process is killed, perhaps between the truncation of a file and its write.
Kill(p) ==
    /\ kills < MaxKills /\ do[p] # "idle" /\ Finish(p)
    /\ kills' = kills + 1
    /\ vault' \in {vault} \cup (IF do[p] \in {"write", "back"} THEN {Torn} ELSE {})
    /\ key' = [key EXCEPT ![p] = NoKey]
    /\ stale' = [stale EXCEPT ![p] = FALSE] /\ behind' = [behind EXCEPT ![p] = FALSE]
    /\ lost' = (lost \/ do[p] = "put")
    /\ UNCHANGED <<localKey, relayState, salts, updates, crossed, twoKeys, disabled>>

VaultNext ==
    \E p \in Process :
        \/ OpenLocal(p) \/ Migrate(p) \/ Rotate(p) \/ FindKey(p) \/ CreateKey(p) \/ WriteVault(p) \/ Reread(p)
        \/ \E overwrite \in BOOLEAN : Setup(p, overwrite)
        \/ Persist(p) \/ ReadEnvelope(p) \/ WriteBack(p)
        \/ \E v \in {"on", "off", "keep"} : Update(p, v)
        \/ Configure(p) \/ Missing(p) \/ ReadRelayState(p) \/ Truncate(p) \/ PutRelayState(p)
        \/ Kill(p)

VaultSpec == VaultInit /\ [][VaultNext]_vaultVars

-----------------------------------------------------------------------------
(* Properties.                                                             *)

\* The machine-local key, or the passphrase of a vault that is not migrated yet,
\* opens the vault at every moment, through setup, migration, rotation, updates
\* and kills of any number.  Three things only lock a user out: a process that
\* writes back what it encrypted with the key of before another's rotation, two
\* processes that both make the machine-local key, and one that is killed while
\* the vault is half written.
OnlyStaleWritesLockOut ==
    ~crossed /\ ~twoKeys /\ vault \notin {NoVault, Torn} => Readable(localKey) \/ Readable("passphrase")

\* Remote access that was disabled stays disabled whichever processes open the
\* vault, list windows, rotate or save at the same time, until a command enables
\* it: gateway remote enable, tmux configure or setup.  Only an update that read
\* the file before another process wrote it, or a half-written file, and a
\* process that is killed while it writes bring it back.
DisabledStaysDisabled ==
    disabled /\ ~lost /\ (\A p \in Process : do[p] # "put") => ~RemoteEnabled
=============================================================================
