--------------------------- MODULE ProjectSecrets ----------------------------
(***************************************************************************)
(* The memory secret of an encrypted project: the setup request that makes *)
(* its first version, rotations, the caches of each process, and the calls *)
(* that encrypt a node before they write it and decrypt what they read.    *)
(*                                                                         *)
(* Ciphers are modelled by what opens what: a version of the secret is a   *)
(* key in a bundle that is wrapped with a passphrase, an envelope opens    *)
(* with the key and the version it was made with, and an old one also      *)
(* needs the path it was made at.  The server is external: it completes a  *)
(* request once, rotates from the version it has, keeps what a write does  *)
(* not name, and may refuse a write of an old version or of plain text.    *)
(***************************************************************************)
EXTENDS Naturals, Sequences, FiniteSets

CONSTANTS
    SecretCall,  \* the calls under way
    Host,        \* the processes they run in
    Settings     \* what the calls do, where, and with which passphrases

NodeWrites == {"write", "content", "metadata", "move"}
Setups == {"setup", "other", "chat"}
SecretKinds == NodeWrites \cup Setups \cup {"read", "rotate", "lock", "disable"}
Phrase == {"right", "other"}
Setting == [kind : [SecretCall -> SecretKinds], on : [SecretCall -> Host],
            env : [Host -> Phrase \cup {"none"}], encrypted : BOOLEAN]

ASSUME SettingsAssumption == Settings \subseteq Setting

VARIABLES
    setting,
    encryption,  \* the state of the project at the server
    request,     \* its setup request
    secrets,     \* the versions of the memory secret at the server
    note,        \* a node at the server
    cached,      \* MEMORY_SECRET_CACHE of each process
    active,      \* ACTIVE_MEMORY_SECRET_VERSIONS of each process, 0 for none
    phrase,      \* PROJECT_VAULT_PASSPHRASE of each process
    secretAt,    \* where each call stands
    held,        \* the secret a call has
    wrap,        \* the passphrase it has wrapped a new version with
    gotNode,     \* the node it has read
    slots,       \* how many secrets were cached when it began to look
    since,       \* history: the version that was active when a write began
    wrote,       \* history: that of the last write, and the one it used
    swapped,     \* history: the rotations under which the passphrase changed
    disabled     \* history: encryption was disabled
secretsServer == <<encryption, request, secrets, note, wrote, disabled>>
secretsHost == <<cached, active, phrase, swapped>>
secretsCall == <<held, wrap, gotNode, slots, since>>
secretsVars == <<setting, secretsServer, secretsHost, secretAt, secretsCall>>

Versions == 0 .. Cardinality(SecretCall) + 1
Key == [by : SecretCall \cup {"before"}, epoch : Versions]
Secret == [version : Versions, key : Key]
FirstKey == [by |-> "before", epoch |-> 1]
NoSecret == [version |-> 0, key |-> FirstKey]
\* An envelope of version 0 is plain text; path 0 stands for the node's id.
Envelope == [version : Versions, key : Key, path : 0..2]
Plain == [version |-> 0, key |-> FirstKey, path |-> 0]
Note == [path : 1..2, version : Versions, content : Envelope, metadata : Envelope, crossed : BOOLEAN]

SecretsTypeOK ==
    /\ setting \in Settings
    /\ encryption \in {"standard", "encrypted"} /\ request \in {"none", "pending", "completed"}
    /\ secrets \in Seq([key : Key, phrase : Phrase]) /\ Len(secrets) \in Versions
    /\ note \in Note
    /\ cached \in [Host -> SUBSET Secret] /\ active \in [Host -> Versions]
    /\ phrase \in [Host -> Phrase \cup {"none"}]
    /\ secretAt \in [SecretCall ->
           {"start", "check", "fetch", "keep", "store", "look", "slot", "active", "keepActive", "version", "keepVersion",
            "open", "generate", "complete", "wrap", "rotate", "done", "refused", "unavailable", "failed"}]
    /\ held \in [SecretCall -> Secret] /\ wrap \in [SecretCall -> Phrase]
    /\ gotNode \in [SecretCall -> Note] /\ slots \in [SecretCall -> Nat]
    /\ since \in [SecretCall -> Versions] /\ wrote \in [since : Versions, version : Versions]
    /\ swapped \subseteq SecretCall /\ disabled \in BOOLEAN

Kind(c) == setting.kind[c]
On(c) == setting.on[c]

\* A project that is encrypted has a node with both envelopes, perhaps old ones.
SecretsInit ==
    /\ setting \in Settings
    /\ IF setting.encrypted
         THEN /\ encryption = "encrypted" /\ request = "completed"
              /\ secrets = <<[key |-> FirstKey, phrase |-> "right"]>>
              /\ \E path \in 0..1, meta \in BOOLEAN :
                     LET e == [version |-> 1, key |-> FirstKey, path |-> path] IN
                     note = [path |-> 1, version |-> 1, content |-> e,
                             metadata |-> IF meta THEN e ELSE Plain, crossed |-> FALSE]
         ELSE /\ encryption = "standard" /\ request = "pending" /\ secrets = <<>>
              /\ note = [path |-> 1, version |-> 0, content |-> Plain, metadata |-> Plain, crossed |-> FALSE]
    /\ cached = [h \in Host |-> {}] /\ active = [h \in Host |-> 0]
    /\ phrase = [h \in Host |-> "none"]
    /\ secretAt = [c \in SecretCall |-> "start"]
    /\ held = [c \in SecretCall |-> NoSecret]
    /\ wrap = [c \in SecretCall |-> "right"]
    /\ gotNode = [c \in SecretCall |-> note]
    /\ slots = [c \in SecretCall |-> 0]
    /\ since = [c \in SecretCall |-> 0] /\ wrote = [since |-> 0, version |-> 0]
    /\ swapped = {} /\ disabled = FALSE

SecretGo(c, place) == secretAt' = [secretAt EXCEPT ![c] = place]
Hold(c, s) == held' = [held EXCEPT ![c] = s]

\* project_bundle_passphrase(): the one that was set, or that of the environment.
Effective(h) == IF phrase[h] # "none" THEN phrase[h] ELSE setting.env[h]
\* unwrap_project_key_bundle() and project_data_key_from_bundle().
Opens(c, version) == Effective(On(c)) = secrets[version].phrase
Unwrapped(version) == [version |-> version, key |-> secrets[version].key]

\* A request for a version of the secret: refused when the bundle cannot be
\* opened with the passphrase of the process.
Fetch(c, version, place) ==
    IF version > 0 /\ Opens(c, version)
    THEN Hold(c, Unwrapped(version)) /\ SecretGo(c, place)
    ELSE SecretGo(c, "refused") /\ UNCHANGED held

Remember(c) == cached' = [cached EXCEPT ![On(c)] = @ \cup {held[c]}]

-----------------------------------------------------------------------------
(* encrypt_node_payload_for_write() and the write it is for.               *)

\* The call finds the node it is to write.
FindNode(c) ==
    /\ Kind(c) \in NodeWrites /\ secretAt[c] = "start"
    /\ since' = [since EXCEPT ![c] = IF encryption = "encrypted" THEN Len(secrets) ELSE 0]
    /\ SecretGo(c, "check")
    /\ UNCHANGED <<setting, secretsServer, secretsHost, held, wrap, gotNode, slots>>

\* The state of the project, which is asked for before the project lock.
CheckState(c) ==
    /\ secretAt[c] = "check"
    /\ SecretGo(c, IF encryption = "encrypted" THEN "fetch" ELSE "store")
    /\ UNCHANGED <<setting, secretsServer, secretsHost, secretsCall>>

\* Mutant: what is cached as active will do.
CachedWillDo(c) == IF active[On(c)] # 0 THEN active[On(c)] ELSE Len(secrets)

\* The version a write asks for: the active one, and never from the cache.
ForWrite(c) == Len(secrets)

FetchForWrite(c) ==
    /\ secretAt[c] = "fetch"
    /\ Fetch(c, ForWrite(c), "keep")
    /\ UNCHANGED <<setting, secretsServer, secretsHost, wrap, gotNode, slots, since>>

KeepForWrite(c) ==
    /\ secretAt[c] = "keep"
    /\ Remember(c)
    /\ active' = [active EXCEPT ![On(c)] = held[c].version]
    /\ SecretGo(c, "store")
    /\ UNCHANGED <<setting, secretsServer, phrase, swapped, secretsCall>>

\* What a write leaves alone: a rename names neither, and without metadata the
\* old envelope of it stays.
Names(c, part) == Kind(c) \in {"write", part}
Sealed(c, part) ==
    IF ~Names(c, part) THEN note[part]
    ELSE IF held[c].version = 0 THEN Plain
    ELSE [version |-> held[c].version, key |-> held[c].key, path |-> 0]

\* Whatever it names, an encrypted write moves the node to its version.
Rewritten(c) ==
    [path |-> IF Kind(c) = "move" THEN 2 ELSE note.path,
     version |-> IF held[c].version = 0 THEN note.version ELSE held[c].version,
     content |-> Sealed(c, "content"),
     metadata |-> Sealed(c, "metadata"),
     crossed |-> IF held[c].version = 0 THEN note.crossed
                 ELSE \E part \in {"content", "metadata"} :
                          ~Names(c, part) /\ note[part].version \notin {0, held[c].version}]

Encrypted(n) == n.content # Plain \/ n.metadata # Plain

\* The node that comes back is decrypted, as one that is read.
StoreNode(c) ==
    /\ secretAt[c] = "store"
    /\ \/ /\ note' = Rewritten(c)
          /\ wrote' = [since |-> since[c], version |-> held[c].version]
          /\ gotNode' = [gotNode EXCEPT ![c] = note']
          /\ SecretGo(c, IF Encrypted(note') THEN "look" ELSE "done")
       \/ /\ encryption = "encrypted" /\ held[c].version < Len(secrets)
          /\ SecretGo(c, "failed")
          /\ UNCHANGED <<note, wrote, gotNode>>
    /\ UNCHANGED <<setting, encryption, request, secrets, disabled, secretsHost, held, wrap, slots, since>>

-----------------------------------------------------------------------------
(* decrypt_node_for_return() and memory_secret_for_read().                 *)
GetNode(c) ==
    /\ Kind(c) = "read" /\ secretAt[c] = "start"
    /\ gotNode' = [gotNode EXCEPT ![c] = note]
    /\ SecretGo(c, IF Encrypted(note) THEN "look" ELSE "done")
    /\ UNCHANGED <<setting, secretsServer, secretsHost, held, wrap, slots, since>>

CachedSlot(c) == {s \in cached[On(c)] : s.version = gotNode[c].version}

\* find_memory_secret_cache_slot() walks over the dictionary of the process; it
\* fails when another thread adds to it, or clears it, meanwhile.
BeginLooking(c) ==
    /\ secretAt[c] = "look"
    /\ slots' = [slots EXCEPT ![c] = Cardinality(cached[On(c)])]
    /\ SecretGo(c, "slot")
    /\ UNCHANGED <<setting, secretsServer, secretsHost, held, wrap, gotNode, since>>

FindSlot(c) ==
    /\ secretAt[c] = "slot"
    /\ \/ /\ slots[c] > 0 /\ Cardinality(cached[On(c)]) # slots[c]
          /\ SecretGo(c, "failed") /\ UNCHANGED held
       \/ /\ CachedSlot(c) = {}
          /\ SecretGo(c, "active") /\ UNCHANGED held
       \/ \E s \in CachedSlot(c) : Hold(c, s) /\ SecretGo(c, "open")
    /\ UNCHANGED <<setting, secretsServer, secretsHost, wrap, gotNode, slots, since>>

\* Mutant: whatever version is active is taken for the one of the node.
AnyVersion(c, version) == TRUE

RightVersion(c, version) == version = gotNode[c].version

ActiveSlot(c) == {s \in cached[On(c)] : s.version = active[On(c)]}
Settle(c, version) == IF RightVersion(c, version) THEN "open" ELSE "version"

\* The active secret, from the cache even when it has been rotated meanwhile.
AskActive(c) ==
    /\ secretAt[c] = "active"
    /\ IF ActiveSlot(c) = {}
         THEN Fetch(c, Len(secrets), "keepActive")
         ELSE \E s \in ActiveSlot(c) : Hold(c, s) /\ SecretGo(c, Settle(c, s.version))
    /\ UNCHANGED <<setting, secretsServer, secretsHost, wrap, gotNode, slots, since>>

KeepActive(c) ==
    /\ secretAt[c] = "keepActive"
    /\ Remember(c)
    /\ active' = [active EXCEPT ![On(c)] = held[c].version]
    /\ SecretGo(c, Settle(c, held[c].version))
    /\ UNCHANGED <<setting, secretsServer, phrase, swapped, secretsCall>>

AskVersion(c) ==
    /\ secretAt[c] = "version"
    /\ IF CachedSlot(c) = {}
         THEN Fetch(c, gotNode[c].version, "keepVersion")
         ELSE \E s \in CachedSlot(c) : Hold(c, s) /\ SecretGo(c, "open")
    /\ UNCHANGED <<setting, secretsServer, secretsHost, wrap, gotNode, slots, since>>

KeepVersion(c) ==
    /\ secretAt[c] = "keepVersion"
    /\ Remember(c)
    /\ SecretGo(c, "open")
    /\ UNCHANGED <<setting, secretsServer, active, phrase, swapped, secretsCall>>

Decrypts(c, e) ==
    e # Plain => e.version = held[c].version /\ e.key = held[c].key /\ e.path \in {0, gotNode[c].path}

OpenEnvelopes(c) ==
    /\ secretAt[c] = "open"
    /\ SecretGo(c, IF Decrypts(c, gotNode[c].content) /\ Decrypts(c, gotNode[c].metadata) THEN "done" ELSE "unavailable")
    /\ UNCHANGED <<setting, secretsServer, secretsHost, secretsCall>>

-----------------------------------------------------------------------------
(* Setup requests: a call, or the loop of the gateway, lists them and      *)
(* completes those that are pending; a chat setup looks first whether      *)
(* there are secrets.  The passphrase of a call stays in its process.      *)
Rotating(h) == {d \in SecretCall : On(d) = h /\ secretAt[d] = "wrap"}

GivesPhrase(c) ==
    /\ phrase' = IF Kind(c) = "other" THEN [phrase EXCEPT ![On(c)] = "other"] ELSE phrase
    /\ swapped' = IF Kind(c) = "other" THEN swapped \cup Rotating(On(c)) ELSE swapped

Pending(c) == request = "pending" /\ (Kind(c) = "chat" => secrets = <<>>)

ListRequests(c) ==
    /\ Kind(c) \in Setups /\ secretAt[c] = "start"
    /\ GivesPhrase(c)
    /\ SecretGo(c, IF Pending(c) THEN "generate" ELSE "done")
    /\ UNCHANGED <<setting, secretsServer, cached, active, secretsCall>>

NewKey(c, epoch) == [by |-> c, epoch |-> epoch]

\* One bundle with new keys of every kind, wrapped with the passphrase.
Generate(c) ==
    /\ secretAt[c] = "generate"
    /\ IF Effective(On(c)) = "none"
         THEN SecretGo(c, "refused") /\ UNCHANGED <<held, wrap>>
         ELSE /\ Hold(c, [version |-> 1, key |-> NewKey(c, 1)])
              /\ wrap' = [wrap EXCEPT ![c] = Effective(On(c))]
              /\ SecretGo(c, "complete")
    /\ UNCHANGED <<setting, secretsServer, secretsHost, gotNode, slots, since>>

Wrapped(c) == [key |-> held[c].key, phrase |-> wrap[c]]

Complete(c) ==
    /\ secretAt[c] = "complete"
    /\ IF request = "pending"
         THEN /\ request' = "completed" /\ encryption' = "encrypted"
              /\ secrets' = <<Wrapped(c)>>
              /\ SecretGo(c, "done")
         ELSE SecretGo(c, "failed") /\ UNCHANGED <<request, encryption, secrets>>
    /\ UNCHANGED <<setting, note, wrote, disabled, secretsHost, secretsCall>>

-----------------------------------------------------------------------------
(* gateway_rotate_project_vault_secret().                                  *)

\* Mutant: the new bundle is made without the old one.
NotUnwrapped(c) == Effective(On(c)) # "none"

MayRotate(c) == Opens(c, Len(secrets))

UnwrapActive(c) ==
    /\ Kind(c) = "rotate" /\ secretAt[c] = "start"
    /\ IF secrets # <<>> /\ MayRotate(c)
         THEN Hold(c, [version |-> Len(secrets), key |-> NewKey(c, Len(secrets) + 1)]) /\ SecretGo(c, "wrap")
         ELSE SecretGo(c, "refused") /\ UNCHANGED held
    /\ UNCHANGED <<setting, secretsServer, secretsHost, wrap, gotNode, slots, since>>

WrapNew(c) ==
    /\ secretAt[c] = "wrap"
    /\ IF Effective(On(c)) = "none"
         THEN SecretGo(c, "refused") /\ UNCHANGED wrap
         ELSE wrap' = [wrap EXCEPT ![c] = Effective(On(c))] /\ SecretGo(c, "rotate")
    /\ UNCHANGED <<setting, secretsServer, secretsHost, held, gotNode, slots, since>>

\* The request names the version it replaces; then the process forgets the
\* versions it has cached, and the others do not.
RotateSecret(c) ==
    /\ secretAt[c] = "rotate"
    /\ IF Len(secrets) = held[c].version
         THEN /\ secrets' = Append(secrets, Wrapped(c))
              /\ cached' = [cached EXCEPT ![On(c)] = {}]
              /\ active' = [active EXCEPT ![On(c)] = 0]
              /\ SecretGo(c, "done")
         ELSE SecretGo(c, "failed") /\ UNCHANGED <<secrets, cached, active>>
    /\ UNCHANGED <<setting, encryption, request, note, wrote, disabled, phrase, swapped, secretsCall>>

-----------------------------------------------------------------------------
\* gateway_lock(): clear_gateway_runtime_caches().
LockGateway(c) ==
    /\ Kind(c) = "lock" /\ secretAt[c] = "start"
    /\ cached' = [cached EXCEPT ![On(c)] = {}]
    /\ active' = [active EXCEPT ![On(c)] = 0]
    /\ phrase' = [phrase EXCEPT ![On(c)] = "none"]
    /\ swapped' = swapped \cup Rotating(On(c))
    /\ SecretGo(c, "done")
    /\ UNCHANGED <<setting, secretsServer, secretsCall>>

\* project_encryption_transition(), which only ever disables.
DisableEncryption(c) ==
    /\ Kind(c) = "disable" /\ secretAt[c] = "start"
    /\ encryption' = "standard" /\ disabled' = TRUE
    /\ SecretGo(c, "done")
    /\ UNCHANGED <<setting, request, secrets, note, wrote, secretsHost, secretsCall>>

SecretWrite(c) == FindNode(c) \/ CheckState(c) \/ FetchForWrite(c) \/ KeepForWrite(c) \/ StoreNode(c)
SecretRead(c) ==
    \/ GetNode(c) \/ BeginLooking(c) \/ FindSlot(c) \/ AskActive(c) \/ KeepActive(c)
    \/ AskVersion(c) \/ KeepVersion(c) \/ OpenEnvelopes(c)
SetUp(c) == ListRequests(c) \/ Generate(c) \/ Complete(c)
Rotation(c) == UnwrapActive(c) \/ WrapNew(c) \/ RotateSecret(c)

SecretsNext ==
    \E c \in SecretCall : SecretWrite(c) \/ SecretRead(c) \/ SetUp(c) \/ Rotation(c) \/ LockGateway(c) \/ DisableEncryption(c)

SecretsSpec == SecretsInit /\ [][SecretsNext]_secretsVars

-----------------------------------------------------------------------------
(* Properties.                                                             *)

\* A write that begins when a version of the secret is active is encrypted with
\* that version or a later one, whatever its process has cached, and never goes
\* out as plain text; unless encryption is being disabled.
WrittenUnderActive == disabled \/ wrote.version >= wrote.since

\* A call that has got the node gets the key that opens it, from whichever cache
\* or request, through rotations and locks, but for two kinds of node: one whose
\* version a later write moved on without encrypting all of it again, and one
\* with an old envelope that has been moved since.
RightKeyIsFound ==
    \A c \in SecretCall : secretAt[c] = "unavailable" =>
        gotNode[c].crossed \/ \E e \in {gotNode[c].content, gotNode[c].metadata} : e.path \notin {0, gotNode[c].path}

\* Whoever can open a version of the secret can open the next one too: no rotation
\* wraps with another passphrase than the one that opened the version before it,
\* however many processes with passphrases of their own try.  Only a rotation whose
\* own process is given another passphrase between the two can.
OnePassphrase ==
    \A v \in DOMAIN secrets : v > 1 => secrets[v].phrase = secrets[v-1].phrase \/ secrets[v].key.by \in swapped
=============================================================================
