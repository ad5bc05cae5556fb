# A verification development for nap-cli

`nap-cli` is the local side of Napseer: an MCP server that an agent's client
starts over stdio, a command line, a gateway that serves terminals over a relay,
and an installer.  This directory holds TLA+ modules that model the parts of it
in which several actors meet, TLC configurations that check them on small
instances, and TLAPS proofs of what holds for every instance.  Source lines are
those of the repository this directory stands beside (`src/` in `PROJECT.json`,
which maps every definition to the lines it models).

Run a model with `tlc -config MCMcpSystem_reuse.cfg MCMcpSystem`, the proofs with
`tlapm McpSystem_proofs.tla` and likewise the other modules `*_proofs`.  Section 8
says what is proved of what, and what is only model-checked.

## 1. The system: an inventory

Almost everything is Python, in `resources/scripts` (22,092 lines, of which
`napseer_mcp_server.py` is 18,955).

| component | state it keeps | operations | what makes it correct | status |
|---|---|---|---|---|
| MCP supervisor (`napseer_mcp_supervisor.py`) | worker process, its generation and identity, pending table, per-request slot and cancelled flag, deferred-reload flag | read a line, submit, cancel, wait with a timeout, grace timer, deliver a response, stop, start, reload, shut down | one answer per request, for the right request; -32097 only when nothing ran; no replay; a reload waits for work; every slot is freed | modelled (`McpSupervisor`) |
| MCP worker runtime (`McpRequestRuntime`, `call_tool`, `main`) | table of admitted requests, cancelled flags, executor queue, mutation lock | dispatch, refuse, cancel, execute, acknowledge, close | bounded admission, mutations one at a time, cancelled work silent and not started, exit at the end of input | modelled (`McpWorker`) |
| Batch scheduler (`execute_batch`) | pending actions, results, the wave being executed | validate, skip, run a mutation, run a group of reads, stop on error | array order around mutations, dependencies, at most `max_parallel` reads, no action after a failure | modelled (`BatchScheduler`) |
| Project lock (`with_project_lock`) | the lease of the server, cancellation of the request | acquire, cancel during acquire, operate, release once | the lease is released on every path; no write without it | modelled in part (`ProjectNodes`) |
| Credential store (`napseer_credentials.py`) | user, project and legacy files, selection, per-path locks (thread and process) | select, transaction, login, logout, use-user, migrate | a transaction stays with its file; a migration does not widen what a login is used for | modelled (`CredentialStore`) |
| Authentication (`renew_auth`, `save_auth`, `refresh_public_auth_state`, SSH recovery) | globals TOKEN, AUTH; refresh token that rotates | renew, recover, reload from disk | a rotated refresh token is never used twice; a logout stays; a request sends the token of the file | modelled in part (`AuthRenewal`) |
| Local index (`index_node`, `sync_local_index`, `reindex_project`, SQLite) | rows per node, sync watermark, completeness flag | index one node, incremental sync, rebuild under a file lock, clear, browse by pages | after a refresh the rows are right; a browse lists each node once | modelled in part (`LocalIndex`) |
| Installer (`nap_install.py`) | lock file, staged and final releases, symlinks | lock, stage, verify, activate, preserve a legacy path | what users run is of one verified release; never an older one | modelled in part (`Installer`) |
| Services (`start_service`, `stop_service`) | a record with a pid and a port | start, stop, list | the process that runs is the one on record | modelled in part (`Service`) |
| PTY sessions (`terminal/pty_manager.py`) and frames (`terminal/protocol.py`) | ring of output chunks, output and input sequence numbers, subscribers, an output buffer per relay session | open, write, attach, subscribe, read loop, flush, close | no output lost without notice; input written once | modelled in part (`TerminalStream`) |
| Gateway vault and passphrase (`gateway_setup`, `gateway_open_local`, rotation) | vault file, vault key and secrets in memory, relay secret and state | set up, open, persist, rotate, enable, disable | the machine's key opens the vault; remote access that is off stays off | modelled in part (`GatewayVault`) |
| Gateway relay (`gateway_relay_loop`, `handle_gateway_relay_session`) | lanes, sessions, per-session rotation gate | connect, back off, start a session, handshake, handle a frame | the list of sessions is exact; before a rotation only rotation frames (not stated) | modelled in part (`GatewayRelay`) |
| Gateway schedules (`gateway_schedule_*`) | schedule file, next run of each | create, update, delete, run now, run what is due | a due run happens once; a deleted schedule stays deleted | modelled (`GatewaySchedules`) |
| Encryption of a project (`vault_*`, `memory_secret_*`) | setup request and versions of the secret at the server, caches and passphrase per process | set up, rotate, lock, disable, encrypt and write, read and decrypt | a write uses the active version; a read finds the right key; one passphrase opens all versions | modelled (`ProjectSecrets`) |
| Gateway registration (`gateway_service_*`, `repair`, enrolment) | credential file and vault of the folder, `gateway-auth.json` | preregister, activate, service loop, renew, repair | a registration and its activation token belong together; a repair stays | modelled (`GatewayRegistration`) |
| Project resolution and bootstrap (`resolve_project_id`, `bootstrap_project`) | locator in the repository, selection in the store, bootstrap lock | resolve, create, attach, init | one project per folder; a retry is never refused | modelled in part (`ProjectBootstrap`) |
| Nodes, kanban and plans (`guarded_node_patch`, `upsert_node`, `finish_work`, ...) | nodes at the server, revisions | patch with a guard, move, bulk, archive, plan lifecycle | a guarded patch overwrites nothing unseen; a closed plan has its outcome | modelled in part (`ProjectNodes`) |
| Local UI, tool schemas, CLI parsing, contract text, telemetry, cryptographic primitives (`napseer_spake2.py`) | none that several actors share | | | not modelled: pure functions, presentation, or cryptography outside TLC's reach |

How they interact.  The client speaks JSON-RPC lines to the supervisor; the
supervisor starts the worker and forwards lines over two pipes; the worker's main
thread dispatches to executor threads, which call tools.  A tool takes the
process-wide mutation lock unless it only reads; tools call the Napseer server
over HTTP under a project lock, the local index over SQLite, the credential store
over files that other processes share, and (in a gateway process) PTY sessions
and the relay.  Cancellation is a flag that travels the whole way: client,
supervisor, worker, `raise_if_mcp_request_cancelled()` in the tool.

Hard behaviours: threads that race for one answer; a worker that dies, hangs,
prints garbage or is replaced; ids that are used again; timeouts that meet late
answers; locks held over waits; files shared by processes without transactions.
`PROJECT.json` lists them under "hazards", each at its line.

## 2. The MCP service

### Modules

* `McpChannel` - the messages and the two pipes of the worker that runs now.
* `McpSupervisor` - the supervisor: one `pc` entry per thread (the main thread,
  a waiter per request, a grace timer per request) and a reader per worker
  generation.  A section under `_pending_lock` is one action; the lifecycle lock
  is a set of places (`stopping`, `spawn`) because it is held while the worker is
  waited for.
* `McpWorker` - `McpRequestRuntime`, `call_tool`'s lock and `main()`: `work[r]`
  says where a request is.
* `McpSystem` - both together with a client, a source on disk that is replaced,
  and a worker that crashes or prints garbage.  It states the properties.
* `RequestService` - the abstract promise per request: asked, run at most once,
  one reply; a rejection means it never runs; a cancelled request gets no result.
  `McpSystem!ImplementsService` is the refinement.
* `McpWorkerDirect` - a worker whose client talks to it without a supervisor, so
  that its own admission control is exercised (behind a supervisor it never
  refuses anything, which `ResultMeansStarted` shows).
* `MCMcpSystem`, `MCMcpWorkerDirect` - instances for TLC.
* `McpSystem_proofs`, `McpService_proofs`, `McpWorkerDirect_proofs` - the theorems.

A request is a line of the client; `KeyOf` gives its JSON-RPC id, and several
requests may share one.  `answers[r]` collects the responses the client got for
r.  A line in a pipe carries the request it stems from, which the code cannot
see: `DeliverResponse` looks only at the id and the generation, and marks the
slot "wrong" when what it settles is another request.

`ensure_current`, `start`, `submit` and `_write` are the main thread's places
`ensure`, `spawn`, `snap`, `admit`, `write`, `unwind`; `cancel` is `Mark` (under
the lock) and `Notify` (after it); `wait` is `Receive`, `TimeOut`, `CancelLate`
and `GiveUp`; `_expire_cancelled` is `Expire`; `_stop_locked` is `StopBegin` and,
once the process is gone, `StopEnd`.

### Runs

| run | instance | question |
|---|---|---|
| `reuse` | 2 requests with one id, a notification, 2 generations, a client without discipline | one answer per request, and never another's; the refinement of `RequestService` |
| `reload` | 2 requests, own ids, 2 generations, 3 source versions of which one is unreadable | no reload while there is work; the identity on record never hides older code |
| `live` | 2 requests, own ids, one an `initialize`, one slot, worker may hang, 1 fault | no work the supervisor forgot; every request is settled, the shutdown ends |
| `direct` | 3 requests, of which 2 are mutations, and a notification, 2 slots; cancellations at any time, no supervisor | bounded queue, ordered mutations, the process ends |
| `rollback` | 2 source versions that come and go | expected violation, below |

Bounds.  `MaxInFlight` is 2 where two requests shall meet, 1 in `live` so that
the second finds the table full; pipes hold one line, so that every writer can
find its pipe full; two generations suffice for a late line or a late
registration of an old generation to meet a new one; one fault suffices for a
crash at any point, the second process then being healthy.  Requests are
symmetric together with their ids where no constant tells them apart (`Swap`),
and symmetry is used with safety properties only.

`McpSystem` and `McpWorkerDirect` state more than the runs check.  Of it,
`TypeOK`, `StartedAtMostOnce`, `RejectedNeverStarts`, `AtMostOneLine`,
`RefusedNeverStarts` and `CancelledIsSilent` are proved.  `CancelledGetsNoResult`
and `ResultMeansStarted` are contained in `ImplementsService`, which is proved too.
`SlotsAreFreed` and `AdmittedIsSettled` are liveness; a reader who adds them to a
configuration finds that they hold.

`EveryRequestSettles` asks for an answer also when the waiter's own time runs out:
that cancels the request too, so "cancelled" alone would excuse a supervisor that
never sends its -32098.  Only the client's cancellation of a request whose waiter
still waits, and the end of the session, discharge the answer.

Fairness (`live`, `direct`).  The supervisor's own threads are scheduled and its timeouts
expire: weak fairness for each of them.  A queue.get with a timeout, a
threading.Timer and process.wait after kill all return by themselves, and the
reader of a dead process reaches the end of its output.  The client and the
worker get none: a worker may stop answering at any point.  In `direct` the
worker's threads and its client's reads are fair, and tools return in the end, as
each of their HTTP requests has a timeout.

Deadlock is checked wherever the system cannot stop by itself; `live`
switches it off because its client may stay idle for ever.

### Findings

* `rollback`: `ensure_current` (line 341) restarts a busy worker when a reload
  was deferred and the source has come back with its old identity.  README.md:74
  says that new source loads only after unfinished work has drained.
* Without a run of its own: `cancel` (line 421) writes the cancel line after
  releasing the lock.  If the request is answered and its id used again in
  between, the line cancels the new request, which is then never answered.
  `CancelHitsItsRequest` states the contrary, and TLC refutes it on the instance
  of `reuse`.

### Proofs

`McpSystem_proofs` proves `Spec => []TypeOK` and `Spec => []AtMostOneAnswer` for
all constants that satisfy the assumptions in `McpChannel`, `McpSupervisor`,
`McpWorker` and `McpSystem` (each says no more than what the program's own
configuration enforces: one in-flight request and two threads at least).

`AtMostOneAnswer` is not inductive.  An answer comes from the main thread (a
rejection, a failed submission) or from the request's waiter; that these never
both answer needs to know that the main thread only submits lines that have no
waiter and no answer (`AnswerInv`), and this in turn where the main thread goes
on after it has waited for a worker to exit (`LockInv`: one thread holds the
lifecycle lock, and what `resume` says belongs to it) and that it has a line to
work on (`LineInv`).  The type invariant is part of the same induction, because
`EXCEPT` on a thread that is none would say nothing.

The proof has one lemma per way a step can move (`MainGoes`, `MainStops`,
`OtherGoes`, `OtherStops`, `StopEndKept`, `ReaderGoes`, `MarkKept`,
`NotifyKept`, `ReadLineKept`, `WriteKept`, `MainAnswers`, `WaiterAnswers`), and
one per thread that applies them to its actions.

`McpService_proofs` goes on from there, for the same constants: every invariant and
action property of `reuse`, `reload` and `live`, and the refinement of
`RequestService`.  Its invariant `ServiceInv` follows a request from the client to
its answer:

| part | what it says | what needs it |
|---|---|---|
| `OnceInv` | a request is unsent, in stdin, in work, in stdout or in a reader's hand: one of them, and once | `StartedAtMostOnce`; a second line would be a second run |
| `StartInv` | its tool has not started before it is taken from the queue, and has when a result exists; a supervised worker never refuses | `RejectedNeverStarts`, the refinement |
| `NoteInv`, `QueueInv`, `ProcessInv` | notifications are not worked on; the queue has each request once; a process that is gone has no work | the parts above |
| `TableInv`, `SlotInv` | who is in the pending table, under which id, and who still waits for it; what was put into its slot first | `AnswersCorrelated` |
| `AccountInv` | all that a live process has of a request is of one in the table, and of this generation | `WorkIsAccounted`, `RoomInv` |
| `RoomInv` | the table never has more than `MaxInFlight` unfinished requests | why a supervised worker never refuses (`NeverRefused`) |
| `CorrelationInv` | a line in stdout or in a hand whose id a waiting request has is that request's | `AnswersCorrelated` |
| `WriteInv`, `ReplyInv` | what is about to be written is registered; a rejected request is nowhere | `RejectedNeverStarts` |

These parts need each other, so they are one induction (`NextService`), with one
lemma per part (`PlaceStep`, `TableStep`, `RoomStep`, `AccountStep`,
`CorrelationStep`, ...) over shared lemmas that say once what each action does to
one group of variables (`PlaceCases`, `TableCases`, `LifeCases`, `SlotCases`,
`AnswerCases`).  `SpecImplementsService` maps each step to a step of
`RequestService` or to a stutter: the send, the start of a tool, an answer and a
cancellation each change one of its variables.

`CurrentIdentityCurrentCode` and `ReloadWaitsForWork` are theorems for sources that
only go forward (`~Rollback`), as in `reload`; `rollback` is the counterexample
without that hypothesis.  Their invariant is `VersionInv`: what runs is not older
than the identity on record.

`McpWorkerDirect_proofs` proves the safety properties of the worker alone, for any number of
requests, slots and threads.  `TableInv` and `QueueInv` give `QueueIsBounded` and
`MutationsAreOrdered`; `LinesInv` (the pipes have a line once, and a request is not
yet read, in work or settled, and what its client may have of it there) gives
`AtMostOneLine`, `RefusedNeverStarts` and `CancelledIsSilent`.

Left to TLC: the liveness properties `EveryRequestSettles`, `ShutdownEnds` and
`EndOfInputEnds` (beyond this prover), with the parts of the type invariant that
are no more than a bound of an instance.

### Not modelled

The SIGTERM handler (a hazard of its own, see `PROJECT.json`), notifications the
worker sends of its own accord, a line written in parts to a slow pipe (a failed
write always stops the worker, which is modelled), and a waiter that has to wait
for an executor thread.  A process that is told to terminate after garbage is
dead at once.  The tools are one step from start to return here; what they do is
the subject of the other modules.

## 3. The batch scheduler

### Modules

* `BatchScheduler` - `nap_batch`: `validate_batch`'s graph check and
  `execute_batch`'s loop for several requests at a time, which share
  `MCP_MUTATION_LOCK` and the threads of `MCP_BATCH_READ_EXECUTOR`.  An action is
  its position in the array; `status[b][i]` is its future while it runs and its
  entry in `results_by_id` afterwards.  The thread of a batch is `stage[b]`; a
  mutation runs in it, a read in a thread of the executor (`TakeRead`,
  `EndRead`).  The cycle check of `_batch_order_predecessors` (Kahn's algorithm)
  is `Visited`: what it visits does not depend on the order in which it takes
  ready actions.
* `SerialBatch` - the abstract promise: waves one after the other, a mutation a
  wave of its own in array order, at most `parallel` reads in a wave, no action
  on top of a failed dependency, nothing after a failure under stop_on_error.
* `MCLocal` - its instance, the scene "batch" of the run `install` (section 5);
  `BatchScheduler_proofs` - the theorems.

What is checked of the fields of an action (names, reasons, profiles) is a
precondition here: a plan has passed it.

### Runs

| run | instance | question |
|---|---|---|
| `install`, scene "batch" | one batch, every graph over 3 actions (4,096 graphs, 32,768 plans with policies and widths), cancelled at any point | exactly the plans with a cycle are refused (`RefusesExactlyCycles`); the results are those of `SerialBatch` (`ImplementsSerialBatch`) |

Three actions are the fewest with a cycle through a barrier that neither the
dependencies nor the barriers have alone, and with a dependency of a dependency.
What several batches do to each other, and that no batch stalls, is proved, for any
number of them (below).
`FairSpec` and `BatchEnds` (the threads of a batch and of the executor run, a
tool returns because its requests have timeouts) are stated for a reader who wants
to check liveness.

### Proofs

`BatchScheduler_proofs` proves eight theorems for any batches, plans and threads:
type correctness, `MutationIsExclusive`, `NothingOutlivesTheBatch`,
`StartsInArrayOrder`, `NoMutationOnceCancelled`, `RefusesExactlyCycles`,
`NeverStalls` and the refinement of `SerialBatch`.  The invariant `Inv` has, next
to the types, four parts: `PlaceInv` (what the place of a batch's thread
says about its selected actions and their status), `OrderInv` (an action that has
left "pending" has its predecessors settled), `LockInv` (at most one batch is
inside a mutation) and `QueueInv` (what is queued belongs to a group that is
being submitted or collected).  `Local` says that a step of one batch that keeps
the invariant for that batch keeps it for all; there is a lemma per section of
the loop.

`RefusesExactlyCycles` is about a recursive function: `Visited` takes rounds until
nothing is ready any more.  The induction over the rounds is done on the set of
numbers for which a statement holds (`SetInduction`, from the least number
principle), so that no theorem with an operator as a parameter is needed;
`Iterates` shows that the recursive function exists.  From there on: the rounds
grow, they stop growing after at most one round per action, what is left then has
a predecessor in itself, and what has none is visited.  `NeverStalls` follows: a
set of pending actions with no ready one would be such a set.

The refinement needs that a wave stays a wave while it runs (`WaveInv`): what a
selected action depends on has succeeded, nothing failed under stop_on_error, and
a group of reads is not larger than `max_parallel`.  A step is then a start, an end
or a skip of `SerialBatch`, or a stutter.

Left to TLC, and not part of a run: liveness (`BatchEnds`).

## 4. Authentication renewal

### Module

`AuthRenewal`: the one OAuth login of a user, used by the threads of several
processes - requests of MCP workers, relay lanes, commands that save other
fields, a user who logs out and in again - and the service that issues tokens.
A token is a number and stands for an access token and the refresh token issued
with it.  The service rotates: a refresh token works once.

| state | code |
|---|---|
| `file` | the selected credential file (`napseer_credentials.py`); `None` is the tombstone of a logout |
| `memory[p]` | `TOKEN` and `REFRESH_TOKEN`, the globals of a process |
| `pc`, `op`, `sent`, `asked`, `use`, `got` | a thread inside `request_json()`, `gateway_relay_loop()`, `renew_auth()`, `save_auth()`, `operator_logout()` or `operator_account_login()`, and its locals: the header, `request_token`, what it read under the locks, what the service returned |
| `issued`, `refreshable`, `accepted` | the service |
| `lost`, `seen` | history, read by the properties only |

`AUTH_STATE_LOCK` and `credential_lock()` are not variables: a thread's place
says which of them it holds (`HoldsState`, `HoldsCred`).  `AUTH_RENEW_LOCK` is
only ever taken together with `AUTH_STATE_LOCK` and adds nothing.  The credential
lock excludes threads and processes; a process that is killed frees it; waiting
for it ends after 30 seconds (`CredTimesOut`).  Each call to the service is split
where the service has acted and the caller has not: `Rotate` and `StoreRenewed`,
`Revoke` and `Tombstone`; in between the answer can be lost, malformed or dropped
by a cancellation (`AnswerLost`), or the process killed (`Crash`).

`request_json()` reads `TOKEN` twice, once for the header and once for
`request_token`; the model has an action for each (`Header`, `Remember`), for
other threads of the process may publish a new token in between.

### Runs

| run | instance | what it shows |
|---|---|---|
| `auth_threads` | a worker with 2 threads (requests, a save, a login) and a command (a request or a logout), 1 operation each, 3 tokens, one killed process | no used refresh token is sent again; a logout is only ended by a login |
| `auth_lanes` | 2 relay lanes of a worker | expected violation, see below |

Bounds: `MaxTokens` (the first login, and two that renewals or logins issue:
enough for a stale, a current and a newer one), `MaxOps` per thread, `MaxCrashes`.
Three threads are what it takes for a renewal, a logout and a third party that has
an older token; two of them share `TOKEN`, the third is another process.

`FairSpec` (each thread runs; the service answers or the request times out) and
`OperationsEnd` are stated for a reader who wants to check liveness; the locks need
no fairness of their own, for the operations are finite.

`GrantIsKept` and `RefreshTokensAreUsedOnce` exempt tokens in `lost`: when the
service has rotated and its answer is lost, the file keeps a refresh token that is
spent, and the next renewal sends it.  No client can know better.

### Findings

- `auth_lanes`: `gateway_relay_loop()` (line 5499) calls `renew_auth()` without
  `stale_token`, so "already renewed" is never noticed for a lane, and two lanes
  rejected with one token rotate it twice.  The comment in `renew_auth()` names
  exactly this case as the one it avoids.
- Requests can do the same, though rarely: between the two reads of `TOKEN` (lines
  6362 and 6365) another thread of the process may publish a new token; the 401 of
  the old one is then charged to the new one.  The configuration of `auth_lanes`
  with `Does <- Requests` shows it.

Neither loses the login: the second renewal reads the current refresh token under
the lock (`RefreshTokensAreUsedOnce`).

### Proofs

`AuthRenewal_proofs` proves seven safety properties for any processes, threads and
bounds: the two of `auth_threads`, type correctness, `FileIsPinned`,
`SendsCurrentToken`, `GrantIsKept` and `AloneRotatesOnlyRejected`.  `Inv` has, next to the types: one holder of the credential lock
(`LockInv`), who works on what the file holds (`FileIsPinned`) and on a token
(`UseInv`); a token on its way to the file is good and nobody else's (`FreshInv`);
the one in the file is good, or the holder of the lock is about to replace it
(`GrantInv`); a request between its reload and its header saw what the file became
(`SeenInv`).  The lemmas group the steps by what they touch: `QuietKeeps` for those
that leave the file and the service alone, `ProceedKeeps` for those that take the
lock, `IssueKeeps` for those in which the service issues a token, `WriteKeeps` for
those that write the file.  The two action properties follow from `Inv` before the
step, since only `StartRenewal` starts a renewal and only four steps write the file
(`FileWriters`).

`RotatesOnlyRejected` fails where threads share `TOKEN` or lanes run.
`AloneRotatesOnlyRejected` is what is left of it, proved for every process of one
thread without lanes, whatever the other processes are.  Its invariant is
`SentInv`: a request remembers what it has sent.

### Not modelled

Which file is selected and how it moves (`CredentialStore`, section 7); the renewal
of an enrolled worker (`/v1/enrollment/refresh`) and its recovery with an SSH key;
API keys and tokens from the environment, which are never renewed; `nap auth
repair` (`GatewayRegistration` has what both do to `gateway-auth.json`); the other
fields of the credential.

## 5. The installation (run `install`)

* `Installer` - `install_assets()` as run by several processes on one
  `INSTALL_DIR`.  `pc[i]` is a place in `installation_lock()` (`owner`, `unlink`,
  `again`, `pid`) or in the section under it; `link`, `backup`, `release` and
  `current` are the file system.  A release is its files, and a file is the version
  it was published with, so that a download during which another release is
  published, a lost file and an edited one can be told from a whole release.  Every
  file operation is a step, and a process may die before any of them.
* `Service` - `start_service()` and `stop_service()`: the record, the processes that
  were spawned, who listens on a port.  No lock is taken, so each reading of the
  record is a step of its own, and each writing two, for the file is emptied first.
  A command may be killed anywhere, also between `Popen` and the record of the pid.
* `MCLocal` - both, and the batch scheduler of section 3.  They share nothing; a
  behaviour is about one of them (`scene`).

`NeverMixed` says that the active release has every file, each of the version it is
named after.  It does so even when the lock fails; what is excused is a release that
was damaged after it was verified, or while it was in use (`spoiled`).  A release
directory that is already there is verified and never repaired, so that one which was
damaged before is refused.  That every path leads through `current`, and
`NeverDowngrades`, hold while no lock of a running process was unlinked (`stolen`).
That can happen: the lock file is empty between its creation and the write of the
pid, another installer takes an empty file for one left behind, and the `unlink` in
the `finally` of the first then removes the lock of the second.

`RunningIsOnRecord` names the processes that are lost, one by one (`unrecorded`): the
gateway took more than three seconds to answer, the command that was to record it was
killed, or its record was replaced by a command that had not read it.  Each of these
happens in the code, without anything to prevent it.  Every other process is on
record, however the commands overlap.

`LegacyIsKept` (a file of the old layout is moved, never lost) is stated and holds on
the instance of `install` too.

Bounds: three installers (one stale, one working, one that takes the lock in
between), two releases, two paths of which the last is `nap`, one crash, one
damaged file, releases of two files; three commands on two ports.  Not modelled: the
copy of files on Windows, the download itself, the listing of services, a pid that
the system gives out again.

### Proofs

`Local_proofs` proves `NeverMixed`, `NeverDowngrades`, `LegacyIsKept` and
`RunningIsOnRecord` for any number of installers, paths, releases, commands and
ports.  Assumed is that `LinkOrder` lists all paths, of which there is one at least,
and that no installer is called "nobody".

The installer's invariant is in two halves.  `PlacesInv` and `ContentInv` hold
always: a place tells what its process has chosen and how many links it has set, and
from the verification on what it has chosen is whole or was spoiled since, which the
switch hands on to `current`.  `HolderInv`, `ActiveInv` and `LinkedInv` hold until a
lock is stolen: who is in the section is who the lock names, so there is one
(`OneHolder`); hence what it has linked is still linked when it switches, and what it
wants is still not older than what is active.
`LegacyIsKept` rests on it too: who renames a file of the old layout finds it as it
was when it looked, and who sets a link finds that there is no such file any more.

For the gateway's process, `RecordInv`: one that runs and is not among those named
above is on record, or some command is about to record it.  `StartInv` and
`RewriteInv` say what the command that replaces a record knows: a start has seen that
the process of the record it read does not run, and a stop writes "stopped" of none
that does.  So a record is only ever replaced by one that is as good for the process
it named, or by a command that never read it.

## 6. The gateway (run `gateway`)

* `TerminalStream` - from the PTY to the browser and back: the ring and the reader
  thread of `TerminalSession`, `attach()` and `subscribe()`, the buffer and the
  timer of a relay session (`flush_pty_terminal_output`), frames that open, switch
  and close a terminal, `write()` with its sequence number.  A chunk is its
  sequence number, a frame the set of chunks it carries.  The terminal and the
  sequence number that a frame bears (`label`) are those of `pty_output_state`, which
  the last chunk that was appended has set for all that is buffered: a client
  understands of a frame only what belongs to the terminal it names.
* `GatewayVault` - `vault.json`, the machine-local key and what the relay state says
  of remote access, as used by several processes: setup with and without overwrite,
  opening and migration, rotation, the commands that enable and disable remote
  access, `gateway_tmux_configure()`, which enables it twice, and updates of other
  fields.  A key is the pair of a secret and a salt.  The local key is looked for and
  made in two steps.  The relay state is emptied and then written, two steps as well,
  for a reader in between takes it for a state without the setting; a reader of a
  half-written vault fails and changes nothing, so only a kill tears that.
* `GatewaySchedules` - the file of schedules, the loop, the editors.  A cron
  expression is the set of minutes it matches.
* `GatewayRelay` - the lanes, GATEWAY_RELAY_THREADS, a session's handshake and the
  `finally` that ends it.
* `MCGateway` - one of them at a time (`scene`): they share a process, and no
  variable that these operations read.  With `output` one session watches and the
  input stands still; with `input` both sessions send and the output stands still.

| property | what it says | what it exempts, because the code does it |
|---|---|---|
| `NothingElseIsLost` | a watching client gets each chunk after its last one, under the name of its terminal, or is told of the gap | chunks printed between `attach()` and `subscribe()`; a replay withheld while remote access is on; what waits in the buffer when a reader of a terminal that the session has left appends its last chunk |
| `InputIsWrittenOnce` | input that is sent again by the next session runs once | |
| `OnlyStaleWritesLockOut` | the machine-local key, or the passphrase before a migration, opens the vault at every moment | from when a process writes back with the key of before another's rotation, two processes make the machine-local key, or one is killed in the write |
| `DisabledStaysDisabled` | remote access that was disabled stays off until a command enables it (enable, tmux configure, setup) | from when an update is written that has read the file before another process wrote it, or a process is killed while it writes |
| `RunsOncePerMinute` | a planned minute is run once | a restart between the message and the write; an expression without a minute in the next year |
| `DeletedStaysDeleted` | a round does not write a deleted schedule back | |
| `ListedWhileRunning` | no entry is left without a thread, ever; a session has one thread and is listed exactly while it runs | the last two, for a session that two lanes looked up at one moment |

The exemptions of the streams and the vault are what the code does, and no document
promises otherwise, so no run lists them as violations.  They are causes, not
overlaps: two processes may overlap in any way in these runs, and what is excused is
only what has followed from the cause.  Three of them are defects worth repair:

* `write_vault_with_key()` (line 1111) encrypts with `VAULT_KEY` and keeps the salt it
  has just read, so after `nap gateway rotate-passphrase` in another process the next
  `persist_vault_secrets()` of the gateway leaves a vault that no key opens.
* `write_gateway_relay_state()` (line 1194) reads, merges and writes without a lock
  between processes: the update of another field, under way while remote access is
  disabled, enables it again.
* `send_pty_terminal_chunk()` (line 4772) and the flush (lines 4823-4826) take the
  terminal from `pty_output_state`: after a session has switched, the last chunk of
  the earlier terminal's reader relabels what the later terminal has in the buffer.

`MCGateway` stops a behaviour of the vault once such a cause has occurred, as the
properties say nothing from there on.

Bounds: two terminals or processes or editors or lanes, one relay session that is
asked for three times, a ring of one chunk and three chunks (so that the oldest chunk of
the ring, the one before it and the gap all occur), two schedules with three cron
expressions (every minute, a single one, every third) over three minutes with a
`year` of four, one restart.  The three kinds of pairs never meet, so one
permutation (`Alike`) stands for the symmetry of each.

Not modelled: the tmux backend and its polling, window sizes and captures, delays
of the back-off, telemetry; the relay secret, which nothing here reads back, and a
local key from the environment; the rotation gate of an open session, whose mode is
fixed when the session is admitted and which looks at each frame alone, so that a
property of it would repeat its test.

### Proofs

`Gateway_proofs` proves every property of the table for any number of terminals,
sessions, processes, editors and lanes, for rings, files and cron expressions of any
size, and for any number of restarts and kills (`SchedulesSpec`, `RelaySpec`,
`VaultSpec` and `StreamSpec` are the four systems on their own).  Assumed is that
names of different kinds differ: no editor is called as the loop, no timer is a
session or a terminal.

* Streams.  `NothingElseIsLost` follows from `CoverInv`: each chunk of a terminal
  that is owed to a session is with its client, in its buffer, in a flush, in the
  reader's hand, in a reply on its way, or among what is exempted, and where it has a
  label it is that of its terminal.  It is an
  invariant about all places together, for a chunk goes from one to the next.
  `FlushInv` says when a flush carries something, `PlaceInv` what a thread between
  `attach()` and `subscribe()` may assume.  `InputIsWrittenOnce` follows from
  `InputInv`: a number that is about to be written is recorded as the last one and
  two threads never hold the same.
* Vault.  `OpensInv`: until the vault is crossed or two local keys are made, a process
  that is not stale has in memory the key the file is encrypted with, and who is
  between reading and writing has read the salt that is still there.  `DisabledInv`:
  the file says "off" or somebody is writing it, and every update that is not behind
  knows so: it has read "off", or it comes from opening and does not put "on".
* Schedules.  `OnceInv`: a schedule that is on has a next minute, after all it has
  run for; the file says so unless a round is under way, and then its copy does.
  It holds until a restart or until an expression has no minute in the next year
  (`lapsed`).  The proof of `RunsOncePerMinute` turned up how far the second
  exemption reaches: a schedule that is run by hand or switched on without a next
  minute counts too.  `OnlyARestartRepeats` is the theorem without that exemption,
  for expressions that always have a minute ahead.  `GoneInv`: a copy made under
  the lock lacks what was deleted.
* Relay.  An entry always has a thread.  `SessionInv`: a session that no two lanes
  looked up at one moment has one thread, is on the list exactly while it runs, and
  the lane that starts it found neither.

## 7. The project (runs `project`, `migrate`, `closing`)

* `ProjectNodes` - the calls that write nodes: a read of its own, a lease for a
  node, a path or the project, one or many writes, the release.  The client may
  cancel between any two requests, and the server's answer to one may be lost.
  A call writes what it has found: it patches a node or makes a new one, refuses a
  node whose content is encrypted, or only says what it would do.  `log` is the
  history of the writes at the server, with the outcome the node then had.
  The server is external: it grants leases, refuses a write whose precondition does
  not hold, and lets a lease run out.
* `LocalIndex` - the rows of one machine's SQLite index beside the server's nodes.
  A row is the update time of its node.  A rebuild puts rows one by one in a
  transaction while others read the last commit; everything else is one step under
  the index lock.
* `CredentialStore` - the three credential files and the selection, each with its
  lock; `selected()` looks at the files one after the other without a lock.
* `ProjectBootstrap` - creation on first use, `project create`, `init`, `attach`.  A
  worker's slug is that of the folder; a command may be given another one, and takes
  no lock.
* `ProjectSecrets` - the setup request and the versions of the memory secret at the
  server, `MEMORY_SECRET_CACHE`, `ACTIVE_MEMORY_SECRET_VERSIONS` and
  `PROJECT_VAULT_PASSPHRASE` of each process, `encrypt_memory_envelope()` before a
  write and `decrypt_memory_envelope()` after a read.
* `GatewayRegistration` - preregistration, activation, the service loop, renewal
  and `nap gateway repair`.
* `MCProject` - one of them at a time (`scene`); the jobs of the calls are the
  combinations in which something can go wrong (`MCWorks`, `MCIndexJobs`, ...).

| property | what it says | what it exempts |
|---|---|---|
| `LeaseIsReleased` | a call that is over holds no lease | a lost answer to a request about the lease itself |
| `BulkIsNotInterleaved` | nobody writes between two writes of a bulk call or folder move, also when its lease runs out | |
| `PatchOverwritesNothingUnseen` | a guarded patch meets the revision its caller has read | |
| `ClosedPlanHasOutcome` | a plan that a call archives to close it has that outcome in the moment it is archived, through failures, retries and whatever was written before the call looked | another outcome, written by another call between the two writes |
| `RefreshedIsRight` | after a rebuild or synchronization the rows of undisturbed nodes are right | nodes changed before the mark a synchronization starts from |
| `BrowseListsTheUnchanged` | a browse lists an undisturbed node once | |
| `LoginsStayApart` | a login never gets into the file of the other kind | |
| `OneProjectPerFolder` | a clone of a declared project makes no other; whoever gets an answer in a folder gets the same project, and selection and locator never name two | the last two, in a folder that has been given two projects (below) |
| `NeverLockedOut` | a retry goes on: no locator without a selection | a folder that came with a locator, which is refused until it is attached |
| `WrittenUnderActive` | a write is encrypted under a version active when it began, or a later one | disabling encryption |
| `RightKeyIsFound` | a call that got the node finds its key | an envelope left behind by a partial encrypted write after a rotation; an old envelope of a moved node |
| `OnePassphrase` | each version is wrapped with the passphrase of the version before | a version whose own rotation was under way when its process got another passphrase |
| `RegistrationIsWhole` | registration and activation token belong together | a call that is between the two writes; a registration whose own call ended there, until the next |
| `RepairIsKept` | the file keeps the worker of the registration that was put there, or one enrolled for the signing key | a registration that itself replaced the file under a renewal |

`OneProjectPerFolder` assumes no slug.  `nap project create other` beside a worker's
first call, or a second command, gives one folder two projects: the command takes its
slug from its argument (line 9161, 9188) and no bootstrap lock.  `contested` is this
cause: two calls that have passed their looks at the folder are about to give it
different projects, or a command is in a folder with another project selected and no
locator.  Until that happens the property holds with any slugs, and it needs what
`resolve_project_id()` does after it has the lock: without the second look
(`ActsAtOnce`) a worker creates a project of its own after a command has given the
folder another.

What the models show beside the properties: two edits of links or of a card's
metadata lose one (`link_nodes()`, `update_kanban_card()` write back a copy without
a precondition; nothing promises otherwise); a lease of 600 seconds is not renewed
by a long call, which the server then refuses to continue; a node another machine
changed before a local write raised the newest row is not found by a
synchronization, which promises no more than "changed since the latest indexed node
update"; the walk over the cache of
secrets fails when another thread changes it; two repairs share one temporary
file; a rename encrypts nothing and still moves the node's version, after which the
older envelope can no longer be opened.  `gateway_service_run()` is modelled
although no command of this version reaches it.

Finding (`closing`): `plan_lifecycle_update()` (line 12466) records the outcome and
archives the plan in two locked writes, with no lease over both.  Of two calls that
close one plan differently, each can have recorded its outcome before either archives:
`PlanIsClosedAsAsked` is violated, for the first archives the plan with the other's
outcome and reports it with its own.  The tool's description (line 15805) promises to
mark the plan completed, link its outcome and archive it.

Finding (`migrate`): `selected()` (`napseer_credentials.py:157`) finds neither file
while a migration is between writing the one and removing the other, seen from a
reader that looked at the first before it existed: the request carries the general
login although a project login was selected all the time.

Bounds: two calls on two nodes with one lost answer; three calls on two nodes of
the index; three on the credential files; three that bootstrap, with two faults;
three of two processes that use the secret; three that register, with one trouble.
Each pair or triple of jobs is a race that needs exactly that many parties.  Not
modelled: reads, queries and traversal, which change nothing; the ranking of a
search; leases an agent manages itself; the OAuth loop-back of an attach.

### Proofs

`Project_proofs` and, for the index, `Local_proofs` prove every property of the
table for any number of calls, nodes, files, processes, versions, lost answers and
faults.  Each component has its own specification there (`NodesSpec`, `LoginSpec`,
`BootSpec`, `SecretsSpec`, `RegSpec`, `IndexSpec`).

* Nodes.  Leases of two calls do not meet and a call without a locked write has none
  (`LeaseInv`); a call that sweeps the project has the whole of it from its first
  write on, or has lost its lease and gets no other (`BulkInv`).  A call that closes a
  plan is past its first write only when the plan has its outcome, or another call has
  taken that away since the call looked (`CloseInv`, `Recorded`), and what it archives
  is recorded like that (`ArchiveInv`).  Assumed (`WorksAssumption`): a call has the
  nodes its kind needs.
* Credentials.  `CarriedInv`: what a transaction carries belongs to the file it was
  pinned to, however the selection moves meanwhile.
* Folder.  `CloneInv`: a clone has its declared project and no other.  `CallInv`: no
  call writes a locator before there is a selection.  `AgreedInv`, until the folder is
  contested: whoever gives the folder a project finds that one or none in both files,
  so that the selection is set once and what was read of it stays true.
* Encryption.  `KeysInv`: all that is cached, held or stored as an envelope is of a
  version the server has; `ActiveInv`: what is held between check and write is not
  older than the version that was active when the write began; `PhraseInv`: what a
  rotation wraps with is the passphrase that opened the version before, unless its own
  passphrase was changed.
* Registration.  `WholeInv`: who saves both halves holds the credential lock;
  `RenewInv`: one renewal is under way, and it is about what the file holds, unless the
  registration in the file replaced it under that renewal.
* Index.  `UnthreatenedInv` is the heart: nothing that is under way - a listing, a
  rebuild's transaction, a single update - has an older state of a node that nobody
  has changed since the call began.  `TxnInv` says whose transaction it is and
  `RefreshInv` and `BrowseInv` how far a refresh or a browse has got.  The row that
  a synchronization starts from is the newest (`NewestIsATime`), which exists since
  rows are bounded.

Not proved: that versions and numbers stay under the bounds of an instance, which
`SecretsTypeOK` and `RegTypeOK` include for TLC's sake (the theorems have their own
types without bounds, `SecretsTypes` and `RegShape`).

Deadlock is off in `install`, `gateway` and `project`: calls are made once and end.
That no batch gets stuck in the scene "batch" is the theorem `NeverStalls`.

## 8. What is proved and what is not

| module | proved for every value of the constants |
|---|---|
| `McpSystem_proofs` | type correctness, `AtMostOneAnswer` |
| `McpService_proofs` | `AnswersCorrelated`, `WorkIsAccounted`, `RejectedNeverStarts`, `StartedAtMostOnce`, `CurrentIdentityCurrentCode`, `ReloadWaitsForWork`, the refinement of `RequestService` |
| `McpWorkerDirect_proofs` | `QueueIsBounded`, `MutationsAreOrdered`, `AtMostOneLine`, `RefusedNeverStarts`, `CancelledIsSilent` |
| `BatchScheduler_proofs` | type correctness, the four invariants and two action properties of section 3, the refinement of `SerialBatch` |
| `AuthRenewal_proofs` | type correctness and the six properties of section 4 |
| `Local_proofs` | `NeverMixed`, `NeverDowngrades`, `LegacyIsKept`, `RunningIsOnRecord`, `RefreshedIsRight`, `BrowseListsTheUnchanged` |
| `Gateway_proofs` | the seven properties of section 6 and `OnlyARestartRepeats` |
| `Project_proofs` | the properties of section 7 about nodes, credentials, folders, encryption and registration |

So each invariant, each action property and each refinement that a passing run
checks is also a theorem.  The runs keep their use: they show that the properties
are not vacuous (an instance reaches the interesting cases, and a mutated definition
breaks each property), and they found most of what the invariants had to say.

Only model-checked, and why:

* Liveness - `EveryRequestSettles`, `ShutdownEnds`, `EndOfInputEnds` in the runs, and
  `SlotsAreFreed`, `AdmittedIsSettled`, `BatchEnds`, `OperationsEnd` which are stated
  - since it rests on fairness, and so on ENABLED, which this prover does not handle.
* The type invariants `SecretsTypeOK` and `RegTypeOK`, as far as they state bounds of
  an instance.
* The violations: a theorem does not hold of what a run refutes.  Where the code
  keeps a weaker promise it is proved (`AloneRotatesOnlyRejected`,
  `OnlyARestartRepeats`, `CurrentIdentityCurrentCode` for a source without rollback).

Worth proving next: the safety that the liveness properties rest on - that a thread
which waits has somebody to wake it (every registered request has a waiter, a timer
or a process), the absence of deadlock of the lifecycle lock - and
`CancelledGetsNoResult` and `ResultMeansStarted` as theorems in their own words.

Not modelled at all: the local web page, tool schemas and contract text, parsing of
arguments, telemetry (nothing that several actors share); the SPAKE2 primitives
(arithmetic on large integers, outside TLC's reach); signal handlers.
