------------------------------ MODULE Service -------------------------------
(***************************************************************************)
(* start_service() and stop_service() of nap_install.py: the gateway of a  *)
(* folder is a process of its own, known by a record of its pid and port.  *)
(* The commands that read and write the record take no lock, and each may  *)
(* be killed.  A pid is the command that spawned the process, so none is   *)
(* used twice.                                                             *)
(***************************************************************************)
EXTENDS Naturals

CONSTANTS
    Command,    \* `nap gateway start` and `stop`, each run once
    Port        \* ports of 127.0.0.1

VARIABLES
    record,     \* gateway.json; NoRecord: it is not there, empty or cut off
    daemon,     \* the process that a command spawned
    held,       \* who listens on a port: "nobody", "other", or a command's process
    place,      \* where a command is
    chosen,     \* the port it has chosen
    seen,       \* the record that it read, and then the one it writes
    unrecorded  \* history: the processes that were left without a record

serviceVars == <<record, daemon, held, place, chosen, seen, unrecorded>>

NoRecord == [pid |-> "none"]
Record == [pid : Command, port : Port, status : {"running", "stopped", "stopping"}]

Waiting == {"check", "wait", "write", "signal", "confirm", "rewrite"}

ServiceTypeOK ==
    /\ record \in Record \cup {NoRecord}
    /\ daemon \in [Command -> {"none", "booting", "serving", "dead"}]
    /\ held \in [Port -> Command \cup {"nobody", "other"}]
    /\ place \in [Command -> {"idle", "done", "failed"} \cup Waiting]
    /\ chosen \in [Command -> Port]
    /\ seen \in [Command -> Record \cup {NoRecord}]
    /\ unrecorded \subseteq Command

ServiceInit ==
    /\ record = NoRecord
    /\ daemon = [c \in Command |-> "none"]
    /\ held \in [Port -> {"nobody", "other"}]
    /\ place = [c \in Command |-> "idle"]
    /\ chosen \in [Command -> Port]
    /\ seen = [c \in Command |-> NoRecord]
    /\ unrecorded = {}

\* pid_running().
Running(state) == state # NoRecord /\ daemon[state.pid] \in {"booting", "serving"}

\* port_can_bind().
CanBind(p) == held[p] = "nobody"

\* read_service_state() is the first thing both commands do.
Begin(c, next) ==
    /\ place[c] = "idle"
    /\ place' = [place EXCEPT ![c] = next]
    /\ seen' = [seen EXCEPT ![c] = record]

Continue(c, at, next) ==
    /\ place[c] = at
    /\ place' = [place EXCEPT ![c] = next]

\* write_service_state() empties the file and then writes it: to those who read it
\* in between there is no record.  The process of a record that is replaced by a
\* command which never read it is left without one.
Orphaned(c) ==
    IF record # NoRecord /\ (seen[c] = NoRecord \/ record.pid # seen[c].pid)
      THEN {record.pid} ELSE {}

Truncate(c, at, new) ==
    /\ Continue(c, at, "rewrite")
    /\ record' = NoRecord
    /\ seen' = [seen EXCEPT ![c] = new]
    /\ unrecorded' = unrecorded \cup Orphaned(c)

Write(c) ==
    /\ Continue(c, "rewrite", "done")
    /\ record' = seen[c]
    /\ unrecorded' = unrecorded \cup Orphaned(c)
    /\ UNCHANGED <<daemon, held, chosen, seen>>

\* The process that a command under way is about to put on record.
Recording(c) ==
    IF place[c] \in {"wait", "write"} THEN {c}
    ELSE IF place[c] = "rewrite" THEN {seen[c].pid} ELSE {}

\* Frees the ports of a process that ends.
Released(c) == [p \in Port |-> IF held[p] = c THEN "nobody" ELSE held[p]]

-----------------------------------------------------------------------------
(* start_service().                                                        *)

\* Mutant: the record counts only while it says "running".
NeverRunning(state) == FALSE

AlreadyRunning(state) == Running(state)

\* choose_service_port(): --port, the port of the last time, or a free one.
PortChoices ==
    IF record # NoRecord /\ CanBind(record.port)
      THEN {record.port} ELSE {p \in Port : CanBind(p)}

Start(c) ==
    /\ \/ AlreadyRunning(record) /\ Begin(c, "done") /\ UNCHANGED chosen
       \/ /\ ~AlreadyRunning(record) /\ Begin(c, "check")
          /\ \E p \in PortChoices \cup {chosen[c]} : chosen' = [chosen EXCEPT ![c] = p]
    /\ UNCHANGED <<record, daemon, held, unrecorded>>

\* ensure_port_available(), then Popen.
Spawn(c) ==
    /\ CanBind(chosen[c]) /\ Continue(c, "check", "wait")
    /\ daemon' = [daemon EXCEPT ![c] = "booting"]
    /\ UNCHANGED <<record, held, chosen, seen, unrecorded>>

PortTaken(c) ==
    /\ ~CanBind(chosen[c]) /\ Continue(c, "check", "failed")
    /\ UNCHANGED <<record, daemon, held, chosen, seen, unrecorded>>

\* wait_for_service(): some gateway answers on the port ...
Answered(c) ==
    /\ daemon[c] # "dead" /\ held[chosen[c]] \in Command
    /\ Continue(c, "wait", "write")
    /\ UNCHANGED <<record, daemon, held, chosen, seen, unrecorded>>

\* ... or the process has exited ...
Exited(c) ==
    /\ daemon[c] = "dead" /\ Continue(c, "wait", "failed")
    /\ UNCHANGED <<record, daemon, held, chosen, seen, unrecorded>>

\* ... or three seconds are over, and the process is left to itself.
TooSlow(c) ==
    /\ Continue(c, "wait", "failed")
    /\ unrecorded' = unrecorded \cup {c}
    /\ UNCHANGED <<record, daemon, held, chosen, seen>>

WriteRecord(c) ==
    /\ Truncate(c, "write", [pid |-> c, port |-> chosen[c], status |-> "running"])
    /\ UNCHANGED <<daemon, held, chosen>>

-----------------------------------------------------------------------------
(* stop_service().                                                         *)

Stop(c) ==
    /\ Begin(c, IF record = NoRecord THEN "done" ELSE "signal")
    /\ UNCHANGED <<record, daemon, held, chosen, unrecorded>>

\* SIGTERM, then SIGKILL to the process group; a process may survive both for
\* longer than stop_service() waits.
Signal(c) ==
    /\ Continue(c, "signal", "confirm")
    /\ IF Running(seen[c])
         THEN \/ /\ daemon' = [daemon EXCEPT ![seen[c].pid] = "dead"]
                 /\ held' = Released(seen[c].pid)
              \/ UNCHANGED <<daemon, held>>
         ELSE UNCHANGED <<daemon, held>>
    /\ UNCHANGED <<record, chosen, seen, unrecorded>>

IsStopped(state) == ~Running(state) /\ CanBind(state.port)

Confirm(c) ==
    /\ Truncate(c, "confirm", [seen[c] EXCEPT !.status = IF IsStopped(seen[c]) THEN "stopped" ELSE "stopping"])
    /\ UNCHANGED <<daemon, held, chosen>>

\* The command is killed; the process it has spawned is in a session of its own.
Kill(c) ==
    /\ place[c] \in Waiting
    /\ place' = [place EXCEPT ![c] = "failed"]
    /\ unrecorded' = unrecorded \cup Recording(c)
    /\ UNCHANGED <<record, daemon, held, chosen, seen>>

-----------------------------------------------------------------------------
(* The gateway process and other programs.                                 *)

Listen(c) ==
    /\ daemon[c] = "booting"
    /\ IF CanBind(chosen[c])
         THEN /\ held' = [held EXCEPT ![chosen[c]] = c]
              /\ daemon' = [daemon EXCEPT ![c] = "serving"]
         ELSE daemon' = [daemon EXCEPT ![c] = "dead"] /\ UNCHANGED held
    /\ UNCHANGED <<record, place, chosen, seen, unrecorded>>

Die(c) ==
    /\ daemon[c] \in {"booting", "serving"}
    /\ daemon' = [daemon EXCEPT ![c] = "dead"]
    /\ held' = Released(c)
    /\ UNCHANGED <<record, place, chosen, seen, unrecorded>>

OtherListens(p) ==
    /\ CanBind(p)
    /\ held' = [held EXCEPT ![p] = "other"]
    /\ UNCHANGED <<record, daemon, place, chosen, seen, unrecorded>>

ServiceNext ==
    \/ \E c \in Command :
          \/ Start(c) \/ Spawn(c) \/ PortTaken(c) \/ Answered(c) \/ Exited(c)
          \/ TooSlow(c) \/ WriteRecord(c)
          \/ Stop(c) \/ Signal(c) \/ Confirm(c) \/ Write(c) \/ Kill(c)
          \/ Listen(c) \/ Die(c)
    \/ \E p \in Port : OtherListens(p)

ServiceSpec == ServiceInit /\ [][ServiceNext]_serviceVars

-----------------------------------------------------------------------------
(* Properties.                                                             *)

\* A gateway process that runs is on record as one that may run, unless a command
\* is about to record it: the next stop finds it, and the next start does not make
\* a second one, however the commands overlap.  A process is left without a record
\* in three ways only: its startup outlasts the three seconds, the command that
\* was to record it is killed, or its record is replaced by a command that read
\* an earlier one.
RunningIsOnRecord ==
    \A c \in Command \ unrecorded :
        (daemon[c] \in {"booting", "serving"} /\ \A d \in Command : c \notin Recording(d)) =>
            record # NoRecord /\ record.pid = c /\ record.status # "stopped"
=============================================================================
