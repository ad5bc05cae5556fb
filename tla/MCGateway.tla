------------------------------ MODULE MCGateway -------------------------------
(* The parts of the gateway that share nothing but their process, one after   *)
(* another: the scene says which of them a behaviour is about, and the others *)
(* stay as they begin.                                                        *)
EXTENDS TerminalStream, GatewayVault, GatewaySchedules, GatewayRelay, TLC

VARIABLE scene

CONSTANTS Scenes, Watcher

Crons3 == {0 .. 12, {1}, {m \in 0 .. 12 : m % 3 = 2}}

GatewayInit ==
    /\ scene \in Scenes
    /\ StreamInit /\ VaultInit /\ SchedulesInit /\ RelayInit
    /\ scene # "output" /\ scene # "input" => tty = [t \in Terminal |-> "absent"]
    /\ scene \notin {"vault", "access"} => vault = NoVault
    /\ scene # "schedules" => ~missing
    /\ scene # "relay" => ~enabled

\* Output is watched by one session; input is sent by all of them.
Streams ==
    \/ /\ scene = "output" /\ StreamNext
       /\ UNCHANGED lastInput
       /\ \A s \in Session \ {Watcher} : UNCHANGED <<at[s], dead[s], frames[s]>>
    \/ scene = "input" /\ StreamNext /\ UNCHANGED <<output, remote>>

\* The vault is written with new salts, or its relay state by commands, for as
\* long as neither has gone wrong in a way that a property excuses.
Vaults ==
    \/ scene = "vault" /\ VaultNext /\ UNCHANGED updates /\ ~crossed /\ ~twoKeys
    \/ scene = "access" /\ VaultNext /\ UNCHANGED salts /\ ~lost

GatewayNext ==
    /\ UNCHANGED scene
    /\ \/ Streams /\ UNCHANGED <<vaultVars, scheduleVars, relayVars>>
       \/ Vaults /\ UNCHANGED <<streamVars, scheduleVars, relayVars>>
       \/ scene = "schedules" /\ SchedulesNext /\ UNCHANGED <<streamVars, vaultVars, relayVars>>
       \/ scene = "relay" /\ RelayNext /\ UNCHANGED <<streamVars, vaultVars, scheduleVars>>

GatewaySpec == GatewayInit /\ [][GatewayNext]_<<scene, streamVars, vaultVars, scheduleVars, relayVars>>

TypeOK == StreamTypeOK /\ VaultTypeOK /\ SchedulesTypeOK /\ RelayTypeOK

\* One pair of names serves the terminals, the processes and the editors, which
\* never meet: one permutation then stands for the symmetry of each.
Alike == Permutations(Terminal)
===============================================================================
