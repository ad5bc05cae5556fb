------------------------------ MODULE MCLocal -------------------------------
(* Small instances for TLC of what runs on the user's machine without the  *)
(* service: the installer, the commands that manage the gateway process,   *)
(* and the scheduler of nap_batch.  They share no state, so a behaviour is *)
(* about one of them.                                                      *)
EXTENDS Installer, Service, BatchScheduler, TLC

CONSTANTS nap, server, p1, b1

\* Two paths: the server's, and `nap` itself, which is linked last.
TwoPaths == <<server, nap>>

VARIABLE scene

\* Every graph over three actions, with every policy.
AllPlans ==
    [mutations : SUBSET (1 .. 3), deps : [1 .. 3 -> SUBSET (1 .. 3)],
     policy : Policy, parallel : 1 .. 2]

\* A plan that nothing of can run.
NoBatch == [mutations |-> {}, deps |-> [i \in 1 .. 3 |-> {i}], policy |-> "default", parallel |-> 1]

\* What a scene is not about begins in one state.
MCInit ==
    /\ scene \in {"install", "service", "batch"}
    /\ scene # "batch" => plan = [b \in Batch |-> NoBatch]
    /\ InstallerInit /\ ServiceInit /\ Init
    /\ scene # "service" => held = [p \in Port |-> "nobody"] /\ chosen = [c \in Command |-> p1]
    /\ scene # "install" => current = 1

MCNext ==
    /\ \/ scene = "install" /\ InstallerNext /\ UNCHANGED <<serviceVars, vars>>
       \/ scene = "service" /\ ServiceNext /\ UNCHANGED <<installerVars, vars>>
       \/ scene = "batch" /\ Next /\ UNCHANGED <<installerVars, serviceVars>>
    /\ UNCHANGED scene

MCSpec == MCInit /\ [][MCNext]_<<installerVars, serviceVars, vars, scene>>

Symmetry == Permutations(Installer) \cup Permutations(Command)

=============================================================================
