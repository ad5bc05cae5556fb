--------------------------- MODULE MCAuthRenewal ----------------------------
(* Small instances of AuthRenewal for TLC.                                 *)
EXTENDS AuthRenewal

CONSTANTS worker, command, t1, t2, t3

\* Two threads of one worker, and a command.
WorkerAndCommand == [t \in {t1, t2, t3} |-> IF t = t3 THEN command ELSE worker]

\* Requests, saves and a login of a worker beside a command that logs out.
Mixed == [t \in {t1, t2, t3} |->
             CASE t = t1 -> {"request"}
               [] t = t2 -> {"request", "save", "login"}
               [] t = t3 -> {"request", "logout"}]

\* Two threads of one worker.
Worker == [t \in {t1, t2} |-> worker]

Requests == [t \in {t1, t2} |-> {"request"}]

Lanes == [t \in {t1, t2} |-> {"lane"}]
=============================================================================
