---------------------------- MODULE SerialBatch -----------------------------
(***************************************************************************)
(* What nap_batch promises about a batch: its actions take effect in       *)
(* waves, one after the other.  A wave is one mutation, or at most         *)
(* parallel reads; a mutation is a wave after everything before it in the  *)
(* array and before everything after it.  An action runs at most once,     *)
(* only when the actions it depends on have succeeded, and under           *)
(* stop_on_error never after a wave that failed.                           *)
(***************************************************************************)
EXTENDS Naturals, FiniteSets

CONSTANTS
    Batch,        \* the batches
    Action        \* positions in the array of a batch

VARIABLES
    plan,         \* plan[b]: its mutations, dependencies, policy and parallel
    outcome       \* outcome[b][i]: "open", "succeeded", "failed" or "skipped"

Over(b, i) == outcome[b][i] # "open"

Stopped(b) == plan[b].stop /\ \E i \in Action : outcome[b][i] = "failed"

SerialInit == outcome = [b \in Batch |-> [i \in Action |-> "open"]]

Becomes(b, S, result) ==
    outcome' = [outcome EXCEPT ![b] =
                   [i \in Action |-> IF i \in S THEN result[i] ELSE @[i]]]

\* The actions of S run, and each of them succeeds or fails.
Wave(b, S) ==
    /\ ~Stopped(b)
    /\ \A i \in S :
          /\ ~Over(b, i)
          /\ \A d \in plan[b].deps[i] : outcome[b][d] = "succeeded"
          /\ \A m \in plan[b].mutations : m < i => Over(b, m)
    /\ \/ S \cap plan[b].mutations = {} /\ Cardinality(S) <= plan[b].parallel
       \/ \E m \in plan[b].mutations :
              S = {m} /\ \A i \in Action : i < m => Over(b, i)
    /\ \E result \in [S -> {"succeeded", "failed"}] : Becomes(b, S, result)

\* The actions of S will not run: the batch has stopped, or an action they
\* depend on has failed or is skipped with them.
Skip(b, S) ==
    /\ \A i \in S :
          /\ ~Over(b, i)
          /\ \/ Stopped(b)
             \/ \E d \in plan[b].deps[i] :
                    outcome[b][d] \in {"failed", "skipped"} \/ (d \in S /\ d < i)
    /\ Becomes(b, S, [i \in S |-> "skipped"])

\* What a step settles of a batch.
Settling(b) == {i \in Action : outcome'[b][i] # outcome[b][i]}

SerialNext ==
    \E b \in Batch :
        /\ Settling(b) # {}
        /\ Wave(b, Settling(b)) \/ Skip(b, Settling(b))
        /\ UNCHANGED plan

Serial == SerialInit /\ [][SerialNext]_<<plan, outcome>>
=============================================================================
