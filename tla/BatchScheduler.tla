--------------------------- MODULE BatchScheduler ---------------------------
(***************************************************************************)
(* nap_batch: execute_batch() of napseer_mcp_server.py, run by several MCP *)
(* requests at a time.  They share MCP_MUTATION_LOCK and the threads of    *)
(* MCP_BATCH_READ_EXECUTOR; each may be cancelled at any point.            *)
(*                                                                         *)
(* A batch is an array of actions; an action is its position.  validate    *)
(* looks at the fields of the actions too: here a batch has passed those   *)
(* checks, and what is left is its dependency graph.                       *)
(***************************************************************************)
EXTENDS Naturals, Sequences, FiniteSets

CONSTANTS
    Batch,        \* requests that call nap_batch
    Size,         \* actions in a batch
    Plan,         \* the batches a client may send
    MaxThreads    \* MCP_BATCH_MAX_PARALLEL

Action == 1 .. Size

Policy == {"default", "stop_on_error", "continue_on_error", "dry_run"}

ASSUME BatchAssumption ==
    /\ Size \in Nat
    /\ MaxThreads \in Nat \ {0}
    /\ Plan \subseteq [mutations : SUBSET Action,
                       deps      : [Action -> SUBSET Action],
                       policy    : Policy,
                       parallel  : 1 .. MaxThreads]

VARIABLES
    plan,         \* the validated arguments of a batch
    stage,        \* where the thread that executes the batch is
    selected,     \* selected, selected_reads: what it runs now
    status,       \* an action's future, then its entry in results_by_id
    queue,        \* the executor's queue of reads, as <<batch, action>>
    cancelled     \* the request's cancelled event

vars == <<plan, stage, selected, status, queue, cancelled>>

\* Where a batch is: in validate_batch(); at the top of the loop; before the
\* two cancellation checks of a mutation; running it; submitting reads;
\* waiting for them.  It ends with an error before anything ran ("invalid"),
\* with its results ("done"), or with request_cancelled ("raised").  That it
\* never ends with batch_scheduler_stalled is the property NeverStalls.
BatchPC == {"validate", "loop", "mutate", "locking", "effect", "submit",
            "collect", "invalid", "done", "raised"}

Ended == {"invalid", "done", "raised"}

\* queued, running: with the executor (a mutation: run by the batch itself);
\* ok, error: the future is done, and not collected yet.
Status == {"pending", "queued", "running", "ok", "error", "succeeded",
           "failed", "skipped", "planned"}

TypeOK ==
    /\ plan \in [Batch -> Plan]
    /\ stage \in [Batch -> BatchPC]
    /\ selected \in [Batch -> SUBSET Action]
    /\ status \in [Batch -> [Action -> Status]]
    /\ queue \in Seq(Batch \X Action)
    /\ cancelled \in [Batch -> BOOLEAN]

Init ==
    /\ plan \in [Batch -> Plan]
    /\ stage = [b \in Batch |-> "validate"]
    /\ selected = [b \in Batch |-> {}]
    /\ status = [b \in Batch |-> [i \in Action |-> "pending"]]
    /\ queue = <<>>
    /\ cancelled = [b \in Batch |-> FALSE]

-----------------------------------------------------------------------------
(* The plan: _batch_order_predecessors() and validate_batch().             *)

\* Mutant: a mutation waits for what is before it, but nothing for it.
OneSidedBarriers(p, i) == IF i \in p.mutations THEN 1 .. i - 1 ELSE {}

\* What an action comes after because a mutation is a barrier in the array.
OrderPredecessors(p, i) ==
    IF i \in p.mutations THEN 1 .. i - 1 ELSE {m \in p.mutations : m < i}

\* Mutant: the cycle check does not know the barriers.
DependenciesOnly(p, i) == p.deps[i]

\* The edges of the graph that is checked.
Predecessors(p, i) == p.deps[i] \cup OrderPredecessors(p, i)

\* Mutant: one round too few.
Rounds == Size - 1

\* Rounds after which every action of an acyclic graph has been visited.
EnoughRounds == Size

\* The actions visited after k rounds, when those whose predecessors are all
\* visited are taken off the graph again and again.
Visited(p) ==
    LET after[k \in Nat] ==
            IF k = 0 THEN {}
            ELSE {i \in Action : Predecessors(p, i) \subseteq after[k - 1]}
    IN  after[EnoughRounds]

Acyclic(p) == Visited(p) = Action

\* normalize_failure_policy() with the batch's default.
StopOnError(p) ==
    \/ p.policy = "stop_on_error"
    \/ p.policy = "default" /\ p.mutations # {}

Validate(b) ==
    /\ stage[b] = "validate"
    /\ stage' = [stage EXCEPT ![b] = IF ~Acyclic(plan[b]) THEN "invalid"
                               ELSE IF plan[b].policy = "dry_run" THEN "done"
                               ELSE "loop"]
    /\ status' = IF Acyclic(plan[b]) /\ plan[b].policy = "dry_run"
                 THEN [status EXCEPT ![b] = [i \in Action |-> "planned"]]
                 ELSE status
    /\ UNCHANGED <<plan, selected, queue, cancelled>>

-----------------------------------------------------------------------------
(* The loop of execute_batch().                                            *)

Pending(b) == {i \in Action : status[b][i] = "pending"}

InResults(b, i) == status[b][i] \in {"succeeded", "failed", "skipped"}

\* Mutant: only a mutation that fails stops the batch.
StoppedByMutation(b) ==
    StopOnError(plan[b]) /\ \E i \in plan[b].mutations : status[b][i] = "failed"

\* stopped_at is not None.
Stopped(b) ==
    StopOnError(plan[b]) /\ \E i \in Action : status[b][i] = "failed"

\* The loop goes on with a pass over the pending actions.
Looping(b) ==
    /\ stage[b] = "loop"
    /\ Pending(b) # {}
    /\ ~cancelled[b]
    /\ ~Stopped(b)

\* One pass in array order: what it skips may depend on what it has skipped.
SkippedInPass(b) ==
    LET skips[i \in Action] ==
            \E d \in plan[b].deps[i] :
                \/ status[b][d] \in {"failed", "skipped"}
                \/ d < i /\ d \in Pending(b) /\ skips[d]
    IN  {i \in Pending(b) : skips[i]}

\* The status of the actions of S becomes value.
Settle(b, S, value) ==
    status' = [status EXCEPT ![b] = [i \in Action |-> IF i \in S THEN value ELSE @[i]]]

SkipDependents(b) ==
    /\ Looping(b)
    /\ SkippedInPass(b) # {}
    /\ Settle(b, SkippedInPass(b), "skipped")
    /\ UNCHANGED <<plan, stage, selected, queue, cancelled>>

SkipRest(b) ==
    /\ stage[b] = "loop"
    /\ ~cancelled[b]
    /\ Stopped(b)
    /\ Pending(b) # {}
    /\ Settle(b, Pending(b), "skipped")
    /\ UNCHANGED <<plan, stage, selected, queue, cancelled>>

\* The loop is left; the results are returned, cancelled or not.
Finish(b) ==
    /\ stage[b] = "loop"
    /\ Pending(b) = {}
    /\ stage' = [stage EXCEPT ![b] = "done"]
    /\ UNCHANGED <<plan, selected, status, queue, cancelled>>

RaiseCancelled(b) ==
    /\ stage[b] = "loop"
    /\ Pending(b) # {}
    /\ cancelled[b]
    /\ stage' = [stage EXCEPT ![b] = "raised"]
    /\ UNCHANGED <<plan, selected, status, queue, cancelled>>

Ready(b) ==
    {i \in Pending(b) :
        \A d \in plan[b].deps[i] \cup OrderPredecessors(plan[b], i) : InResults(b, d)}

ReadyMutations(b) == Ready(b) \cap plan[b].mutations

\* ready[:max_parallel]
FirstReads(b) ==
    {i \in Ready(b) : Cardinality({j \in Ready(b) : j < i}) < plan[b].parallel}

\* Selecting leaves the loop for the place next.
Select(b, S, next) ==
    /\ selected' = [selected EXCEPT ![b] = S]
    /\ stage' = [stage EXCEPT ![b] = next]
    /\ UNCHANGED <<plan, status, queue, cancelled>>

SelectMutation(b) ==
    /\ Looping(b)
    /\ SkippedInPass(b) = {}
    /\ \E m \in ReadyMutations(b) :
          /\ \A n \in ReadyMutations(b) : m <= n
          /\ Select(b, {m}, "mutate")

SelectReads(b) ==
    /\ Looping(b)
    /\ SkippedInPass(b) = {}
    /\ ReadyMutations(b) = {}
    /\ Ready(b) # {}
    /\ Select(b, FirstReads(b), "submit")

-----------------------------------------------------------------------------
(* A mutation: _call_batch_action() in the thread of the batch.            *)

\* MCP_MUTATION_LOCK is held exactly while a mutation runs.
MutationLockFree == \A b \in Batch : stage[b] # "effect"

\* The action ends with a status; the thread of the batch goes on.
EndMutation(b, value) ==
    /\ Settle(b, selected[b], value)
    /\ stage' = [stage EXCEPT ![b] = "loop"]
    /\ selected' = [selected EXCEPT ![b] = {}]
    /\ UNCHANGED <<plan, queue, cancelled>>

\* The check before the lock.
CheckMutation(b) ==
    /\ stage[b] = "mutate"
    /\ \/ /\ cancelled[b]
          /\ EndMutation(b, "failed")
       \/ /\ ~cancelled[b]
          /\ stage' = [stage EXCEPT ![b] = "locking"]
          /\ UNCHANGED <<plan, selected, status, queue, cancelled>>

\* Mutant: no check after the wait for the lock.
LockUnchecked(b) ==
    /\ stage[b] = "locking"
    /\ MutationLockFree
    /\ stage' = [stage EXCEPT ![b] = "effect"]
    /\ Settle(b, selected[b], "running")
    /\ UNCHANGED <<plan, selected, queue, cancelled>>

\* The lock is taken, and the cancellation checked once more.
Lock(b) ==
    /\ stage[b] = "locking"
    /\ MutationLockFree
    /\ \/ /\ cancelled[b]
          /\ EndMutation(b, "failed")
       \/ /\ ~cancelled[b]
          /\ stage' = [stage EXCEPT ![b] = "effect"]
          /\ Settle(b, selected[b], "running")
          /\ UNCHANGED <<plan, selected, queue, cancelled>>

\* call_tool_impl() returns or raises.
Return(b) ==
    /\ stage[b] = "effect"
    /\ \E value \in {"succeeded", "failed"} : EndMutation(b, value)

-----------------------------------------------------------------------------
(* A group of reads: submitted one by one, run by the executor's threads,  *)
(* and all of them awaited.                                                *)

Unsubmitted(b) == {i \in selected[b] : status[b][i] = "pending"}

Submit(b) ==
    /\ stage[b] = "submit"
    /\ \E i \in Unsubmitted(b) :
          /\ \A j \in Unsubmitted(b) : i <= j
          /\ queue' = Append(queue, <<b, i>>)
          /\ Settle(b, {i}, "queued")
    /\ UNCHANGED <<plan, stage, selected, cancelled>>

Submitted(b) ==
    /\ stage[b] = "submit"
    /\ Unsubmitted(b) = {}
    /\ stage' = [stage EXCEPT ![b] = "collect"]
    /\ UNCHANGED <<plan, selected, status, queue, cancelled>>

\* The reads that executor threads run.
RunningReads ==
    {r \in Batch \X Action :
        status[r[1]][r[2]] = "running" /\ r[2] \notin plan[r[1]].mutations}

\* A read of a cancelled batch ends before its tool is called.
Tried(b) == IF cancelled[b] THEN "error" ELSE "running"

\* A thread of the executor takes the next read.
TakeRead(b, i) ==
    /\ queue # <<>>
    /\ Head(queue) = <<b, i>>
    /\ Cardinality(RunningReads) < MaxThreads
    /\ queue' = Tail(queue)
    /\ Settle(b, {i}, Tried(b))
    /\ UNCHANGED <<plan, stage, selected, cancelled>>

EndRead(b, i) ==
    /\ <<b, i>> \in RunningReads
    /\ \E value \in {"ok", "error"} : Settle(b, {i}, value)
    /\ UNCHANGED <<plan, stage, selected, queue, cancelled>>

\* Mutant: a cancelled batch does not wait for its reads.
SomeUncollected(b) ==
    ~cancelled[b] /\ \E i \in selected[b] : status[b][i] \in {"queued", "running"}

\* as_completed() has not come to its end.
Outstanding(b) == \E i \in selected[b] : status[b][i] \in {"queued", "running"}

\* Mutant: the exception of a read itself is its result.
ExceptionFor(future) ==
    CASE future = "ok"    -> "succeeded"
      [] future = "error" -> "exception"
      [] OTHER            -> future

ResultFor(future) ==
    CASE future = "ok"    -> "succeeded"
      [] future = "error" -> "failed"
      [] OTHER            -> future

\* All results of the group are in; then the cancellation is checked.
Collect(b) ==
    /\ stage[b] = "collect"
    /\ ~Outstanding(b)
    /\ status' = [status EXCEPT ![b] = [i \in Action |-> ResultFor(@[i])]]
    /\ selected' = [selected EXCEPT ![b] = {}]
    /\ stage' = [stage EXCEPT ![b] = IF cancelled[b] THEN "raised" ELSE "loop"]
    /\ UNCHANGED <<plan, queue, cancelled>>

-----------------------------------------------------------------------------
Cancel(b) ==
    /\ stage[b] \notin Ended
    /\ cancelled' = [cancelled EXCEPT ![b] = TRUE]
    /\ UNCHANGED <<plan, stage, selected, status, queue>>

BatchStep(b) ==
    \/ Validate(b)
    \/ SkipDependents(b) \/ SkipRest(b) \/ Finish(b) \/ RaiseCancelled(b)
    \/ SelectMutation(b) \/ SelectReads(b)
    \/ CheckMutation(b) \/ Lock(b) \/ Return(b)
    \/ Submit(b) \/ Submitted(b) \/ Collect(b)

ReadStep(b, i) == TakeRead(b, i) \/ EndRead(b, i)

AllEnded == (\A b \in Batch : stage[b] \in Ended) /\ UNCHANGED vars

Next ==
    \/ \E b \in Batch : BatchStep(b)
    \/ \E b \in Batch, i \in Action : ReadStep(b, i)
    \/ \E b \in Batch : Cancel(b)
    \/ AllEnded

Spec == Init /\ [][Next]_vars

\* The threads run, and every tool call returns: each request it sends has a
\* timeout (HTTP_TIMEOUT_SECONDS).  The lock need not be fair: a batch has
\* finitely many mutations.
Fairness ==
    /\ \A b \in Batch : WF_vars(BatchStep(b))
    /\ \A b \in Batch, i \in Action : WF_vars(ReadStep(b, i))

FairSpec == Spec /\ Fairness

-----------------------------------------------------------------------------
(* Properties.                                                             *)

\* test_mcp_batch.py: "test_mutation_is_an_exclusive_array_order_barrier".
\* While a mutation runs, no other action of its batch is with the executor,
\* and no mutation of another batch runs.
MutationIsExclusive ==
    \A b \in Batch : \A m \in plan[b].mutations :
        status[b][m] = "running" =>
            /\ \A i \in Action \ {m} : status[b][i] \notin {"queued", "running", "ok", "error"}
            /\ \A c \in Batch \ {b} : \A n \in plan[c].mutations : status[c][n] # "running"

\* An action starts when every mutation before it has its result and no
\* mutation after it has run: a read sees the project as the array says.
StartsInArrayOrder ==
    [][\A b \in Batch, i \in Action :
          (status[b][i] # "running" /\ status'[b][i] = "running") =>
              \A m \in plan[b].mutations \ {i} :
                  IF m < i THEN InResults(b, m) ELSE status[b][m] \in {"pending", "skipped"}]_vars

\* The scheduler never gets stuck with a graph that validation accepted: the
\* condition of its "batch_scheduler_stalled" error never holds.
NeverStalls ==
    \A b \in Batch : Looping(b) /\ SkippedInPass(b) = {} => Ready(b) # {}

\* A cycle: each action of S comes after another one of S.
HasCycle(p) ==
    \E S \in (SUBSET Action) \ {{}} : \A i \in S : Predecessors(p, i) \cap S # {}

\* "conflict with each other or with mutation barriers": exactly the plans
\* with a cycle are refused.
RefusesExactlyCycles ==
    \A b \in Batch : stage[b] # "validate" => (stage[b] = "invalid" <=> HasCycle(plan[b]))

\* A cancelled batch starts no mutation any more, however long it has waited
\* for the lock.
NoMutationOnceCancelled ==
    [][\A b \in Batch : \A m \in plan[b].mutations :
          (status[b][m] # "running" /\ status'[b][m] = "running") => ~cancelled[b]]_vars

\* When a batch has ended, with whatever outcome, none of its actions is
\* left with the executor.
NothingOutlivesTheBatch ==
    \A b \in Batch : stage[b] \in Ended =>
        \A i \in Action : status[b][i] \notin {"queued", "running"}

\* Every batch ends.
BatchEnds == \A b \in Batch : <>(stage[b] \in Ended)

-----------------------------------------------------------------------------
(* A batch is executed as SerialBatch promises.                            *)

ViewOf(s) == IF s \in {"succeeded", "failed", "skipped"} THEN s ELSE "open"

Promise == INSTANCE SerialBatch WITH
    plan    <- [b \in Batch |-> [mutations |-> plan[b].mutations,
                                 deps      |-> plan[b].deps,
                                 parallel  |-> plan[b].parallel,
                                 stop      |-> StopOnError(plan[b])]],
    outcome <- [b \in Batch |-> [i \in Action |-> ViewOf(status[b][i])]]

\* Whatever overlaps in the program, the results are those of waves that ran
\* one after the other.
ImplementsSerialBatch == Promise!Serial
=============================================================================
