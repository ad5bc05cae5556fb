----------------------- MODULE McpWorkerDirect_proofs -----------------------
(***************************************************************************)
(* What a worker on its own promises, whatever client writes to it, for    *)
(* any number of requests, threads and places in the table.                *)
(*                                                                         *)
(* The executor's queue is bounded because the table of admitted requests  *)
(* is (TableInv) and because what is queued is admitted, each request once *)
(* (QueueInv): a cancellation takes nothing out of the table before a      *)
(* thread has taken it out of the queue.                                   *)
(***************************************************************************)
EXTENDS McpWorkerDirect, FiniteSetTheorems, TLAPS

USE ChannelAssumption, WorkerAssumption

TableInv == IsFiniteSet(Admitted) /\ Cardinality(Admitted) <= MaxInFlight

QueueInv ==
    /\ \A i \in 1 .. Len(queue) : work[queue[i]] = "queued"
    /\ \A i, j \in 1 .. Len(queue) : queue[i] = queue[j] => i = j

Inv ==
    /\ work \in [Req -> WorkState] /\ queue \in Seq(Req) /\ started \in [Req -> Nat]
    /\ TableInv /\ QueueInv

\* What a step of the worker may do to the table and the queue: nothing, admit
\* a request and queue it, take the first of the queue, move a request that is
\* not in the queue, or empty the queue.
Admits(r) ==
    /\ Cardinality(Admitted) < MaxInFlight /\ r \notin Admitted
    /\ work' = [work EXCEPT ![r] = "queued"] /\ queue' = Append(queue, r)

Takes(r, state) ==
    /\ queue # <<>> /\ r = Head(queue) /\ queue' = Tail(queue)
    /\ work' = [work EXCEPT ![r] = state]

Moves(r, state) ==
    /\ work[r] # "queued" /\ (state \in {"handling", "returned"} => work[r] \in {"locking", "handling"})
    /\ work' = [work EXCEPT ![r] = state] /\ queue' = queue

Later == {"locking", "handling", "returned", "result", "acking", "idle"}

Changes ==
    \/ UNCHANGED <<work, queue>>
    \/ \E r \in Req : Admits(r)
    \/ \E r \in Req, state \in {"locking", "handling", "returned"} : Takes(r, state)
    \/ \E r \in Req, state \in Later \ {"locking"} : Moves(r, state)
    \/ queue' = <<>> /\ (work' = work \/ work' = [r \in Req |-> "idle"])

LEMMA StepChanges ==
    ASSUME Inv, [Next]_vars
    PROVE  Changes /\ started' \in [Req -> Nat]
<1>0. started \in [Req -> Nat]
  BY DEF Inv
<1>1. CASE UNCHANGED <<work, queue, started>>
  BY <1>0, <1>1 DEF Changes
<1>2. CASE Client \/ ClientReads \/ Gone \/ UNCHANGED vars
  BY <1>1, <1>2 DEF Client, ClientSends, ClientCancels, ClientWrites, ClientEnds, ClientReads, Gone, vars, workerVars
<1>3. CASE \E r \in Req : Refuse(r) \/ Ignore(r) \/ Cancel(r)
  BY <1>1, <1>3 DEF Refuse, Ignore, Cancel
<1>4. ASSUME NEW r \in Req, Dispatch(r)
      PROVE  Changes /\ started' \in [Req -> Nat]
  <2>1. r \notin Admitted
    BY <1>4 DEF Dispatch, AdmittedUnder
  <2>2. Admits(r) /\ started' = started
    BY <1>4, <2>1 DEF Dispatch, Admits
  <2> QED
    BY <1>0, <2>2 DEF Changes
<1>5. ASSUME NEW r \in Req, Take(r)
      PROVE  Changes /\ started' \in [Req -> Nat]
  <2>1. Taken(r) \in {"locking", "handling", "returned"}
    BY DEF Taken
  <2>2. Takes(r, Taken(r))
    BY <1>5 DEF Take, Takes, MoveOn
  <2>3. started' \in [Req -> Nat]
    BY <1>0, <1>5 DEF Take, MoveOn
  <2> QED
    BY <2>1, <2>2, <2>3 DEF Changes
<1>6. ASSUME NEW r \in Req, Lock(r)
      PROVE  Changes /\ started' \in [Req -> Nat]
  <2>1. Locked(r) \in {"handling", "returned"}
    BY DEF Locked
  <2>2. Moves(r, Locked(r))
    BY <1>6 DEF Lock, Moves, MoveOn
  <2>3. started' \in [Req -> Nat]
    BY <1>0, <1>6 DEF Lock, MoveOn
  <2> QED
    BY <2>1, <2>2, <2>3 DEF Changes, Later
<1>7. ASSUME NEW r \in Req, Return(r) \/ Pop(r) \/ SendResult(r) \/ SendFinished(r)
      PROVE  Changes /\ started' \in [Req -> Nat]
  <2>1. Outcome(r) \in {"result", "acking", "idle"}
    BY DEF Outcome
  <2>2. \E state \in Later \ {"locking"} : Moves(r, state)
    <3>1. CASE Return(r)
      BY <3>1 DEF Return, Moves, Later
    <3>2. CASE Pop(r)
      BY <2>1, <3>2 DEF Pop, Moves, Later
    <3>3. CASE SendResult(r) \/ SendFinished(r)
      BY <3>3 DEF SendResult, SendFinished, Moves, Later
    <3> QED
      BY <1>7, <3>1, <3>2, <3>3
  <2>3. started' = started
    BY <1>7 DEF Return, Pop, SendResult, SendFinished
  <2> QED
    BY <1>0, <2>2, <2>3 DEF Changes
<1>8. CASE Close \/ Leave
  BY <1>0, <1>8 DEF Close, Leave, WorkLost, Changes
<1> QED
  BY <1>2, <1>3, <1>4, <1>5, <1>6, <1>7, <1>8 DEF Next, WorkerRuns, Alone, DispatchStep, ThreadStep

\* The table grows by a request that is admitted and otherwise only shrinks.
LEMMA TableGrowsByOne ==
    ASSUME Inv, Changes
    PROVE  \/ Admitted' \subseteq Admitted
           \/ \E r \in Req : Admits(r) /\ Admitted' = Admitted \cup {r}
<1>0. work \in [Req -> WorkState] /\ QueueInv /\ queue \in Seq(Req)
  BY DEF Inv
<1>1. CASE UNCHANGED <<work, queue>>
  BY <1>1 DEF Admitted
<1>2. ASSUME NEW r \in Req, Admits(r)
      PROVE  Admitted' = Admitted \cup {r}
  BY <1>0, <1>2 DEF Admits, Admitted
<1>3. ASSUME NEW r \in Req, NEW state \in {"locking", "handling", "returned"}, Takes(r, state)
      PROVE  Admitted' \subseteq Admitted
  <2>1. work[r] = "queued"
    BY <1>0, <1>3 DEF Takes, QueueInv
  <2> QED
    BY <1>0, <1>3, <2>1 DEF Takes, Admitted
<1>4. ASSUME NEW r \in Req, NEW state \in Later \ {"locking"}, Moves(r, state)
      PROVE  Admitted' \subseteq Admitted
  BY <1>0, <1>4 DEF Moves, Admitted, Later
<1>5. CASE queue' = <<>> /\ (work' = work \/ work' = [r \in Req |-> "idle"])
  BY <1>5 DEF Admitted
<1> QED
  BY <1>1, <1>2, <1>3, <1>4, <1>5 DEF Changes

LEMMA TableKept ==
    ASSUME Inv, Changes
    PROVE  TableInv'
<1>0. IsFiniteSet(Admitted) /\ Cardinality(Admitted) <= MaxInFlight /\ Cardinality(Admitted) \in Nat
  BY FS_CardinalityType DEF Inv, TableInv
<1>1. CASE Admitted' \subseteq Admitted
  <2>1. IsFiniteSet(Admitted') /\ Cardinality(Admitted') <= Cardinality(Admitted) /\ Cardinality(Admitted') \in Nat
    BY <1>0, <1>1, FS_Subset, FS_CardinalityType
  <2> QED
    BY <1>0, <2>1 DEF TableInv
<1>2. ASSUME NEW r \in Req, Admits(r), Admitted' = Admitted \cup {r}
      PROVE  TableInv'
  <2>1. IsFiniteSet(Admitted') /\ Cardinality(Admitted') = Cardinality(Admitted) + 1
    BY <1>0, <1>2, FS_AddElement DEF Admits
  <2> QED
    BY <1>0, <1>2, <2>1 DEF TableInv, Admits
<1> QED
  BY <1>1, <1>2, TableGrowsByOne

LEMMA QueueKept ==
    ASSUME Inv, Changes
    PROVE  QueueInv' /\ work' \in [Req -> WorkState] /\ queue' \in Seq(Req)
<1>0. work \in [Req -> WorkState] /\ QueueInv /\ queue \in Seq(Req) /\ Len(queue) \in Nat
  BY DEF Inv
<1>1. CASE UNCHANGED <<work, queue>>
  BY <1>0, <1>1 DEF QueueInv
<1>2. ASSUME NEW r \in Req, Admits(r)
      PROVE  QueueInv' /\ work' \in [Req -> WorkState] /\ queue' \in Seq(Req)
  <2>1. queue' = Append(queue, r) /\ work' = [work EXCEPT ![r] = "queued"]
    BY <1>2 DEF Admits
  <2>2. work[r] # "queued"
    BY <1>2 DEF Admits, Admitted
  <2>3. /\ queue' \in Seq(Req) /\ Len(queue') = Len(queue) + 1 /\ queue'[Len(queue) + 1] = r
        /\ \A i \in 1 .. Len(queue) : queue'[i] = queue[i]
    BY <1>0, <2>1
  <2>4. \A i \in 1 .. Len(queue) : queue[i] # r /\ queue[i] \in Req
    BY <1>0, <2>2 DEF QueueInv
  <2>5. work' \in [Req -> WorkState]
    BY <1>0, <2>1 DEF WorkState
  <2>6. \A i \in 1 .. Len(queue') : i \in 1 .. Len(queue) \/ i = Len(queue) + 1
    BY <1>0, <2>3
  <2>7. \A i \in 1 .. Len(queue') : work'[queue'[i]] = "queued"
    BY <1>0, <2>1, <2>3, <2>4, <2>6 DEF QueueInv
  <2>8. \A i, j \in 1 .. Len(queue') : queue'[i] = queue'[j] => i = j
    BY <1>0, <2>3, <2>4, <2>6 DEF QueueInv
  <2> QED
    BY <2>3, <2>5, <2>7, <2>8 DEF QueueInv
<1>3. ASSUME NEW r \in Req, NEW state \in {"locking", "handling", "returned"}, Takes(r, state)
      PROVE  QueueInv' /\ work' \in [Req -> WorkState] /\ queue' \in Seq(Req)
  <2>1. queue # <<>> /\ r = queue[1] /\ queue' = Tail(queue) /\ work' = [work EXCEPT ![r] = state]
    BY <1>0, <1>3 DEF Takes
  <2>2. /\ queue' \in Seq(Req) /\ Len(queue') = Len(queue) - 1 /\ Len(queue) >= 1
        /\ \A i \in 1 .. Len(queue') : queue'[i] = queue[i + 1]
    BY <1>0, <2>1
  <2>3. \A i \in 1 .. Len(queue') : i + 1 \in 1 .. Len(queue) /\ i + 1 # 1
    BY <1>0, <2>2
  <2>4. \A i \in 1 .. Len(queue') : queue[i + 1] # r /\ queue[i + 1] \in Req
    BY <1>0, <2>1, <2>2, <2>3 DEF QueueInv
  <2>5. work' \in [Req -> WorkState]
    BY <1>0, <2>1 DEF WorkState
  <2>6. \A i \in 1 .. Len(queue') : work'[queue'[i]] = "queued"
    BY <1>0, <2>1, <2>2, <2>3, <2>4 DEF QueueInv
  <2>7. \A i, j \in 1 .. Len(queue') : queue'[i] = queue'[j] => i = j
    <3>1. SUFFICES ASSUME NEW i \in 1 .. Len(queue'), NEW j \in 1 .. Len(queue'), queue'[i] = queue'[j]
                   PROVE  i = j
      OBVIOUS
    <3>2. i + 1 = j + 1
      BY <1>0, <2>2, <2>3, <3>1 DEF QueueInv
    <3> QED
      BY <2>2, <3>2
  <2> QED
    BY <2>2, <2>5, <2>6, <2>7 DEF QueueInv
<1>4. ASSUME NEW r \in Req, NEW state \in Later \ {"locking"}, Moves(r, state)
      PROVE  QueueInv' /\ work' \in [Req -> WorkState] /\ queue' \in Seq(Req)
  <2>1. work[r] # "queued" /\ queue' = queue /\ work' = [work EXCEPT ![r] = state]
    BY <1>4 DEF Moves
  <2>2. work' \in [Req -> WorkState]
    BY <1>0, <2>1 DEF WorkState, Later
  <2>3. \A i \in 1 .. Len(queue) : queue[i] # r /\ queue[i] \in Req
    BY <1>0, <2>1 DEF QueueInv
  <2> QED
    BY <1>0, <2>1, <2>2, <2>3 DEF QueueInv
<1>5. CASE queue' = <<>> /\ (work' = work \/ work' = [r \in Req |-> "idle"])
  BY <1>0, <1>5 DEF QueueInv, WorkState
<1> QED
  BY <1>1, <1>2, <1>3, <1>4, <1>5 DEF Changes

LEMMA InvAlways == Spec => []Inv
<1>1. Init => Inv
  <2>1. SUFFICES ASSUME Init
                 PROVE  Inv
    OBVIOUS
  <2>2. /\ work = [r \in Req |-> "idle"] /\ queue = <<>> /\ started = [r \in Req |-> 0]
    BY <2>1 DEF Init, WorkerInit, FreshWork
  <2>3. Admitted = {}
    BY <2>2 DEF Admitted
  <2>4. TableInv
    BY <2>3, FS_EmptySet DEF TableInv
  <2> QED
    BY <2>2, <2>4 DEF Inv, QueueInv, WorkState
<1>2. Inv /\ [Next]_vars => Inv'
  BY StepChanges, TableKept, QueueKept DEF Inv
<1> QED
  BY <1>1, <1>2, PTL DEF Spec

\* Whatever is submitted and cancelled, the executor's queue and threads never
\* hold more tools than requests are admitted.
THEOREM SpecQueueIsBounded == Spec => []QueueIsBounded
<1>1. ASSUME Inv
      PROVE  QueueIsBounded
  <2> DEFINE Queued == {r \in Req : \E i \in 1 .. Len(queue) : queue[i] = r}
             Running == {r \in Req : work[r] \in {"locking", "handling"}}
  <2>0. queue \in Seq(Req) /\ Len(queue) \in Nat /\ QueueInv /\ TableInv
    BY <1>1 DEF Inv
  <2>1. Queued \subseteq Admitted /\ Running \subseteq Admitted /\ Queued \cap Running = {}
    BY <2>0 DEF QueueInv, Admitted
  <2>2. \A i \in 1 .. Len(queue) : queue[i] \in Queued
    BY <2>0
  <2>3. [i \in 1 .. Len(queue) |-> queue[i]] \in Bijection(1 .. Len(queue), Queued)
    BY <2>0, <2>2 DEF Bijection, Injection, Surjection, IsInjective, QueueInv
  <2> HIDE DEF Queued, Running
  <2>4. IsFiniteSet(1 .. Len(queue)) /\ Cardinality(1 .. Len(queue)) = Len(queue)
    <3>1. /\ IsFiniteSet(1 .. Len(queue))
          /\ Cardinality(1 .. Len(queue)) = IF 1 > Len(queue) THEN 0 ELSE Len(queue) - 1 + 1
      BY <2>0, FS_Interval
    <3> QED
      BY <2>0, <3>1
  <2>5. ExistsBijection(1 .. Len(queue), Queued)
    BY <2>3 DEF ExistsBijection
  <2>6. IsFiniteSet(Queued) /\ Cardinality(Queued) = Len(queue)
    BY <2>4, <2>5, FS_Bijection
  <2>7. /\ IsFiniteSet(Running) /\ IsFiniteSet(Queued \cup Running)
        /\ Cardinality(Queued \cup Running) <= Cardinality(Admitted)
    BY <2>0, <2>1, FS_Subset DEF TableInv
  <2>8. Cardinality(Queued \cup Running) = Cardinality(Queued) + Cardinality(Running) - Cardinality(Queued \cap Running)
    BY <2>6, <2>7, FS_Union
  <2>9. Cardinality(Queued \cap Running) = 0
    BY <2>1, FS_EmptySet
  <2>10. /\ Cardinality(Admitted) \in Nat /\ Cardinality(Running) \in Nat
         /\ Cardinality(Admitted) <= MaxInFlight /\ Cardinality(Queued \cup Running) \in Nat
    BY <2>0, <2>7, FS_CardinalityType DEF TableInv
  <2>11. Len(queue) + Cardinality(Running) <= MaxInFlight
    BY <2>0, <2>6, <2>7, <2>8, <2>9, <2>10
  <2> QED
    BY <2>11 DEF QueueIsBounded, Running
<1> QED
  BY <1>1, InvAlways, PTL

\* A mutation starts only while no other one runs and only when no cancellation
\* of it has been read.
THEOREM SpecMutationsAreOrdered == Spec => MutationsAreOrdered
<1> DEFINE Ordered == \A r \in Mutation :
          started'[r] # started[r] => r \notin flagged /\ \A q \in Mutation \ {r} : work[q] # "handling"
<1>1. ASSUME Inv, Next
      PROVE  Ordered
  <2>0. started \in [Req -> Nat] /\ Mutation \subseteq Req
    BY <1>1 DEF Inv
  <2>1. CASE UNCHANGED started
    BY <2>1
  <2>2. ASSUME NEW p \in Req, Take(p)
        PROVE  Ordered
    <3>1. Taken(p) = "handling" => p \notin Mutation
      BY DEF Taken
    <3>2. \A r \in Req : started'[r] # started[r] => r = p /\ Taken(p) = "handling"
      BY <2>0, <2>2 DEF Take, MoveOn
    <3> QED
      BY <2>0, <3>1, <3>2
  <2>3. ASSUME NEW p \in Req, Lock(p)
        PROVE  Ordered
    <3>1. Locked(p) = "handling" => p \notin flagged
      BY DEF Locked
    <3>2. \A r \in Req : started'[r] # started[r] => r = p /\ Locked(p) = "handling"
      BY <2>0, <2>3 DEF Lock, MoveOn
    <3> QED
      BY <2>0, <2>3, <3>1, <3>2 DEF Lock, MutationLockFree
  <2>4. CASE Client \/ ClientReads \/ Gone
    BY <2>1, <2>4 DEF Client, ClientSends, ClientCancels, ClientWrites, ClientEnds, ClientReads, Gone, vars, workerVars
  <2>5. CASE \E p \in Req : Dispatch(p) \/ Refuse(p) \/ Ignore(p) \/ Cancel(p)
    BY <2>1, <2>5 DEF Dispatch, Refuse, Ignore, Cancel
  <2>6. CASE \E p \in Req : Return(p) \/ Pop(p) \/ SendResult(p) \/ SendFinished(p)
    BY <2>1, <2>6 DEF Return, Pop, SendResult, SendFinished
  <2>7. CASE Close \/ Leave
    BY <2>1, <2>7 DEF Close, Leave, WorkLost
  <2> HIDE DEF Ordered
  <2> QED
    BY <1>1, <2>2, <2>3, <2>4, <2>5, <2>6, <2>7 DEF Next, WorkerRuns, Alone, DispatchStep, ThreadStep
<1>2. Inv /\ [Next]_vars => [Ordered]_vars
  BY <1>1
<1> QED
  BY <1>2, InvAlways, PTL DEF Spec, MutationsAreOrdered

-----------------------------------------------------------------------------
(* What the client gets.  A request line is written once, so that a request *)
(* is in one place at a time: not yet read, in work, or settled.  LinesInv  *)
(* says where it is and what the client may have of it there.               *)

Answers == [type : {"result", "refusal", "finished"}, req : Req]

InLine(r) == \E i \in 1 .. Len(toWorker) : toWorker[i] = RequestLine(r)

NoLine(r) == \A i \in 1 .. Len(fromWorker) : fromWorker[i].req # r

Untouched(r) == work[r] = "idle" /\ r \notin flagged /\ started[r] = 0 /\ got[r] = <<>> /\ NoLine(r)

Refused(r) ==
    \/ \E i \in 1 .. Len(fromWorker) : fromWorker[i] = RefusalLine(r)
    \/ got[r] = <<RefusalLine(r)>>

RequestInv(r) ==
    /\ r \in unsent => ~InLine(r)
    /\ r \in unsent \/ InLine(r) => Untouched(r)
    /\ work[r] # "idle" => NoLine(r)
    /\ work[r] # "idle" \/ ~NoLine(r) => got[r] = <<>>
    /\ Len(got[r]) <= 1
    /\ Refused(r) => started[r] = 0

PipesInv ==
    /\ toWorker \in Seq(LinesToWorker) /\ fromWorker \in Seq(Answers) /\ got \in [Req -> Seq(Answers)]
    /\ \A i, j \in 1 .. Len(toWorker) :
          toWorker[i] = toWorker[j] /\ toWorker[i].type = "request" => i = j
    /\ \A i, j \in 1 .. Len(fromWorker) : fromWorker[i].req = fromWorker[j].req => i = j

LinesInv ==
    /\ Inv /\ PipesInv /\ flagged \subseteq Admitted
    /\ \A r \in Req : RequestInv(r)

\* A step that gives a request nothing new keeps what holds of it.
LEMMA RequestFrame ==
    ASSUME NEW q \in Req, RequestInv(q),
           q \in unsent' => q \in unsent, InLine(q)' => InLine(q), Untouched(q) => Untouched(q)',
           work'[q] # "idle" => work[q] # "idle", got'[q] = got[q], NoLine(q)' <=> NoLine(q),
           Refused(q)' => Refused(q), started'[q] = started[q]
    PROVE  RequestInv(q)'
BY DEF RequestInv

\* The first line of the worker's stdin is read.
LEMMA LineRead ==
    ASSUME LinesInv, toWorker # <<>>, toWorker' = Tail(toWorker)
    PROVE  /\ toWorker' \in Seq(LinesToWorker)
           /\ \A i, j \in 1 .. Len(toWorker') :
                 toWorker'[i] = toWorker'[j] /\ toWorker'[i].type = "request" => i = j
           /\ \A q \in Req : InLine(q)' => InLine(q)
           /\ \A q \in Req : Head(toWorker) = RequestLine(q) => InLine(q) /\ ~InLine(q)'
<1>0. /\ toWorker \in Seq(LinesToWorker) /\ Len(toWorker) \in Nat /\ Len(toWorker) >= 1
      /\ \A i, j \in 1 .. Len(toWorker) :
            toWorker[i] = toWorker[j] /\ toWorker[i].type = "request" => i = j
  BY DEF LinesInv, PipesInv
<1>1. /\ toWorker' \in Seq(LinesToWorker) /\ Len(toWorker') = Len(toWorker) - 1
      /\ \A i \in 1 .. Len(toWorker') : toWorker'[i] = toWorker[i + 1] /\ i + 1 \in 2 .. Len(toWorker)
  BY <1>0
<1>2. \A i, j \in 1 .. Len(toWorker') :
            toWorker'[i] = toWorker'[j] /\ toWorker'[i].type = "request" => i = j
  <2>1. SUFFICES ASSUME NEW i \in 1 .. Len(toWorker'), NEW j \in 1 .. Len(toWorker'),
                        toWorker'[i] = toWorker'[j], toWorker'[i].type = "request"
                 PROVE  i = j
    OBVIOUS
  <2>2. i + 1 = j + 1
    BY <1>0, <1>1, <2>1
  <2> QED
    BY <1>1, <2>2
<1>3. \A q \in Req : InLine(q)' => InLine(q)
  BY <1>0, <1>1 DEF InLine
<1>4. ASSUME NEW q \in Req, Head(toWorker) = RequestLine(q)
      PROVE  InLine(q) /\ ~InLine(q)'
  <2>1. toWorker[1] = RequestLine(q) /\ 1 \in 1 .. Len(toWorker) /\ RequestLine(q).type = "request"
    BY <1>0, <1>4 DEF RequestLine
  <2>2. \A i \in 2 .. Len(toWorker) : toWorker[i] # RequestLine(q)
    BY <1>0, <2>1
  <2> QED
    BY <1>1, <2>1, <2>2 DEF InLine
<1> QED
  BY <1>1, <1>2, <1>3, <1>4

\* The client writes a line: a cancellation, or a request it has not sent.
LEMMA LineWritten ==
    ASSUME LinesInv, NEW p \in Req,
           \/ toWorker' = Append(toWorker, CancelLine(p))
           \/ toWorker' = Append(toWorker, RequestLine(p)) /\ p \in unsent
    PROVE  /\ toWorker' \in Seq(LinesToWorker)
           /\ \A i, j \in 1 .. Len(toWorker') :
                 toWorker'[i] = toWorker'[j] /\ toWorker'[i].type = "request" => i = j
           /\ \A q \in Req : InLine(q)' => InLine(q) \/ (q = p /\ toWorker' = Append(toWorker, RequestLine(p)))
<1>0. /\ toWorker \in Seq(LinesToWorker) /\ Len(toWorker) \in Nat
      /\ \A i, j \in 1 .. Len(toWorker) :
            toWorker[i] = toWorker[j] /\ toWorker[i].type = "request" => i = j
  BY DEF LinesInv, PipesInv
<1>1. PICK line \in {CancelLine(p), RequestLine(p)} : toWorker' = Append(toWorker, line)
  OBVIOUS
<1>2. line \in LinesToWorker
  BY DEF CancelLine, RequestLine, LinesToWorker
<1>3. /\ toWorker' \in Seq(LinesToWorker) /\ Len(toWorker') = Len(toWorker) + 1 /\ toWorker'[Len(toWorker) + 1] = line
      /\ \A i \in 1 .. Len(toWorker) : toWorker'[i] = toWorker[i]
      /\ \A i \in 1 .. Len(toWorker') : i \in 1 .. Len(toWorker) \/ i = Len(toWorker) + 1
  BY <1>0, <1>1, <1>2
<1>4. CancelLine(p).type # "request" /\ \A q \in Req : CancelLine(p) # RequestLine(q)
  BY DEF CancelLine, RequestLine
<1>5. \A q \in Req : RequestLine(p) = RequestLine(q) => q = p
  BY DEF RequestLine
<1>6. CancelLine(p) # RequestLine(p)
  BY <1>4
<1>7. Append(toWorker, line)[Len(toWorker) + 1] = line /\ Append(toWorker, RequestLine(p))[Len(toWorker) + 1] = RequestLine(p)
      /\ Append(toWorker, CancelLine(p))[Len(toWorker) + 1] = CancelLine(p)
  BY <1>0, <1>2 DEF CancelLine, RequestLine, LinesToWorker
<1>8. line = RequestLine(p) => /\ toWorker' = Append(toWorker, RequestLine(p))
                               /\ \A i \in 1 .. Len(toWorker) : toWorker[i] # RequestLine(p)
  <2>1. ASSUME line = RequestLine(p)
        PROVE  p \in unsent
    BY <1>1, <1>6, <1>7, <2>1
  <2>2. p \in unsent => ~InLine(p)
    BY DEF LinesInv, RequestInv
  <2> QED
    BY <1>1, <2>1, <2>2 DEF InLine
<1>9. \A i, j \in 1 .. Len(toWorker') :
            toWorker'[i] = toWorker'[j] /\ toWorker'[i].type = "request" => i = j
  BY <1>0, <1>1, <1>3, <1>4, <1>8
<1>10. ASSUME NEW q \in Req, InLine(q)'
       PROVE  InLine(q) \/ (q = p /\ toWorker' = Append(toWorker, RequestLine(p)))
  <2>1. PICK i \in 1 .. Len(toWorker') : toWorker'[i] = RequestLine(q)
    BY <1>10 DEF InLine
  <2>2. CASE i \in 1 .. Len(toWorker)
    BY <1>3, <2>1, <2>2 DEF InLine
  <2>3. CASE i = Len(toWorker) + 1
    BY <1>1, <1>3, <1>4, <1>5, <1>8, <2>1, <2>3
  <2> QED
    BY <1>3, <2>2, <2>3
<1> QED
  BY <1>3, <1>9, <1>10

\* The worker writes a line about a request of which the client has nothing.
LEMMA LineSent ==
    ASSUME LinesInv, NEW p \in Req, NoLine(p), NEW line \in Answers, line.req = p,
           fromWorker' = Append(fromWorker, line), got' = got
    PROVE  /\ fromWorker' \in Seq(Answers)
           /\ \A i, j \in 1 .. Len(fromWorker') : fromWorker'[i].req = fromWorker'[j].req => i = j
           /\ \A q \in Req \ {p} : (NoLine(q)' <=> NoLine(q)) /\ (Refused(q)' => Refused(q))
           /\ Refused(p)' => Refused(p) \/ line = RefusalLine(p)
<1>0. /\ fromWorker \in Seq(Answers) /\ Len(fromWorker) \in Nat
      /\ \A i, j \in 1 .. Len(fromWorker) : fromWorker[i].req = fromWorker[j].req => i = j
  BY DEF LinesInv, PipesInv
<1>1. /\ fromWorker' \in Seq(Answers) /\ Len(fromWorker') = Len(fromWorker) + 1
      /\ fromWorker'[Len(fromWorker) + 1] = line
      /\ \A i \in 1 .. Len(fromWorker) : fromWorker'[i] = fromWorker[i]
      /\ \A i \in 1 .. Len(fromWorker') : i \in 1 .. Len(fromWorker) \/ i = Len(fromWorker) + 1
  BY <1>0
<1>2. \A i, j \in 1 .. Len(fromWorker') : fromWorker'[i].req = fromWorker'[j].req => i = j
  BY <1>0, <1>1 DEF NoLine
<1>3. ASSUME NEW q \in Req
      PROVE  (\E i \in 1 .. Len(fromWorker') : fromWorker'[i] = RefusalLine(q))
                => (\E i \in 1 .. Len(fromWorker) : fromWorker[i] = RefusalLine(q)) \/ line = RefusalLine(q)
  BY <1>1
<1>4. \A q \in Req : line = RefusalLine(q) => q = p
  BY DEF RefusalLine
<1>5. ASSUME NEW q \in Req \ {p}
      PROVE  (NoLine(q)' <=> NoLine(q)) /\ (Refused(q)' => Refused(q))
  <2>1. NoLine(q)' <=> NoLine(q)
    BY <1>0, <1>1 DEF NoLine
  <2>2. Refused(q)' => Refused(q)
    BY <1>3, <1>4 DEF Refused
  <2> QED
    BY <2>1, <2>2
<1>6. Refused(p)' => Refused(p) \/ line = RefusalLine(p)
  BY <1>3 DEF Refused
<1> QED
  BY <1>1, <1>2, <1>5, <1>6

LinesKept == PipesInv' /\ flagged' \subseteq Admitted' /\ \A r \in Req : RequestInv(r)'

\* A request that is in work moves on.
LEMMA MovingKeepsLines ==
    ASSUME LinesInv, NEW p \in Req, NEW state \in Later,
           work[p] # "idle", work' = [work EXCEPT ![p] = state],
           state \in {"idle", "result", "acking"} => p \notin flagged', flagged' \subseteq flagged,
           \A q \in Req \ {p} : started'[q] = started[q],
           UNCHANGED <<toWorker, fromWorker, unsent, got>>
    PROVE  LinesKept
<1>0. work \in [Req -> WorkState] /\ RequestInv(p) /\ flagged \subseteq Admitted /\ PipesInv
  BY DEF LinesInv, Inv
<1>1. PipesInv'
  BY <1>0 DEF PipesInv
<1>2. flagged' \subseteq Admitted'
  BY <1>0 DEF Admitted, Later
<1>3. \A q \in Req : (InLine(q)' <=> InLine(q)) /\ (NoLine(q)' <=> NoLine(q)) /\ (Refused(q)' <=> Refused(q))
  BY DEF InLine, NoLine, Refused
<1>4. ASSUME NEW q \in Req \ {p}
      PROVE  RequestInv(q)'
  <2>1. work'[q] = work[q] /\ RequestInv(q)
    BY <1>0 DEF LinesInv
  <2>2. Untouched(q) => Untouched(q)'
    BY <1>3, <2>1 DEF Untouched
  <2> QED
    BY <1>3, <2>1, <2>2, RequestFrame
<1>5. RequestInv(p)'
  <2>1. p \notin unsent /\ ~InLine(p) /\ NoLine(p) /\ got[p] = <<>>
    BY <1>0 DEF RequestInv, Untouched
  <2>2. ~Refused(p)
    <3>1. got[p] # <<RefusalLine(p)>>
      BY <2>1
    <3>2. \A i \in 1 .. Len(fromWorker) : fromWorker[i] # RefusalLine(p)
      BY <2>1 DEF NoLine, RefusalLine
    <3> QED
      BY <3>1, <3>2 DEF Refused
  <2>3. Len(got'[p]) <= 1
    BY <2>1
  <2> QED
    BY <1>3, <2>1, <2>2, <2>3 DEF RequestInv
<1> QED
  BY <1>1, <1>2, <1>4, <1>5 DEF LinesKept

\* The steps of a thread that works on a request.
LEMMA ThreadsKeepLines ==
    ASSUME LinesInv, NEW p \in Req,
           Take(p) \/ Lock(p) \/ Return(p) \/ Pop(p), UNCHANGED <<unsent, got>>
    PROVE  LinesKept
<1>0. /\ work \in [Req -> WorkState] /\ started \in [Req -> Nat] /\ queue \in Seq(Req) /\ QueueInv
      /\ flagged \subseteq Admitted
  BY DEF LinesInv, Inv
<1>1. CASE Take(p)
  <2>1. 1 \in 1 .. Len(queue) /\ queue[1] = p
    BY <1>0, <1>1 DEF Take
  <2>2. work[p] = "queued"
    BY <1>0, <2>1 DEF QueueInv
  <2>3. Taken(p) \in {"locking", "handling", "returned"}
    BY DEF Taken
  <2>4. /\ work' = [work EXCEPT ![p] = Taken(p)] /\ UNCHANGED <<toWorker, fromWorker, flagged>>
        /\ \A q \in Req \ {p} : started'[q] = started[q]
    BY <1>0, <1>1 DEF Take, MoveOn
  <2>5. Taken(p) \in Later
    BY <2>3 DEF Later
  <2> QED
    BY <2>2, <2>3, <2>4, <2>5, MovingKeepsLines
<1>2. CASE Lock(p)
  <2>1. Locked(p) \in {"handling", "returned"}
    BY DEF Locked
  <2>2. /\ work[p] = "locking"
        /\ work' = [work EXCEPT ![p] = Locked(p)] /\ UNCHANGED <<toWorker, fromWorker, flagged>>
        /\ \A q \in Req \ {p} : started'[q] = started[q]
    BY <1>0, <1>2 DEF Lock, MoveOn
  <2>3. Locked(p) \in Later
    BY <2>1 DEF Later
  <2> QED
    BY <2>1, <2>2, <2>3, MovingKeepsLines
<1>3. CASE Return(p)
  <2>1. /\ work[p] = "handling" /\ work' = [work EXCEPT ![p] = "returned"]
        /\ UNCHANGED <<toWorker, fromWorker, flagged, started>>
    BY <1>3 DEF Return
  <2>2. "returned" \in Later
    BY DEF Later
  <2> QED
    BY <2>1, <2>2, MovingKeepsLines
<1>4. CASE Pop(p)
  <2>1. /\ work[p] = "returned" /\ work' = [work EXCEPT ![p] = Outcome(p)]
        /\ flagged' = flagged \ {p} /\ UNCHANGED <<toWorker, fromWorker, started>>
    BY <1>4 DEF Pop
  <2>2. Outcome(p) \in Later
    BY DEF Outcome, Later
  <2> QED
    BY <2>1, <2>2, MovingKeepsLines
<1> QED
  BY <1>1, <1>2, <1>3, <1>4

\* The worker sends the only line of a request.
LEMMA SendingKeepsLines ==
    ASSUME LinesInv, NEW p \in Req, SendResult(p) \/ SendFinished(p), UNCHANGED <<unsent, got>>
    PROVE  LinesKept
<1>0. /\ work \in [Req -> WorkState] /\ RequestInv(p) /\ flagged \subseteq Admitted /\ PipesInv
      /\ \A q \in Req : RequestInv(q)
  BY DEF LinesInv, Inv
<1>1. PICK line \in {ResultLine(p), FinishedLine(p)} : fromWorker' = Append(fromWorker, line)
  BY DEF SendResult, SendFinished, SendLine
<1>2. line \in Answers /\ line.req = p /\ line # RefusalLine(p)
  BY DEF ResultLine, FinishedLine, RefusalLine, Answers
<1>3. /\ work[p] \in {"result", "acking"} /\ work' = [work EXCEPT ![p] = "idle"]
      /\ UNCHANGED <<toWorker, flagged, started>>
  BY DEF SendResult, SendFinished
<1>4. p \notin unsent /\ ~InLine(p) /\ NoLine(p) /\ got[p] = <<>> /\ p \notin Admitted
  BY <1>0, <1>3 DEF RequestInv, Untouched, Admitted
<1>5. /\ fromWorker' \in Seq(Answers)
      /\ \A i, j \in 1 .. Len(fromWorker') : fromWorker'[i].req = fromWorker'[j].req => i = j
      /\ \A q \in Req \ {p} : (NoLine(q)' <=> NoLine(q)) /\ (Refused(q)' => Refused(q))
      /\ Refused(p)' => Refused(p)
  BY <1>1, <1>2, <1>4, LineSent
<1>6. PipesInv'
  BY <1>0, <1>3, <1>5 DEF PipesInv
<1>7. flagged' \subseteq Admitted'
  BY <1>0, <1>3, <1>4 DEF Admitted
<1>8. \A q \in Req : InLine(q)' <=> InLine(q)
  BY <1>3 DEF InLine
<1>9. ASSUME NEW q \in Req \ {p}
      PROVE  RequestInv(q)'
  <2>1. work'[q] = work[q]
    BY <1>0, <1>3
  <2>2. Untouched(q) => Untouched(q)'
    BY <1>3, <1>5, <2>1 DEF Untouched
  <2> QED
    BY <1>0, <1>3, <1>5, <1>8, <2>1, <2>2, RequestFrame
<1>10. RequestInv(p)'
  <2>1. work'[p] = "idle" /\ Len(got'[p]) <= 1 /\ got'[p] = <<>>
    BY <1>0, <1>3, <1>4
  <2> QED
    BY <1>0, <1>3, <1>4, <1>5, <1>8, <2>1 DEF RequestInv
<1> QED
  BY <1>6, <1>7, <1>9, <1>10 DEF LinesKept

\* The dispatcher reads a line.
LEMMA DispatchKeepsLines ==
    ASSUME LinesInv, NEW p \in Req,
           Dispatch(p) \/ Refuse(p) \/ Ignore(p) \/ Cancel(p), UNCHANGED <<unsent, got>>
    PROVE  LinesKept
<1>0. /\ work \in [Req -> WorkState] /\ RequestInv(p) /\ flagged \subseteq Admitted /\ PipesInv
      /\ \A q \in Req : RequestInv(q)
  BY DEF LinesInv, Inv
<1>1. toWorker # <<>> /\ toWorker' = Tail(toWorker) /\ started' = started
  BY DEF Dispatch, Refuse, Ignore, Cancel, NextLineIs
<1>2. /\ toWorker' \in Seq(LinesToWorker)
      /\ \A i, j \in 1 .. Len(toWorker') :
            toWorker'[i] = toWorker'[j] /\ toWorker'[i].type = "request" => i = j
      /\ \A q \in Req : InLine(q)' => InLine(q)
      /\ \A q \in Req : Head(toWorker) = RequestLine(q) => InLine(q) /\ ~InLine(q)'
  BY <1>1, LineRead
<1>3. fromWorker' = fromWorker => \A q \in Req : (NoLine(q)' <=> NoLine(q)) /\ (Refused(q)' <=> Refused(q))
  BY DEF NoLine, Refused
<1>4. CASE Ignore(p) \/ Cancel(p)
  <2>1. work' = work /\ fromWorker' = fromWorker /\ (flagged' = flagged \/ flagged' = flagged \cup Target(KeyOf[p]))
    BY <1>4 DEF Ignore, Cancel
  <2>2. Target(KeyOf[p]) \subseteq Admitted
    BY DEF Target, AdmittedUnder
  <2>3. flagged' \subseteq Admitted' /\ Admitted' = Admitted
    BY <1>0, <2>1, <2>2 DEF Admitted
  <2>4. ASSUME NEW q \in Req
        PROVE  RequestInv(q)'
    <3>1. Untouched(q) => Untouched(q)'
      BY <1>1, <1>3, <2>1, <2>3 DEF Untouched, Admitted
    <3> QED
      BY <1>0, <1>1, <1>2, <1>3, <2>1, <3>1, RequestFrame
  <2>5. PipesInv'
    BY <1>0, <1>2, <2>1 DEF PipesInv
  <2> QED
    BY <2>3, <2>4, <2>5 DEF LinesKept
<1>5. CASE Dispatch(p) \/ Refuse(p)
  <2>1. Head(toWorker) = RequestLine(p)
    BY <1>5 DEF Dispatch, Refuse, NextLineIs
  <2>2. p \notin unsent /\ ~InLine(p)' /\ Untouched(p) /\ NoLine(p) /\ work[p] = "idle" /\ got[p] = <<>> /\ started[p] = 0
    BY <1>0, <1>2, <2>1 DEF RequestInv, Untouched
  <2>3. CASE Dispatch(p)
    <3>1. work' = [work EXCEPT ![p] = "queued"] /\ fromWorker' = fromWorker /\ flagged' = flagged \ {p}
      BY <2>3 DEF Dispatch
    <3>2. flagged' \subseteq Admitted'
      BY <1>0, <3>1 DEF Admitted
    <3>3. ASSUME NEW q \in Req \ {p}
          PROVE  RequestInv(q)'
      <4>1. work'[q] = work[q]
        BY <1>0, <3>1
      <4>2. Untouched(q) => Untouched(q)'
        BY <1>1, <1>3, <3>1, <4>1 DEF Untouched
      <4> QED
        BY <1>0, <1>1, <1>2, <1>3, <3>1, <4>1, <4>2, RequestFrame
    <3>4. RequestInv(p)'
      <4>1. Len(got'[p]) <= 1 /\ got'[p] = <<>> /\ started'[p] = 0
        BY <1>1, <2>2
      <4> QED
        BY <1>3, <2>2, <3>1, <4>1 DEF RequestInv
    <3>5. PipesInv'
      BY <1>0, <1>2, <3>1 DEF PipesInv
    <3> QED
      BY <3>2, <3>3, <3>4, <3>5 DEF LinesKept
  <2>4. CASE Refuse(p)
    <3>1. fromWorker' = Append(fromWorker, RefusalLine(p)) /\ work' = work /\ flagged' = flagged
      BY <2>4 DEF Refuse, SendLine
    <3>2. RefusalLine(p) \in Answers /\ RefusalLine(p).req = p
      BY DEF RefusalLine, Answers
    <3>3. /\ fromWorker' \in Seq(Answers)
          /\ \A i, j \in 1 .. Len(fromWorker') : fromWorker'[i].req = fromWorker'[j].req => i = j
          /\ \A q \in Req \ {p} : (NoLine(q)' <=> NoLine(q)) /\ (Refused(q)' => Refused(q))
      BY <2>2, <3>1, <3>2, LineSent
    <3>4. flagged' \subseteq Admitted'
      BY <1>0, <3>1 DEF Admitted
    <3>5. ASSUME NEW q \in Req \ {p}
          PROVE  RequestInv(q)'
      <4>1. Untouched(q) => Untouched(q)'
        BY <1>1, <3>1, <3>3 DEF Untouched
      <4> QED
        BY <1>0, <1>1, <1>2, <3>1, <3>3, <4>1, RequestFrame
    <3>6. RequestInv(p)'
      <4>1. Len(got'[p]) <= 1 /\ got'[p] = <<>> /\ started'[p] = 0 /\ work'[p] = "idle"
        BY <1>1, <2>2, <3>1
      <4> QED
        BY <2>2, <4>1 DEF RequestInv
    <3>7. PipesInv'
      BY <1>0, <1>2, <3>3 DEF PipesInv
    <3> QED
      BY <3>4, <3>5, <3>6, <3>7 DEF LinesKept
  <2> QED
    BY <1>5, <2>3, <2>4
<1> QED
  BY <1>4, <1>5

\* The client writes lines or reads the next one.
LEMMA ClientKeepsLines ==
    ASSUME LinesInv, Client \/ ClientReads
    PROVE  LinesKept
<1>0. /\ work \in [Req -> WorkState] /\ flagged \subseteq Admitted /\ PipesInv
      /\ \A q \in Req : RequestInv(q)
  BY DEF LinesInv, Inv
<1>1. work' = work /\ flagged' = flagged /\ started' = started
  BY DEF Client, ClientSends, ClientCancels, ClientWrites, ClientEnds, ClientReads, workerVars
<1>2. flagged' \subseteq Admitted'
  BY <1>0, <1>1 DEF Admitted
<1>3. ASSUME fromWorker' = fromWorker, got' = got
      PROVE  \A q \in Req : /\ (NoLine(q)' <=> NoLine(q)) /\ (Refused(q)' <=> Refused(q))
                            /\ Untouched(q) => Untouched(q)'
  BY <1>1, <1>3 DEF NoLine, Refused, Untouched
<1>4. ASSUME NEW p \in Req, ClientSends(p) \/ ClientCancels(p)
      PROVE  LinesKept
  <2>1. fromWorker' = fromWorker /\ got' = got
    BY <1>4 DEF ClientSends, ClientCancels, ClientWrites
  <2>2. \/ toWorker' = Append(toWorker, CancelLine(p)) /\ unsent' = unsent
        \/ toWorker' = Append(toWorker, RequestLine(p)) /\ p \in unsent /\ unsent' = unsent \ {p}
    BY <1>4 DEF ClientSends, ClientCancels, ClientWrites
  <2>3. /\ toWorker' \in Seq(LinesToWorker)
        /\ \A i, j \in 1 .. Len(toWorker') :
              toWorker'[i] = toWorker'[j] /\ toWorker'[i].type = "request" => i = j
        /\ \A q \in Req : InLine(q)' => InLine(q) \/ (q = p /\ toWorker' = Append(toWorker, RequestLine(p)))
    BY <2>2, LineWritten
  <2>4. PipesInv'
    BY <1>0, <2>1, <2>3 DEF PipesInv
  <2>5. Append(toWorker, CancelLine(p)) # Append(toWorker, RequestLine(p))
    <3>1. toWorker \in Seq(LinesToWorker) /\ CancelLine(p) \in LinesToWorker /\ RequestLine(p) \in LinesToWorker
      BY <1>0 DEF PipesInv, LinesToWorker, CancelLine, RequestLine
    <3>2. CancelLine(p) # RequestLine(p)
      BY DEF CancelLine, RequestLine
    <3>3. /\ Append(toWorker, CancelLine(p))[Len(toWorker) + 1] = CancelLine(p)
          /\ Append(toWorker, RequestLine(p))[Len(toWorker) + 1] = RequestLine(p)
      BY <3>1
    <3> QED
      BY <3>2, <3>3
  <2>6. ASSUME NEW q \in Req
        PROVE  RequestInv(q)'
    <3>1. RequestInv(q) /\ q \in unsent' => q \in unsent
      BY <1>0, <2>2
    <3>2. CASE InLine(q)' => InLine(q)
      BY <1>0, <1>1, <1>3, <2>1, <2>2, <3>2, RequestFrame
    <3>3. CASE q = p /\ toWorker' = Append(toWorker, RequestLine(p))
      <4>1. p \in unsent /\ p \notin unsent'
        BY <2>2, <2>5, <3>3
      <4>2. RequestInv(p) /\ Untouched(p)
        BY <1>0, <4>1 DEF RequestInv
      <4>3. Untouched(p)' /\ (NoLine(p)' <=> NoLine(p)) /\ (Refused(p)' => Refused(p))
        BY <1>3, <2>1, <4>2
      <4> QED
        BY <1>1, <2>1, <3>3, <4>1, <4>2, <4>3 DEF RequestInv
    <3> QED
      BY <2>3, <3>2, <3>3
  <2> QED
    BY <1>2, <2>4, <2>6 DEF LinesKept
<1>5. CASE ClientEnds
  <2>1. UNCHANGED <<toWorker, fromWorker, unsent, got>>
    BY <1>5 DEF ClientEnds, channelVars
  <2>2. \A q \in Req : InLine(q)' <=> InLine(q)
    BY <2>1 DEF InLine
  <2>3. \A q \in Req : RequestInv(q)'
    BY <1>0, <1>1, <1>3, <2>1, <2>2, RequestFrame
  <2> QED
    BY <1>0, <1>2, <2>1, <2>3 DEF LinesKept, PipesInv
<1>6. CASE ClientReads
  <2>h. fromWorker # <<>> /\ fromWorker \in Seq(Answers)
    BY <1>0, <1>6 DEF ClientReads, PipesInv
  <2>g. Head(fromWorker) \in Answers /\ Head(fromWorker) = fromWorker[1]
    BY <2>h
  <2>l. PICK line \in Answers : line = Head(fromWorker)
    BY <2>g
  <2>p. PICK p \in Req : p = line.req
    BY DEF Answers
  <2>1. /\ fromWorker # <<>> /\ fromWorker' = Tail(fromWorker) /\ UNCHANGED <<toWorker, unsent>>
        /\ got' = [got EXCEPT ![p] = Append(@, line)]
    BY <1>6, <2>l, <2>p DEF ClientReads
  <2>2. /\ fromWorker \in Seq(Answers) /\ Len(fromWorker) \in Nat /\ Len(fromWorker) >= 1
        /\ \A i, j \in 1 .. Len(fromWorker) : fromWorker[i].req = fromWorker[j].req => i = j
        /\ got \in [Req -> Seq(Answers)]
    BY <1>0, <2>1 DEF PipesInv
  <2>3. line = fromWorker[1] /\ line.req = p
    BY <2>g, <2>l, <2>p
  <2>4. /\ fromWorker' \in Seq(Answers) /\ Len(fromWorker') = Len(fromWorker) - 1
        /\ \A i \in 1 .. Len(fromWorker') : fromWorker'[i] = fromWorker[i + 1] /\ i + 1 \in 2 .. Len(fromWorker)
    BY <2>1, <2>2
  <2>5. \A i, j \in 1 .. Len(fromWorker') : fromWorker'[i].req = fromWorker'[j].req => i = j
    <3>1. SUFFICES ASSUME NEW i \in 1 .. Len(fromWorker'), NEW j \in 1 .. Len(fromWorker'),
                          fromWorker'[i].req = fromWorker'[j].req
                   PROVE  i = j
      OBVIOUS
    <3>2. i + 1 = j + 1
      <4>1. i + 1 \in 1 .. Len(fromWorker) /\ j + 1 \in 1 .. Len(fromWorker)
        BY <2>2, <2>4
      <4>2. fromWorker[i + 1].req = fromWorker[j + 1].req
        BY <2>4, <3>1
      <4> QED
        BY <2>2, <4>1, <4>2
    <3> QED
      BY <2>4, <3>2
  <2>6. got[p] = <<>>
    <3>1. ~NoLine(p)
      BY <2>2, <2>3 DEF NoLine
    <3> QED
      BY <1>0, <2>3, <3>1 DEF RequestInv
  <2>7. NoLine(p)'
    BY <2>2, <2>3, <2>4 DEF NoLine
  <2>8. got'[p] = <<line>> /\ got' \in [Req -> Seq(Answers)] /\ \A q \in Req \ {p} : got'[q] = got[q]
    BY <2>1, <2>2, <2>3, <2>6
  <2>9. PipesInv'
    BY <1>0, <2>1, <2>4, <2>5, <2>8 DEF PipesInv
  <2>10. \A q \in Req : InLine(q)' <=> InLine(q)
    BY <2>1 DEF InLine
  <2>11. ASSUME NEW q \in Req \ {p}
         PROVE  RequestInv(q)'
    <3>1. NoLine(q)' <=> NoLine(q)
      <4>1. ASSUME NoLine(q)', NEW i \in 1 .. Len(fromWorker)
            PROVE  fromWorker[i].req # q
        <5>1. CASE i = 1
          BY <2>3, <5>1
        <5>2. CASE i # 1
          <6>1. i - 1 \in 1 .. Len(fromWorker') /\ (i - 1) + 1 = i
            BY <2>2, <2>4, <5>2
          <6> QED
            BY <2>4, <4>1, <6>1 DEF NoLine
        <5> QED
          BY <5>1, <5>2
      <4>2. NoLine(q)' => NoLine(q)
        BY <4>1 DEF NoLine
      <4>3. NoLine(q) => NoLine(q)'
        <5>1. ASSUME NoLine(q), NEW i \in 1 .. Len(fromWorker')
              PROVE  fromWorker'[i].req # q
          <6>1. fromWorker'[i] = fromWorker[i + 1] /\ i + 1 \in 1 .. Len(fromWorker)
            BY <2>2, <2>4
          <6> QED
            BY <5>1, <6>1 DEF NoLine
        <5> QED
          BY <5>1 DEF NoLine
      <4> QED
        BY <4>2, <4>3
    <3>2. Refused(q)' => Refused(q)
      <4>1. got'[q] = got[q]
        BY <2>8
      <4>2. ASSUME NEW i \in 1 .. Len(fromWorker'), fromWorker'[i] = RefusalLine(q)
            PROVE  \E j \in 1 .. Len(fromWorker) : fromWorker[j] = RefusalLine(q)
        <5>1. fromWorker[i + 1] = RefusalLine(q) /\ i + 1 \in 1 .. Len(fromWorker)
          BY <2>2, <2>4, <4>2
        <5> QED
          BY <5>1
      <4> QED
        BY <4>1, <4>2 DEF Refused
    <3>3. Untouched(q) => Untouched(q)'
      BY <1>1, <2>8, <3>1 DEF Untouched
    <3> QED
      BY <1>0, <1>1, <2>1, <2>8, <2>10, <3>1, <3>2, <3>3, RequestFrame
  <2>12. RequestInv(p)'
    <3>1. ~NoLine(p)
      BY <2>2, <2>3 DEF NoLine
    <3>2. p \notin unsent /\ ~InLine(p) /\ work[p] = "idle"
      BY <1>0, <2>3, <3>1 DEF RequestInv, Untouched
    <3>3. Refused(p)' => Refused(p)
      <4>1. \A i \in 1 .. Len(fromWorker') : fromWorker'[i].req # p
        BY <2>7 DEF NoLine
      <4>2. RefusalLine(p).req = p
        BY DEF RefusalLine
      <4>3. Refused(p)' => line = RefusalLine(p)
        BY <2>8, <4>1, <4>2 DEF Refused
      <4> QED
        BY <2>2, <2>3, <4>3 DEF Refused
    <3>4. Len(got'[p]) <= 1
      BY <2>8
    <3>5. Refused(p) => started[p] = 0
      BY <1>0, <2>3 DEF RequestInv
    <3> QED
      BY <1>1, <2>1, <2>7, <2>10, <3>2, <3>3, <3>4, <3>5 DEF RequestInv
  <2> QED
    BY <1>2, <2>9, <2>11, <2>12 DEF LinesKept
<1> QED
  BY <1>4, <1>5, <1>6 DEF Client

\* The worker stops reading, or is gone.
LEMMA ClosingKeepsLines ==
    ASSUME LinesInv, Close \/ Leave, UNCHANGED <<unsent, got>>
    PROVE  LinesKept
<1>0. /\ work \in [Req -> WorkState] /\ flagged \subseteq Admitted /\ PipesInv
      /\ \A q \in Req : RequestInv(q)
  BY DEF LinesInv, Inv
<1>1. started' = started /\ UNCHANGED <<toWorker, fromWorker>>
  BY DEF Close, Leave, WorkLost
<1>2. \/ work' = work /\ flagged' = flagged \cup Admitted
      \/ work' = [r \in Req |-> "idle"] /\ flagged' = {}
  BY DEF Close, Leave, WorkLost
<1>3. flagged' \subseteq Admitted'
  BY <1>0, <1>2 DEF Admitted
<1>4. ASSUME NEW q \in Req
      PROVE  RequestInv(q)'
  <2>1. (NoLine(q)' <=> NoLine(q)) /\ (Refused(q)' <=> Refused(q)) /\ (InLine(q)' <=> InLine(q))
    BY <1>1 DEF NoLine, Refused, InLine
  <2>2. Untouched(q) => Untouched(q)'
    BY <1>1, <1>2, <2>1 DEF Untouched, Admitted
  <2>3. work'[q] # "idle" => work[q] # "idle"
    BY <1>2
  <2> QED
    BY <1>0, <1>1, <2>1, <2>2, <2>3, RequestFrame
<1> QED
  BY <1>0, <1>1, <1>3, <1>4 DEF LinesKept, PipesInv

LEMMA LinesAlways == Spec => []LinesInv
<1>1. Init => LinesInv
  <2>1. SUFFICES ASSUME Init
                 PROVE  LinesInv
    OBVIOUS
  <2>2. /\ work = [r \in Req |-> "idle"] /\ queue = <<>> /\ started = [r \in Req |-> 0] /\ flagged = {}
        /\ toWorker = <<>> /\ fromWorker = <<>> /\ got = [r \in Req |-> <<>>] /\ unsent = Req
    BY <2>1 DEF Init, WorkerInit, FreshWork
  <2>3. Inv
    <3>1. Admitted = {}
      BY <2>2 DEF Admitted
    <3>2. TableInv
      BY <3>1, FS_EmptySet DEF TableInv
    <3> QED
      BY <2>2, <3>2 DEF Inv, QueueInv, WorkState
  <2>4. PipesInv
    BY <2>2 DEF PipesInv
  <2>5. \A r \in Req : RequestInv(r)
    BY <2>2 DEF RequestInv, Untouched, InLine, NoLine, Refused
  <2> QED
    BY <2>2, <2>3, <2>4, <2>5 DEF LinesInv
<1>2. LinesInv /\ [Next]_vars => LinesInv'
  <2>1. SUFFICES ASSUME LinesInv, [Next]_vars
                 PROVE  LinesInv'
    OBVIOUS
  <2>2. Inv'
    BY <2>1, StepChanges, TableKept, QueueKept DEF Inv, LinesInv
  <2>3. ASSUME UNCHANGED vars
        PROVE  LinesKept
    <3>1. UNCHANGED <<work, flagged, started, toWorker, fromWorker, unsent, got>>
      BY <2>3 DEF vars, workerVars, channelVars
    <3>2. PipesInv' /\ flagged' \subseteq Admitted'
      <4>1. PipesInv /\ flagged \subseteq Admitted
        BY <2>1 DEF LinesInv
      <4>2. PipesInv'
        BY <3>1, <4>1 DEF PipesInv
      <4>3. flagged' \subseteq Admitted'
        BY <3>1, <4>1 DEF Admitted
      <4> QED
        BY <4>2, <4>3
    <3>3. \A q \in Req : RequestInv(q)'
      BY <2>1, <3>1 DEF LinesInv, RequestInv, Untouched, InLine, NoLine, Refused
    <3> QED
      BY <3>2, <3>3 DEF LinesKept
  <2>4. LinesKept
    BY <2>1, <2>3, ThreadsKeepLines, SendingKeepsLines, DispatchKeepsLines, ClientKeepsLines, ClosingKeepsLines
       DEF Next, WorkerRuns, Alone, DispatchStep, ThreadStep, Gone
  <2> QED
    BY <2>2, <2>4 DEF LinesInv, LinesKept
<1> QED
  BY <1>1, <1>2, PTL DEF Spec

\* A request gets at most one line back, wherever its cancellation, its refusal
\* and its response meet.
THEOREM SpecAtMostOneLine == Spec => []AtMostOneLine
<1>1. ASSUME LinesInv
      PROVE  AtMostOneLine
  <2>1. SUFFICES ASSUME NEW r \in Req
                 PROVE  Cardinality(Lines(r, {"result", "refusal", "finished"})) + Len(got[r]) <= 1
    BY DEF AtMostOneLine
  <2> DEFINE L == Lines(r, {"result", "refusal", "finished"})
  <2>2. /\ fromWorker \in Seq(Answers) /\ got[r] \in Seq(Answers) /\ RequestInv(r)
        /\ \A i, j \in 1 .. Len(fromWorker) : fromWorker[i].req = fromWorker[j].req => i = j
    BY <1>1 DEF LinesInv, PipesInv
  <2>3. \A i \in L : i \in 1 .. Len(fromWorker) /\ fromWorker[i].req = r
    BY <2>2 DEF Lines
  <2>4. CASE L = {}
    <3>1. Cardinality(L) = 0
      BY <2>4, FS_EmptySet
    <3> QED
      BY <2>2, <3>1 DEF RequestInv
  <2>5. CASE L # {}
    <3>1. PICK i \in L : TRUE
      BY <2>5
    <3>2. L = {i}
      BY <2>2, <2>3, <3>1
    <3>3. Cardinality(L) = 1
      BY <3>2, FS_Singleton
    <3>4. got[r] = <<>>
      BY <2>2, <2>3, <3>1 DEF RequestInv, NoLine
    <3> QED
      BY <3>3, <3>4
  <2> QED
    BY <2>4, <2>5
<1> QED
  BY <1>1, LinesAlways, PTL

\* "the request was not started": a refused request never reaches its tool.
THEOREM SpecRefusedNeverStarts == Spec => []RefusedNeverStarts
<1>1. ASSUME LinesInv
      PROVE  RefusedNeverStarts
  <2>1. SUFFICES ASSUME NEW r \in Req, Lines(r, {"refusal"}) # {} \/ got[r] = <<RefusalLine(r)>>
                 PROVE  started[r] = 0
    BY DEF RefusedNeverStarts
  <2>2. fromWorker \in Seq(Answers) /\ RequestInv(r)
    BY <1>1 DEF LinesInv, PipesInv
  <2>3. ASSUME NEW i \in Lines(r, {"refusal"})
        PROVE  i \in 1 .. Len(fromWorker) /\ fromWorker[i] = RefusalLine(r)
    <3>1. i \in 1 .. Len(fromWorker) /\ fromWorker[i] \in Answers
      BY <2>2 DEF Lines
    <3>2. fromWorker[i].req = r /\ fromWorker[i].type = "refusal"
      BY DEF Lines
    <3> QED
      BY <3>1, <3>2 DEF RefusalLine, Answers
  <2> QED
    BY <2>1, <2>2, <2>3 DEF Refused, RequestInv
<1> QED
  BY <1>1, LinesAlways, PTL

\* A request whose cancellation was read stays without a result: it is flagged
\* until it is popped, and then nothing is left to send but an acknowledgement.
Silent(r) ==
    \/ r \in flagged
    \/ work[r] \in {"idle", "acking"} /\ r \notin unsent /\ ~InLine(r)

LEMMA SilentStays ==
    ASSUME LinesInv, [Next]_vars, NEW r \in Req, Silent(r)
    PROVE  Silent(r)'
<1>0. /\ work \in [Req -> WorkState] /\ queue \in Seq(Req) /\ QueueInv /\ flagged \subseteq Admitted
      /\ RequestInv(r)
  BY DEF LinesInv, Inv
<1>1. r \in flagged => work[r] # "idle" /\ r \in Admitted
  BY <1>0 DEF Admitted
<1>2. r \notin unsent /\ ~InLine(r)
  BY <1>0, <1>1 DEF Silent, RequestInv, Untouched
<1>3. unsent' \subseteq unsent
  BY DEF Next, Client, ClientSends, ClientCancels, ClientEnds, ClientReads, WorkerRuns, Alone, Gone, vars
<1>4. ~InLine(r)'
  <2>1. CASE toWorker' = toWorker
    BY <1>2, <2>1 DEF InLine
  <2>2. CASE Client
    <3>1. CASE ClientEnds
      BY <2>1, <3>1 DEF ClientEnds, channelVars
    <3>2. ASSUME NEW p \in Req, ClientSends(p) \/ ClientCancels(p)
          PROVE  ~InLine(r)'
      <4>1. CASE ClientCancels(p)
        <5>1. toWorker \in Seq(LinesToWorker) /\ CancelLine(p) \in LinesToWorker
          BY DEF LinesInv, PipesInv, CancelLine, LinesToWorker
        <5>2. toWorker' = Append(toWorker, CancelLine(p)) /\ CancelLine(p) # RequestLine(r)
          BY <4>1 DEF ClientCancels, ClientWrites, CancelLine, RequestLine
        <5> QED
          BY <1>2, <5>1, <5>2 DEF InLine
      <4>2. CASE ClientSends(p)
        <5>1. p \in unsent /\ toWorker' = Append(toWorker, RequestLine(p))
          BY <4>2 DEF ClientSends, ClientWrites
        <5>2. InLine(r)' => InLine(r) \/ r = p
          BY <5>1, LineWritten
        <5> QED
          BY <1>2, <5>1, <5>2
      <4> QED
        BY <3>2, <4>1, <4>2
    <3> QED
      BY <2>2, <3>1, <3>2 DEF Client
  <2>3. CASE DispatchStep
    <3>1. toWorker # <<>> /\ toWorker' = Tail(toWorker)
      BY <2>3 DEF DispatchStep, Dispatch, Refuse, Ignore, Cancel, NextLineIs
    <3> QED
      BY <1>2, <3>1, LineRead
  <2>4. CASE ClientReads \/ Gone \/ UNCHANGED vars
    BY <2>1, <2>4 DEF ClientReads, Gone, vars, channelVars
  <2>5. CASE \E p \in Req : Take(p) \/ Lock(p) \/ Return(p) \/ Pop(p) \/ SendResult(p) \/ SendFinished(p)
    BY <2>1, <2>5 DEF Take, Lock, Return, Pop, SendResult, SendFinished
  <2>6. CASE Close \/ Leave
    BY <2>1, <2>6 DEF Close, Leave
  <2> QED
    BY <2>2, <2>3, <2>4, <2>5, <2>6 DEF Next, WorkerRuns, Alone, ThreadStep
<1>5. r \in flagged' \/ work'[r] \in {"idle", "acking"}
  <2>1. CASE work' = work /\ flagged' = flagged
    BY <2>1 DEF Silent
  <2>2. CASE Client \/ ClientReads \/ Gone \/ UNCHANGED vars
    BY <2>1, <2>2 DEF Client, ClientSends, ClientCancels, ClientWrites, ClientEnds, ClientReads, Gone, vars, workerVars
  <2>3. CASE \E p \in Req : Refuse(p) \/ Ignore(p) \/ Cancel(p)
    <3>1. work' = work /\ flagged \subseteq flagged'
      BY <2>3 DEF Refuse, Ignore, Cancel
    <3> QED
      BY <3>1 DEF Silent
  <2>4. ASSUME NEW p \in Req, Dispatch(p)
        PROVE  r \in flagged' \/ work'[r] \in {"idle", "acking"}
    <3>1. toWorker # <<>> /\ toWorker' = Tail(toWorker) /\ Head(toWorker) = RequestLine(p)
      BY <2>4 DEF Dispatch, NextLineIs
    <3>2. InLine(p)
      BY <3>1, LineRead
    <3>3. p # r
      BY <1>2, <3>2
    <3> QED
      BY <1>0, <2>4, <3>3 DEF Dispatch, Silent
  <2>5. ASSUME NEW p \in Req, Take(p) \/ Lock(p) \/ Return(p)
        PROVE  r \in flagged' \/ work'[r] \in {"idle", "acking"}
    <3>1. work[p] \in {"queued", "locking", "handling"}
      <4>1. CASE Take(p)
        <5>1. 1 \in 1 .. Len(queue) /\ queue[1] = p
          BY <1>0, <4>1 DEF Take
        <5> QED
          BY <1>0, <5>1 DEF QueueInv
      <4> QED
        BY <2>5, <4>1 DEF Lock, Return
    <3>2. flagged' = flagged /\ \A q \in Req \ {p} : work'[q] = work[q]
      BY <1>0, <2>5 DEF Take, Lock, Return, MoveOn
    <3> QED
      BY <3>1, <3>2 DEF Silent
  <2>6. ASSUME NEW p \in Req, Pop(p)
        PROVE  r \in flagged' \/ work'[r] \in {"idle", "acking"}
    <3>1. /\ work[p] = "returned" /\ work' = [work EXCEPT ![p] = Outcome(p)] /\ flagged' = flagged \ {p}
      BY <2>6 DEF Pop
    <3>2. p \in flagged => Outcome(p) \in {"idle", "acking"}
      BY DEF Outcome
    <3> QED
      BY <1>0, <3>1, <3>2 DEF Silent
  <2>7. ASSUME NEW p \in Req, SendResult(p) \/ SendFinished(p)
        PROVE  r \in flagged' \/ work'[r] \in {"idle", "acking"}
    BY <1>0, <2>7 DEF SendResult, SendFinished, Silent
  <2>8. CASE Close
    BY <2>8 DEF Close, Silent
  <2>9. CASE Leave
    BY <2>9 DEF Leave, WorkLost
  <2> QED
    BY <2>2, <2>3, <2>4, <2>5, <2>6, <2>7, <2>8, <2>9 DEF Next, WorkerRuns, Alone, DispatchStep, ThreadStep
<1> QED
  BY <1>2, <1>3, <1>4, <1>5 DEF Silent

\* Once a request is flagged, the client never sees a result of it.
THEOREM SpecCancelledIsSilent == Spec => CancelledIsSilent
<1>1. SUFFICES ASSUME NEW r \in Req
               PROVE  Spec => [](r \in flagged => [](work[r] # "result"))
  BY DEF CancelledIsSilent
<1>2. LinesInv /\ Silent(r) /\ [Next]_vars => Silent(r)'
  BY SilentStays
<1>3. r \in flagged => Silent(r)
  BY DEF Silent
<1>4. LinesInv /\ Silent(r) => work[r] # "result"
  BY DEF LinesInv, Silent, Admitted
<1> QED
  BY <1>2, <1>3, <1>4, LinesAlways, PTL DEF Spec
=============================================================================
