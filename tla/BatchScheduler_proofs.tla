----------------------- MODULE BatchScheduler_proofs ------------------------
(***************************************************************************)
(* Proofs about BatchScheduler, for any number of batches, any plans and   *)
(* any number of threads.                                                  *)
(***************************************************************************)
EXTENDS BatchScheduler, FiniteSetTheorems, WellFoundedInduction, TLAPS

(***************************************************************************)
(* The inductive invariant.  Where a batch is tells which of its actions   *)
(* can be with the executor or run (PlaceInv); what is chosen or has run   *)
(* was allowed to by the barriers (OrderInv); one batch at a time holds    *)
(* the lock; and an entry of the queue is a queued read, once (QueueInv).  *)
(***************************************************************************)
PlaceInv(b) ==
    /\ stage[b] \in {"validate", "loop"} \cup Ended => selected[b] = {}
    /\ stage[b] \in {"mutate", "locking", "effect"} =>
           \E m \in plan[b].mutations : selected[b] = {m}
    /\ stage[b] \in {"submit", "collect"} => selected[b] \cap plan[b].mutations = {}
    /\ \A i \in Action :
          /\ status[b][i] \in {"queued", "ok", "error"} =>
                 i \in selected[b] /\ stage[b] \in {"submit", "collect"}
          /\ status[b][i] = "running" =>
                 i \in selected[b] /\ stage[b] \in {"submit", "collect", "effect"}
          /\ status[b][i] = "planned" => stage[b] = "done"
          /\ i \in selected[b] /\ stage[b] \in {"mutate", "locking"} => status[b][i] = "pending"

Chosen == {"queued", "running", "ok", "error", "succeeded", "failed"}

OrderInv(b) ==
    \A i \in Action :
        i \in selected[b] \/ status[b][i] \in Chosen =>
            \A j \in OrderPredecessors(plan[b], i) : InResults(b, j)

LockInv == \A b, c \in Batch : stage[b] = "effect" /\ stage[c] = "effect" => b = c

QueueInv ==
    /\ \A n \in 1 .. Len(queue) : status[queue[n][1]][queue[n][2]] = "queued"
    /\ \A n, k \in 1 .. Len(queue) : queue[n] = queue[k] => n = k

Inv ==
    /\ TypeOK
    /\ \A b \in Batch : PlaceInv(b) /\ OrderInv(b)
    /\ LockInv
    /\ QueueInv

-----------------------------------------------------------------------------
(* Lemmas.                                                                 *)

\* The parts of a plan.
LEMMA PlanParts ==
    ASSUME TypeOK, NEW b \in Batch
    PROVE  /\ plan[b].mutations \subseteq Action
           /\ \A i \in Action : plan[b].deps[i] \subseteq Action
BY BatchAssumption DEF TypeOK

\* What a mutation is a barrier for are positions before the action.
LEMMA Barriers ==
    ASSUME TypeOK, NEW b \in Batch, NEW i \in Action
    PROVE  /\ OrderPredecessors(plan[b], i) \subseteq Action
           /\ \A m \in plan[b].mutations : m < i => m \in OrderPredecessors(plan[b], i)
           /\ i \in plan[b].mutations =>
                  \A j \in Action : j < i => j \in OrderPredecessors(plan[b], i)
BY PlanParts, BatchAssumption DEF OrderPredecessors, Action

\* What Settle does.
LEMMA Settled ==
    ASSUME TypeOK, NEW b \in Batch, NEW S, NEW value \in Status,
           Settle(b, S, value)
    PROVE  /\ status' \in [Batch -> [Action -> Status]]
           /\ \A c \in Batch \ {b} : status'[c] = status[c]
           /\ \A i \in Action : status'[b][i] = IF i \in S THEN value ELSE status[b][i]
BY DEF TypeOK, Settle

\* A step that concerns batch b keeps the invariant when it keeps b's part,
\* and b takes the lock only when it is free.
LEMMA Local ==
    ASSUME Inv, NEW b \in Batch, TypeOK', plan' = plan,
           \A c \in Batch \ {b} :
               stage'[c] = stage[c] /\ selected'[c] = selected[c] /\ status'[c] = status[c],
           PlaceInv(b)', OrderInv(b)',
           stage'[b] = "effect" => stage[b] = "effect" \/ MutationLockFree,
           QueueInv'
    PROVE  Inv'
<1>1. ASSUME NEW c \in Batch PROVE PlaceInv(c)' /\ OrderInv(c)'
  <2>1. CASE c = b
    BY <2>1
  <2>2. CASE c # b
    <3>1. PlaceInv(c) /\ OrderInv(c)
      BY DEF Inv
    <3>2. PlaceInv(c)'
      BY <2>2, <3>1 DEF PlaceInv
    <3>3. OrderInv(c)'
      BY <2>2, <3>1 DEF OrderInv, InResults
    <3> QED BY <3>2, <3>3
  <2> QED BY <2>1, <2>2
<1>2. LockInv'
  BY DEF Inv, LockInv, MutationLockFree
<1> QED BY <1>1, <1>2 DEF Inv

\* A step that leaves the queue alone and settles no queued read keeps the
\* queue's part.
LEMMA QueueKept ==
    ASSUME Inv, NEW b \in Batch, queue' = queue,
           \A c \in Batch \ {b} : status'[c] = status[c],
           \A i \in Action : status[b][i] = "queued" => status'[b][i] = "queued"
    PROVE  QueueInv'
<1>1. \A n \in 1 .. Len(queue) : queue[n][1] \in Batch /\ queue[n][2] \in Action
  BY DEF Inv, TypeOK
<1> QED BY <1>1 DEF Inv, QueueInv

\* Results are final: while no action of b loses its result, and what is
\* newly chosen was ready, the order is kept.
LEMMA OrderKept ==
    ASSUME Inv, NEW b \in Batch, plan' = plan,
           \A i \in Action : InResults(b, i) => InResults(b, i)',
           \A i \in Action :
               i \in selected'[b] \/ status'[b][i] \in Chosen =>
                   \/ i \in selected[b] \/ status[b][i] \in Chosen
                   \/ \A j \in OrderPredecessors(plan[b], i) : InResults(b, j)
    PROVE  OrderInv(b)'
<1>1. \A i \in Action : OrderPredecessors(plan[b], i) \subseteq Action
  BY Barriers DEF Inv
<1>2. OrderInv(b)
  BY DEF Inv
<1>3. ASSUME NEW i \in Action, i \in selected'[b] \/ status'[b][i] \in Chosen,
             NEW j \in OrderPredecessors(plan[b], i)
      PROVE  InResults(b, j)'
  BY <1>1, <1>2, <1>3 DEF OrderInv
<1> QED BY <1>3 DEF OrderInv

-----------------------------------------------------------------------------
(* The steps.                                                              *)

LEMMA InitInv == Init => Inv
<1> SUFFICES ASSUME Init PROVE Inv
  OBVIOUS
<1>1. TypeOK
  BY DEF Init, TypeOK, BatchPC, Status
<1>2. \A b \in Batch : PlaceInv(b) /\ OrderInv(b)
  BY DEF Init, PlaceInv, OrderInv, Chosen
<1> QED BY <1>1, <1>2 DEF Init, Inv, LockInv, QueueInv

LEMMA ValidateKeeps ==
    ASSUME Inv, NEW b \in Batch, Validate(b) PROVE Inv'
<1>1. TypeOK'
  BY DEF Inv, TypeOK, Validate, BatchPC, Status
<1>2. PlaceInv(b)
  BY DEF Inv
<1>3. PlaceInv(b)'
  BY <1>2 DEF PlaceInv, Validate, Inv, TypeOK, Ended
<1>4. OrderInv(b)'
  <2>1. CASE status' = status
    BY <2>1 DEF Inv, OrderInv, Validate, InResults
  <2>2. CASE status' = [status EXCEPT ![b] = [i \in Action |-> "planned"]]
    BY <1>2, <2>2 DEF OrderInv, Validate, PlaceInv, Chosen, Inv, TypeOK
  <2> QED BY <2>1, <2>2 DEF Validate
<1>5. QueueInv'
  <2>1. \A i \in Action : status[b][i] # "queued"
    BY <1>2 DEF PlaceInv, Validate
  <2>2. \A c \in Batch \ {b} : status'[c] = status[c]
    BY DEF Validate, Inv, TypeOK
  <2> QED BY <2>1, <2>2, QueueKept DEF Validate
<1> QED BY <1>1, <1>3, <1>4, <1>5, Local DEF Validate, Inv, TypeOK

\* At the top of the loop nothing is chosen, and pending actions may be
\* skipped.
LEMMA SkipKeeps ==
    ASSUME Inv, NEW b \in Batch, NEW S \in SUBSET Pending(b), stage[b] = "loop",
           Settle(b, S, "skipped"), UNCHANGED <<plan, stage, selected, queue, cancelled>>
    PROVE  Inv'
<1>1. /\ status' \in [Batch -> [Action -> Status]]
      /\ \A c \in Batch \ {b} : status'[c] = status[c]
      /\ \A i \in Action : status'[b][i] = IF i \in S THEN "skipped" ELSE status[b][i]
  BY Settled DEF Inv, Status
<1>2. TypeOK'
  BY <1>1 DEF Inv, TypeOK
<1>3. PlaceInv(b)'
  BY <1>1 DEF Inv, PlaceInv
<1>4. OrderInv(b)'
  BY <1>1, OrderKept DEF InResults, Chosen, Pending
<1>5. QueueInv'
  BY <1>1, QueueKept DEF Pending
<1> QED BY <1>1, <1>2, <1>3, <1>4, <1>5, Local

\* Leaving the loop, or selecting nothing.
LEMMA LeaveKeeps ==
    ASSUME Inv, NEW b \in Batch, NEW next \in Ended, stage[b] = "loop",
           stage' = [stage EXCEPT ![b] = next], selected'[b] = {},
           \A c \in Batch \ {b} : selected'[c] = selected[c],
           selected' \in [Batch -> SUBSET Action],
           UNCHANGED <<plan, status, queue, cancelled>>
    PROVE  Inv'
<1>1. TypeOK'
  BY DEF Inv, TypeOK, Ended, BatchPC
<1>2. PlaceInv(b)
  BY DEF Inv
<1>3. PlaceInv(b)'
  BY <1>2 DEF Inv, TypeOK, PlaceInv, Ended
<1>4. OrderInv(b)'
  BY OrderKept DEF InResults
<1>5. QueueInv'
  BY QueueKept
<1> QED BY <1>1, <1>3, <1>4, <1>5, Local DEF Inv, TypeOK, Ended

\* A group is chosen among the ready actions.
LEMMA SelectKeeps ==
    ASSUME Inv, NEW b \in Batch, NEW S \in SUBSET Ready(b), NEW next,
           stage[b] = "loop", Select(b, S, next),
           \/ next = "mutate" /\ \E m \in plan[b].mutations : S = {m}
           \/ next = "submit" /\ S \cap plan[b].mutations = {}
    PROVE  Inv'
<1>1. S \subseteq Action /\ \A i \in S : status[b][i] = "pending"
  BY DEF Ready, Pending
<1>2. TypeOK'
  BY <1>1 DEF Inv, TypeOK, Select, BatchPC
<1>3. PlaceInv(b)
  BY DEF Inv
<1>4. PlaceInv(b)'
  BY <1>1, <1>3 DEF PlaceInv, Select, Inv, TypeOK, Ended
<1>5. OrderInv(b)'
  <2>1. \A i \in S : \A j \in OrderPredecessors(plan[b], i) : InResults(b, j)
    BY DEF Ready
  <2> QED BY <2>1, OrderKept DEF Select, InResults, Inv, TypeOK
<1>6. QueueInv'
  BY QueueKept DEF Select
<1> QED BY <1>2, <1>4, <1>5, <1>6, Local DEF Select, Inv, TypeOK

LEMMA LoopKeeps ==
    ASSUME Inv, NEW b \in Batch,
           \/ SkipDependents(b) \/ SkipRest(b) \/ Finish(b) \/ RaiseCancelled(b)
           \/ SelectMutation(b) \/ SelectReads(b)
    PROVE  Inv'
<1>0. PlaceInv(b) /\ TypeOK
  BY DEF Inv
<1>1. CASE SkipDependents(b)
  <2>1. SkippedInPass(b) \in SUBSET Pending(b)
    BY DEF SkippedInPass
  <2> QED BY <1>1, <2>1, SkipKeeps DEF SkipDependents, Looping
<1>2. CASE SkipRest(b)
  BY <1>2, SkipKeeps DEF SkipRest
<1>3. CASE Finish(b)
  BY <1>0, <1>3, LeaveKeeps DEF Finish, Ended, PlaceInv, TypeOK
<1>4. CASE RaiseCancelled(b)
  BY <1>0, <1>4, LeaveKeeps DEF RaiseCancelled, Ended, PlaceInv, TypeOK
<1>5. CASE SelectMutation(b)
  BY <1>5, SelectKeeps DEF SelectMutation, ReadyMutations, Looping
<1>6. CASE SelectReads(b)
  BY <1>6, SelectKeeps DEF SelectReads, ReadyMutations, FirstReads, Looping
<1> QED BY <1>1, <1>2, <1>3, <1>4, <1>5, <1>6

\* A mutation that is before its checks, or runs, ends: with it the batch
\* goes back to the loop.
LEMMA EndMutationKeeps ==
    ASSUME Inv, NEW b \in Batch, NEW value \in {"succeeded", "failed"},
           stage[b] \in {"mutate", "locking", "effect"}, EndMutation(b, value)
    PROVE  Inv'
<1>0. /\ PlaceInv(b) /\ TypeOK
      /\ value \in Status
  BY DEF Inv, Status
<1>1. /\ status' \in [Batch -> [Action -> Status]]
      /\ \A c \in Batch \ {b} : status'[c] = status[c]
      /\ \A i \in Action :
             status'[b][i] = IF i \in selected[b] THEN value ELSE status[b][i]
  <2>1. Settle(b, selected[b], value)
    BY DEF EndMutation
  <2> QED BY ONLY <1>0, <2>1, Settled
<1>2. TypeOK'
  BY <1>0, <1>1 DEF TypeOK, EndMutation, BatchPC
<1>3. PlaceInv(b)'
  BY <1>0, <1>1 DEF PlaceInv, EndMutation, TypeOK, Ended
<1>4. OrderInv(b)'
  BY <1>0, <1>1, OrderKept DEF EndMutation, InResults, TypeOK
<1>5. QueueInv'
  <2>1. \A i \in Action : status[b][i] # "queued"
    BY <1>0 DEF PlaceInv
  <2> QED BY <1>1, <2>1, QueueKept DEF EndMutation
<1> QED BY <1>0, <1>1, <1>2, <1>3, <1>4, <1>5, Local DEF EndMutation, TypeOK

LEMMA MutationKeeps ==
    ASSUME Inv, NEW b \in Batch, CheckMutation(b) \/ Lock(b) \/ Return(b)
    PROVE  Inv'
<1>0. PlaceInv(b) /\ TypeOK
  BY DEF Inv
<1>1. CASE CheckMutation(b) /\ cancelled[b]
  BY <1>1, EndMutationKeeps DEF CheckMutation
<1>2. CASE CheckMutation(b) /\ ~cancelled[b]
  <2>1. /\ stage[b] = "mutate" /\ stage' = [stage EXCEPT ![b] = "locking"]
        /\ UNCHANGED <<plan, selected, status, queue, cancelled>>
    BY <1>2 DEF CheckMutation
  <2>2. TypeOK'
    BY <1>0, <2>1 DEF TypeOK, BatchPC
  <2>3. PlaceInv(b)'
    BY <1>0, <2>1 DEF PlaceInv, TypeOK, Ended
  <2>4. OrderInv(b)' /\ QueueInv'
    BY <2>1, OrderKept, QueueKept DEF InResults
  <2> QED BY <1>0, <2>1, <2>2, <2>3, <2>4, Local DEF TypeOK
<1>3. CASE Lock(b) /\ cancelled[b]
  BY <1>3, EndMutationKeeps DEF Lock
<1>4. CASE Lock(b) /\ ~cancelled[b]
  <2>1. /\ stage[b] = "locking" /\ MutationLockFree
        /\ stage' = [stage EXCEPT ![b] = "effect"]
        /\ Settle(b, selected[b], "running")
        /\ UNCHANGED <<plan, selected, queue, cancelled>>
    BY <1>4 DEF Lock
  <2>2. /\ status' \in [Batch -> [Action -> Status]]
        /\ \A c \in Batch \ {b} : status'[c] = status[c]
        /\ \A i \in Action :
               status'[b][i] = IF i \in selected[b] THEN "running" ELSE status[b][i]
    <3>1. "running" \in Status
      BY DEF Status
    <3> QED BY ONLY <1>0, <2>1, <3>1, Settled
  <2>3. TypeOK'
    BY <1>0, <2>1, <2>2 DEF TypeOK, BatchPC
  <2>4. PlaceInv(b)'
    BY <1>0, <2>1, <2>2 DEF PlaceInv, TypeOK, Ended
  <2>5. OrderInv(b)'
    BY <1>0, <2>1, <2>2, OrderKept DEF InResults, PlaceInv
  <2>6. QueueInv'
    <3>1. \A i \in Action : status[b][i] # "queued"
      BY <1>0, <2>1 DEF PlaceInv
    <3> QED BY <2>1, <2>2, <3>1, QueueKept
  <2> QED BY <1>0, <2>1, <2>2, <2>3, <2>4, <2>5, <2>6, Local DEF TypeOK
<1>5. CASE Return(b)
  BY <1>5, EndMutationKeeps DEF Return
<1> QED BY <1>1, <1>2, <1>3, <1>4, <1>5

\* A new entry at the end of the queue, of a read that was not queued.
LEMMA QueueAppended ==
    ASSUME Inv, NEW b \in Batch, NEW i \in Action,
           status[b][i] # "queued", status'[b][i] = "queued",
           queue' = Append(queue, <<b, i>>),
           \A c \in Batch \ {b} : status'[c] = status[c],
           \A j \in Action \ {i} : status'[b][j] = status[b][j]
    PROVE  QueueInv'
<1>1. queue \in Seq(Batch \X Action) /\ <<b, i>> \in Batch \X Action
  BY DEF Inv, TypeOK
<1>2. /\ Len(queue') = Len(queue) + 1
      /\ Len(queue) \in Nat
      /\ \A n \in 1 .. Len(queue) : queue'[n] = queue[n] /\ queue[n] \in Batch \X Action
      /\ queue'[Len(queue) + 1] = <<b, i>>
  BY <1>1
<1>3. \A n \in 1 .. Len(queue) : queue[n] # <<b, i>>
  BY DEF Inv, QueueInv
<1>4. \A n \in 1 .. Len(queue') : status'[queue'[n][1]][queue'[n][2]] = "queued"
  <2> SUFFICES ASSUME NEW n \in 1 .. Len(queue')
               PROVE  status'[queue'[n][1]][queue'[n][2]] = "queued"
    OBVIOUS
  <2>1. CASE n = Len(queue) + 1
    BY <1>2, <2>1
  <2>2. CASE n \in 1 .. Len(queue)
    <3>1. PICK c \in Batch, j \in Action : queue[n] = <<c, j>>
      BY <1>2, <2>2
    <3>2. status[c][j] = "queued"
      BY <2>2, <3>1 DEF Inv, QueueInv
    <3>3. status'[c][j] = "queued"
      BY <1>3, <2>2, <3>1, <3>2
    <3> QED BY <1>2, <2>2, <3>1, <3>3
  <2> QED BY <1>2, <2>1, <2>2
<1>5. \A n, k \in 1 .. Len(queue') : queue'[n] = queue'[k] => n = k
  <2>1. \A n \in 1 .. Len(queue') : n \in 1 .. Len(queue) \/ n = Len(queue) + 1
    BY <1>2
  <2> QED BY <1>2, <1>3, <2>1 DEF Inv, QueueInv
<1> QED BY <1>4, <1>5 DEF QueueInv

\* The entry at the head of the queue is taken.
LEMMA QueueTaken ==
    ASSUME Inv, NEW b \in Batch, NEW i \in Action,
           queue # <<>>, Head(queue) = <<b, i>>, queue' = Tail(queue),
           \A c \in Batch \ {b} : status'[c] = status[c],
           \A j \in Action \ {i} : status'[b][j] = status[b][j]
    PROVE  QueueInv'
<1>1. queue \in Seq(Batch \X Action)
  BY DEF Inv, TypeOK
<1>2. /\ Len(queue) \in Nat \ {0}
      /\ Len(queue') = Len(queue) - 1
      /\ \A n \in 1 .. Len(queue') : queue'[n] = queue[n + 1]
      /\ \A n \in 1 .. Len(queue) : queue[n] \in Batch \X Action
      /\ queue[1] = <<b, i>>
  BY <1>1
<1>3. \A n \in 1 .. Len(queue') : n + 1 \in 1 .. Len(queue) /\ n + 1 # 1
  BY <1>2
<1>4. ASSUME NEW n \in 1 .. Len(queue')
      PROVE  status'[queue'[n][1]][queue'[n][2]] = "queued"
  <2>1. queue[n + 1] # <<b, i>>
    BY <1>2, <1>3 DEF Inv, QueueInv
  <2>2. PICK c \in Batch, j \in Action : queue[n + 1] = <<c, j>>
    BY <1>2, <1>3
  <2>3. status[c][j] = "queued"
    BY <1>3, <2>2 DEF Inv, QueueInv
  <2>4. status'[c][j] = "queued"
    BY <2>1, <2>2, <2>3
  <2> QED BY <1>2, <2>2, <2>4
<1>5. \A n, k \in 1 .. Len(queue') : queue'[n] = queue'[k] => n = k
  <2>1. ASSUME NEW n \in 1 .. Len(queue'), NEW k \in 1 .. Len(queue'), queue'[n] = queue'[k]
        PROVE  n = k
    <3>1. n + 1 = k + 1
      BY <1>2, <1>3, <2>1 DEF Inv, QueueInv
    <3> QED BY <1>2, <3>1
  <2> QED BY <2>1
<1> QED BY <1>4, <1>5 DEF QueueInv

\* One read of a group of b changes from an unsettled status to another.
LEMMA ReadMoves ==
    ASSUME Inv, NEW b \in Batch, NEW i \in selected[b],
           NEW value \in {"queued", "running", "ok", "error"},
           stage[b] \in {"submit", "collect"},
           status[b][i] \in {"pending", "queued", "running"},
           Settle(b, {i}, value),
           UNCHANGED <<plan, stage, selected, cancelled>>,
           queue' \in Seq(Batch \X Action),
           QueueInv'
    PROVE  Inv'
<1>0. /\ PlaceInv(b) /\ TypeOK
      /\ value \in Status
      /\ i \in Action
  BY DEF Inv, Status, TypeOK
<1>1. /\ status' \in [Batch -> [Action -> Status]]
      /\ \A c \in Batch \ {b} : status'[c] = status[c]
      /\ \A j \in Action : status'[b][j] = IF j \in {i} THEN value ELSE status[b][j]
  BY ONLY <1>0, Settle(b, {i}, value), Settled
<1>2. TypeOK'
  BY <1>0, <1>1 DEF TypeOK
<1>3. PlaceInv(b)'
  BY <1>0, <1>1 DEF PlaceInv, Ended
<1>4. OrderInv(b)'
  BY <1>0, <1>1, OrderKept DEF InResults
<1> QED BY <1>1, <1>2, <1>3, <1>4, Local

LEMMA ReadKeeps ==
    ASSUME Inv, NEW b \in Batch, NEW i \in Action, ReadStep(b, i)
    PROVE  Inv'
<1>0. PlaceInv(b) /\ TypeOK
  BY DEF Inv
<1>1. CASE TakeRead(b, i)
  <2>1. queue # <<>> /\ Head(queue) = <<b, i>> /\ queue' = Tail(queue)
    BY <1>1 DEF TakeRead
  <2>2. PICK value \in {"running", "error"} : Settle(b, {i}, value)
    BY <1>1 DEF TakeRead, Tried
  <2>3. queue \in Seq(Batch \X Action) /\ Len(queue) >= 1 /\ queue[1] = <<b, i>>
    BY <1>0, <2>1 DEF TypeOK
  <2>4. status[b][i] = "queued"
    <3>1. 1 \in 1 .. Len(queue)
      BY <2>3
    <3> QED BY <2>3, <3>1 DEF Inv, QueueInv
  <2>5. i \in selected[b] /\ stage[b] \in {"submit", "collect"}
    BY <1>0, <2>4 DEF PlaceInv
  <2>6. /\ \A c \in Batch \ {b} : status'[c] = status[c]
        /\ \A j \in Action : status'[b][j] = IF j \in {i} THEN value ELSE status[b][j]
    <3>1. value \in Status
      BY DEF Status
    <3> QED BY ONLY <1>0, <2>2, <3>1, Settled
  <2>7. queue' \in Seq(Batch \X Action)
    BY <2>1, <2>3
  <2>8. QueueInv'
    BY <2>1, <2>6, QueueTaken
  <2> QED BY <1>1, <2>2, <2>4, <2>5, <2>7, <2>8, ReadMoves DEF TakeRead
<1>2. CASE EndRead(b, i)
  <2>1. status[b][i] = "running" /\ i \notin plan[b].mutations
    BY <1>2 DEF EndRead, RunningReads
  <2>2. i \in selected[b] /\ stage[b] \in {"submit", "collect"}
    BY <1>0, <2>1 DEF PlaceInv
  <2>3. PICK value \in {"ok", "error"} : Settle(b, {i}, value)
    BY <1>2 DEF EndRead
  <2>4. /\ \A c \in Batch \ {b} : status'[c] = status[c]
        /\ \A j \in Action : status'[b][j] = IF j \in {i} THEN value ELSE status[b][j]
    <3>1. value \in Status
      BY DEF Status
    <3> QED BY ONLY <1>0, <2>3, <3>1, Settled
  <2>5. QueueInv'
    BY <1>2, <2>1, <2>4, QueueKept DEF EndRead
  <2> QED BY <1>0, <1>2, <2>1, <2>2, <2>3, <2>5, ReadMoves DEF EndRead, TypeOK
<1> QED BY <1>1, <1>2 DEF ReadStep

LEMMA GroupKeeps ==
    ASSUME Inv, NEW b \in Batch, Submit(b) \/ Submitted(b) \/ Collect(b)
    PROVE  Inv'
<1>0. PlaceInv(b) /\ TypeOK
  BY DEF Inv
<1>1. CASE Submit(b)
  <2>1. PICK i \in Unsubmitted(b) : queue' = Append(queue, <<b, i>>) /\ Settle(b, {i}, "queued")
    BY <1>1 DEF Submit
  <2>2. i \in selected[b] /\ i \in Action /\ status[b][i] = "pending"
    BY <1>0 DEF Unsubmitted, TypeOK
  <2>3. /\ \A c \in Batch \ {b} : status'[c] = status[c]
        /\ \A j \in Action : status'[b][j] = IF j \in {i} THEN "queued" ELSE status[b][j]
    <3>1. "queued" \in Status
      BY DEF Status
    <3> QED BY ONLY <1>0, <2>1, <3>1, Settled
  <2>4. queue' \in Seq(Batch \X Action)
    BY <1>0, <2>1, <2>2 DEF TypeOK
  <2>5. QueueInv'
    BY <2>1, <2>2, <2>3, QueueAppended
  <2> QED BY <1>1, <2>1, <2>2, <2>4, <2>5, ReadMoves DEF Submit
<1>2. CASE Submitted(b)
  <2>1. TypeOK'
    BY <1>0, <1>2 DEF TypeOK, Submitted, BatchPC
  <2>2. PlaceInv(b)'
    BY <1>0, <1>2 DEF PlaceInv, Submitted, TypeOK, Ended
  <2>3. OrderInv(b)' /\ QueueInv'
    BY <1>2, OrderKept, QueueKept DEF Submitted, InResults
  <2> QED BY <1>0, <1>2, <2>1, <2>2, <2>3, Local DEF Submitted, TypeOK
<1>3. CASE Collect(b)
  <2>1. /\ \A c \in Batch \ {b} : status'[c] = status[c]
        /\ \A i \in Action : status'[b][i] = ResultFor(status[b][i])
    BY <1>0, <1>3 DEF Collect, TypeOK
  <2>2. \A s \in Status : ResultFor(s) \in Status
    BY DEF ResultFor, Status
  <2>3. TypeOK'
    <3>1. status' \in [Batch -> [Action -> Status]]
      BY <1>0, <1>3, <2>2 DEF Collect, TypeOK
    <3> QED BY <1>0, <1>3, <3>1 DEF Collect, TypeOK, BatchPC
  <2>4. \A i \in Action : status[b][i] \notin {"queued", "running"}
    BY <1>0, <1>3 DEF Collect, Outstanding, PlaceInv
  <2>5. \A i \in Action : status'[b][i] \notin {"queued", "running", "ok", "error"}
    BY <1>0, <2>1, <2>4 DEF ResultFor, TypeOK
  <2>6. \A i \in Action : status[b][i] # "planned"
    BY <1>0, <1>3 DEF PlaceInv, Collect
  <2>7. PlaceInv(b)'
    <3>1. \A i \in Action : status'[b][i] # "planned"
      BY <1>0, <2>1, <2>6 DEF ResultFor, TypeOK
    <3> QED BY <1>0, <1>3, <2>5, <3>1 DEF PlaceInv, Collect, TypeOK, Ended
  <2>8. OrderInv(b)'
    <3>1. \A i \in Action : InResults(b, i) => InResults(b, i)'
      BY <2>1 DEF InResults, ResultFor
    <3>2. \A i \in Action : status'[b][i] \in Chosen => status[b][i] \in Chosen
      BY <1>0, <2>1 DEF ResultFor, Chosen, TypeOK
    <3>3. selected'[b] = {} /\ plan' = plan
      BY <1>0, <1>3 DEF Collect, TypeOK
    <3> QED BY <3>1, <3>2, <3>3, OrderKept
  <2>9. QueueInv'
    BY <1>3, <2>1, <2>4, QueueKept DEF Collect
  <2> QED BY <1>0, <1>3, <2>1, <2>3, <2>7, <2>8, <2>9, Local DEF Collect, TypeOK
<1> QED BY <1>1, <1>2, <1>3

LEMMA CancelKeeps ==
    ASSUME Inv, NEW b \in Batch, Cancel(b) PROVE Inv'
<1>1. TypeOK'
  BY DEF Inv, TypeOK, Cancel
<1>2. \A c \in Batch : PlaceInv(c)' /\ OrderInv(c)'
  BY DEF Inv, PlaceInv, OrderInv, InResults, Cancel
<1> QED BY <1>1, <1>2 DEF Inv, LockInv, QueueInv, Cancel

LEMMA StutterKeeps ==
    ASSUME Inv, UNCHANGED vars PROVE Inv'
<1>1. TypeOK'
  BY DEF Inv, TypeOK, vars
<1>2. \A c \in Batch : PlaceInv(c)' /\ OrderInv(c)'
  BY DEF Inv, PlaceInv, OrderInv, InResults, vars
<1> QED BY <1>1, <1>2 DEF Inv, LockInv, QueueInv, vars

LEMMA NextInv == Inv /\ [Next]_vars => Inv'
<1> SUFFICES ASSUME Inv, [Next]_vars PROVE Inv'
  OBVIOUS
<1>1. ASSUME NEW b \in Batch, BatchStep(b) PROVE Inv'
  BY <1>1, ValidateKeeps, LoopKeeps, MutationKeeps, GroupKeeps DEF BatchStep
<1>2. ASSUME NEW b \in Batch, NEW i \in Action, ReadStep(b, i) PROVE Inv'
  BY <1>2, ReadKeeps
<1>3. ASSUME NEW b \in Batch, Cancel(b) PROVE Inv'
  BY <1>3, CancelKeeps
<1>4. CASE AllEnded \/ UNCHANGED vars
  BY <1>4, StutterKeeps DEF AllEnded
<1> QED BY <1>1, <1>2, <1>3, <1>4 DEF Next

LEMMA SpecInv == Spec => []Inv
BY InitInv, NextInv, PTL DEF Spec

-----------------------------------------------------------------------------
(* The theorems.                                                           *)

\* The types of BatchScheduler hold in every state.
THEOREM SpecTypeOK == Spec => []TypeOK
<1>1. Inv => TypeOK
  BY DEF Inv
<1> QED BY <1>1, SpecInv, PTL

\* A mutation runs alone: no other action of its batch is with the executor
\* and no other batch runs a mutation, whatever is cancelled meanwhile.
THEOREM SpecMutationIsExclusive == Spec => []MutationIsExclusive
<1>1. ASSUME Inv, NEW b \in Batch, NEW m \in plan[b].mutations, status[b][m] = "running"
      PROVE  /\ stage[b] = "effect" /\ selected[b] = {m}
             /\ \A i \in Action \ {m} : status[b][i] \notin {"queued", "running", "ok", "error"}
  <2>1. m \in Action
    BY <1>1, PlanParts DEF Inv
  <2>2. PlaceInv(b)
    BY <1>1 DEF Inv
  <2>3. m \in selected[b] /\ stage[b] \in {"submit", "collect", "effect"}
    BY <1>1, <2>1, <2>2 DEF PlaceInv
  <2>4. stage[b] = "effect" /\ selected[b] = {m}
    BY <2>2, <2>3 DEF PlaceInv
  <2> QED BY <2>2, <2>4 DEF PlaceInv
<1>2. Inv => MutationIsExclusive
  <2> SUFFICES ASSUME Inv, NEW b \in Batch, NEW m \in plan[b].mutations,
                      status[b][m] = "running"
               PROVE  /\ \A i \in Action \ {m} :
                             status[b][i] \notin {"queued", "running", "ok", "error"}
                      /\ \A c \in Batch \ {b} : \A n \in plan[c].mutations :
                             status[c][n] # "running"
    BY DEF MutationIsExclusive
  <2>1. stage[b] = "effect"
    BY <1>1
  <2>2. ASSUME NEW c \in Batch \ {b}, NEW n \in plan[c].mutations, status[c][n] = "running"
        PROVE  FALSE
    <3>1. stage[c] = "effect"
      BY <1>1, <2>2
    <3> QED BY <2>1, <3>1 DEF Inv, LockInv
  <2> QED BY <1>1, <2>2
<1> QED BY <1>2, SpecInv, PTL

\* A batch that has ended, with its results or with an error, has nothing left
\* with the executor.
THEOREM SpecNothingOutlivesTheBatch == Spec => []NothingOutlivesTheBatch
<1>1. Inv => NothingOutlivesTheBatch
  BY DEF Inv, PlaceInv, NothingOutlivesTheBatch, Ended
<1> QED BY <1>1, SpecInv, PTL

\* An action starts to run in one of two steps: its batch takes the lock for
\* it, or a thread of the executor takes it from the queue.
LEMMA Starting ==
    ASSUME Inv, [Next]_vars, NEW b \in Batch, NEW i \in Action,
           status[b][i] # "running", status'[b][i] = "running"
    PROVE  \/ /\ selected[b] = {i} /\ i \in plan[b].mutations
              /\ status[b][i] = "pending" /\ ~cancelled[b]
           \/ status[b][i] = "queued" /\ i \notin plan[b].mutations
<1>0. TypeOK /\ \A c \in Batch : PlaceInv(c)
  BY DEF Inv
<1>1. ASSUME NEW c \in Batch, NEW S, NEW value \in Status, Settle(c, S, value)
      PROVE  c = b /\ i \in S /\ value = "running"
  BY ONLY <1>0, <1>1, Settled, status[b][i] # "running", status'[b][i] = "running",
          b \in Batch, i \in Action
<1>2. Status = Status \cup {"skipped", "failed", "succeeded", "queued", "ok", "error", "running"}
  BY DEF Status
<1>3. ASSUME NEW c \in Batch, EndMutation(c, "failed") PROVE FALSE
  BY <1>1, <1>2, <1>3 DEF EndMutation
<1>4. ASSUME NEW c \in Batch, BatchStep(c) PROVE Lock(b) /\ ~cancelled[b] /\ i \in selected[b]
  <2>1. CASE Validate(c)
    BY <1>0, <2>1 DEF Validate, TypeOK
  <2>2. CASE SkipDependents(c) \/ SkipRest(c)
    BY <1>1, <1>2, <2>2 DEF SkipDependents, SkipRest
  <2>3. CASE \/ Finish(c) \/ RaiseCancelled(c) \/ SelectMutation(c)
             \/ SelectReads(c) \/ Submitted(c)
    BY <2>3 DEF Finish, RaiseCancelled, SelectMutation, SelectReads, Submitted, Select
  <2>4. CASE CheckMutation(c)
    BY <1>3, <2>4 DEF CheckMutation
  <2>5. CASE Return(c)
    BY <1>1, <1>2, <2>5 DEF Return, EndMutation
  <2>6. CASE Submit(c)
    BY <1>1, <1>2, <2>6 DEF Submit
  <2>7. CASE Collect(c)
    <3>1. \A j \in Action : status'[c][j] = ResultFor(status[c][j])
      BY <1>0, <2>7 DEF Collect, TypeOK
    <3>2. \A s : ResultFor(s) = "running" => s = "running"
      BY DEF ResultFor
    <3>3. c # b => status'[b] = status[b]
      BY <1>0, <2>7 DEF Collect, TypeOK
    <3> QED BY <3>1, <3>2, <3>3
  <2>8. CASE Lock(c)
    <3>1. ~cancelled[c] /\ Settle(c, selected[c], "running")
      BY <1>3, <2>8 DEF Lock
    <3>2. c = b /\ i \in selected[c]
      BY <1>1, <1>2, <3>1
    <3> QED BY <2>8, <3>1, <3>2
  <2> QED BY <1>4, <2>1, <2>2, <2>3, <2>4, <2>5, <2>6, <2>7, <2>8 DEF BatchStep
<1>5. ASSUME NEW c \in Batch, NEW j \in Action, ReadStep(c, j) PROVE TakeRead(b, i)
  <2>1. CASE TakeRead(c, j)
    <3>1. PICK value \in {"running", "error"} : Settle(c, {j}, value)
      BY <2>1 DEF TakeRead, Tried
    <3>2. c = b /\ i \in {j}
      BY <1>1, <1>2, <3>1
    <3> QED BY <2>1, <3>2
  <2>2. CASE EndRead(c, j)
    <3>1. PICK value \in {"ok", "error"} : Settle(c, {j}, value)
      BY <2>2 DEF EndRead
    <3> QED BY <1>1, <1>2, <3>1
  <2> QED BY <1>5, <2>1, <2>2 DEF ReadStep
<1>6. (Lock(b) /\ ~cancelled[b] /\ i \in selected[b]) \/ TakeRead(b, i)
  <2>1. CASE \E c \in Batch : Cancel(c)
    BY <2>1 DEF Cancel
  <2>2. CASE AllEnded \/ UNCHANGED vars
    BY <2>2 DEF AllEnded, vars
  <2> QED BY <1>4, <1>5, <2>1, <2>2 DEF Next
<1>7. CASE Lock(b) /\ ~cancelled[b] /\ i \in selected[b]
  BY <1>0, <1>7 DEF Lock, PlaceInv
<1>8. CASE TakeRead(b, i)
  <2>1. queue \in Seq(Batch \X Action) /\ 1 \in 1 .. Len(queue) /\ queue[1] = <<b, i>>
    BY <1>0, <1>8 DEF TypeOK, TakeRead
  <2>2. status[b][i] = "queued"
    BY <2>1 DEF Inv, QueueInv
  <2> QED BY <1>0, <2>2 DEF PlaceInv
<1> QED BY <1>6, <1>7, <1>8

\* A read or a mutation starts exactly where the array places it among the
\* mutations, for every graph.
THEOREM SpecStartsInArrayOrder == Spec => StartsInArrayOrder
<1>1. ASSUME Inv, [Next]_vars, NEW b \in Batch, NEW i \in Action,
             status[b][i] # "running", status'[b][i] = "running",
             NEW m \in plan[b].mutations \ {i}
      PROVE  IF m < i THEN InResults(b, m) ELSE status[b][m] \in {"pending", "skipped"}
  <2>0. OrderInv(b) /\ PlaceInv(b) /\ TypeOK /\ m \in Action
    BY <1>1, PlanParts DEF Inv
  <2>1. i \in selected[b] /\ status[b][i] \in {"pending", "queued"}
    BY <1>1, <2>0, Starting DEF PlaceInv
  <2>2. CASE m < i
    BY <2>0, <2>1, <2>2, Barriers DEF OrderInv
  <2>3. CASE ~(m < i)
    <3>1. i < m
      BY <1>1, <2>0, <2>3, BatchAssumption DEF Action
    <3>2. ~InResults(b, i)
      BY <2>1 DEF InResults
    <3>3. status[b][m] \notin Chosen
      BY <2>0, <3>1, <3>2, Barriers DEF OrderInv
    <3>4. status[b][m] # "planned"
      BY <2>0, <2>1 DEF PlaceInv, Ended
    <3> QED BY <2>0, <2>3, <3>3, <3>4 DEF Chosen, TypeOK, Status
  <2> QED BY <2>2, <2>3
<1>2. Inv /\ [Next]_vars =>
          [\A b \in Batch, i \in Action :
              (status[b][i] # "running" /\ status'[b][i] = "running") =>
                  \A m \in plan[b].mutations \ {i} :
                      IF m < i THEN InResults(b, m)
                      ELSE status[b][m] \in {"pending", "skipped"}]_vars
  BY <1>1
<1> QED BY <1>2, SpecInv, PTL DEF Spec, StartsInArrayOrder

\* The check under the lock is enough: no mutation starts in a cancelled batch.
THEOREM SpecNoMutationOnceCancelled == Spec => NoMutationOnceCancelled
<1>1. Inv /\ [Next]_vars =>
          [\A b \in Batch : \A m \in plan[b].mutations :
              (status[b][m] # "running" /\ status'[b][m] = "running") => ~cancelled[b]]_vars
  BY Starting, PlanParts DEF Inv
<1> QED BY <1>1, SpecInv, PTL DEF Spec, NoMutationOnceCancelled

-----------------------------------------------------------------------------
(* Induction.  What holds of 0 and of n + 1 when it holds of n is a set    *)
(* that holds all numbers, and a function can be iterated.                 *)

LEMMA SetInduction ==
    ASSUME NEW S, 0 \in S, \A n \in Nat : n \in S => n + 1 \in S
    PROVE  Nat \subseteq S
<1> SUFFICES ASSUME Nat \ S # {}
             PROVE  FALSE
  OBVIOUS
<1>1. \E x \in Nat \ S : \A y \in Nat \ S : <<y, x>> \notin OpToRel(<, Nat)
  BY NatLessThanWellFounded, WFMin
<1>2. PICK x \in Nat \ S : \A y \in Nat \ S : <<y, x>> \notin OpToRel(<, Nat)
  BY <1>1
<1>3. x \in Nat /\ x # 0
  BY <1>2
<1>5. x - 1 \in Nat /\ x - 1 < x /\ (x - 1) + 1 = x
  BY <1>3
<1>4. x - 1 \in S
  BY <1>2, <1>3, <1>5 DEF OpToRel
<1> QED
  BY <1>2, <1>4, <1>5

LEMMA Iterates ==
    ASSUME NEW A, NEW a \in A, NEW H \in [A -> A]
    PROVE  \E g \in [Nat -> A] : g[0] = a /\ \A k \in Nat : g[k + 1] = H[g[k]]
<1> DEFINE Upto(f, n) == f \in [0 .. n -> A] /\ f[0] = a /\ \A k \in Nat : k < n => f[k + 1] = H[f[k]]
<1>1. \A n \in Nat : \E f : Upto(f, n)
  <2> DEFINE S == {n \in Nat : \E f : Upto(f, n)}
  <2>1. 0 \in S
    <3>1. Upto([k \in 0 .. 0 |-> a], 0)
      OBVIOUS
    <3> QED
      BY <3>1
  <2>2. ASSUME NEW n \in Nat, n \in S
        PROVE  n + 1 \in S
    <3>1. PICK f : Upto(f, n)
      BY <2>2
    <3> DEFINE g == [k \in 0 .. n + 1 |-> IF k = n + 1 THEN H[f[n]] ELSE f[k]]
    <3>2. f[n] \in A /\ H[f[n]] \in A
      BY <3>1
    <3>3. g \in [0 .. n + 1 -> A] /\ g[0] = a
      BY <3>1, <3>2
    <3>4. ASSUME NEW k \in Nat, k < n + 1
          PROVE  g[k + 1] = H[g[k]]
      <4>1. k \in 0 .. n + 1 /\ k + 1 \in 0 .. n + 1 /\ k # n + 1
        BY <3>4
      <4>2. g[k] = f[k]
        BY <4>1
      <4>3. CASE k = n
        BY <4>1, <4>2, <4>3
      <4>4. CASE k # n
        <5>1. k < n /\ k + 1 # n + 1
          BY <3>4, <4>4
        <5>2. g[k + 1] = f[k + 1]
          BY <4>1, <5>1
        <5> QED
          BY <3>1, <4>2, <5>1, <5>2
      <4> QED
        BY <4>3, <4>4
    <3> HIDE DEF g
    <3>5. Upto(g, n + 1)
      BY <3>3, <3>4
    <3> QED
      BY <3>5
  <2> HIDE DEF S
  <2>3. Nat \subseteq S
    BY <2>1, <2>2, SetInduction
  <2> QED
    BY <2>3 DEF S
<1>2. ASSUME NEW n \in Nat, NEW m \in Nat, NEW f, NEW g, Upto(f, n), Upto(g, m)
      PROVE  \A k \in Nat : k <= n /\ k <= m => f[k] = g[k]
  <2> DEFINE S == {k \in Nat : k <= n /\ k <= m => f[k] = g[k]}
  <2>1. 0 \in S
    BY <1>2
  <2>2. ASSUME NEW k \in Nat, k \in S
        PROVE  k + 1 \in S
    BY <1>2, <2>2
  <2> HIDE DEF S
  <2>3. Nat \subseteq S
    BY <2>1, <2>2, SetInduction
  <2> QED
    BY <2>3 DEF S
<1> DEFINE F(n) == CHOOSE f : Upto(f, n)
           g == [k \in Nat |-> F(k)[k]]
<1>3. \A n \in Nat : Upto(F(n), n)
  BY <1>1
<1> HIDE DEF F
<1>4. g \in [Nat -> A] /\ g[0] = a
  BY <1>3
<1>5. ASSUME NEW k \in Nat
      PROVE  g[k + 1] = H[g[k]]
  <2>1. F(k + 1)[k + 1] = H[F(k + 1)[k]]
    <3> DEFINE f == F(k + 1)
    <3>1. k + 1 \in Nat /\ k < k + 1
      OBVIOUS
    <3>2. Upto(f, k + 1)
      BY <1>3, <3>1
    <3> HIDE DEF f
    <3>3. f[k + 1] = H[f[k]]
      BY <3>1, <3>2
    <3> QED
      BY <3>3 DEF f
  <2>2. F(k + 1)[k] = F(k)[k]
    <3>1. k + 1 \in Nat /\ k <= k + 1 /\ k <= k
      OBVIOUS
    <3>2. Upto(F(k + 1), k + 1) /\ Upto(F(k), k)
      BY <1>3, <3>1
    <3> HIDE DEF Upto
    <3> QED
      BY <1>2, <3>1, <3>2
  <2> QED
    BY <2>1, <2>2
<1> QED
  BY <1>4, <1>5
-----------------------------------------------------------------------------
(* The cycle check of validate_batch(): exactly the graphs without a cycle *)
(* are visited as a whole.                                                 *)

\* The rounds of Visited.
LEMMA VisitedRounds ==
    ASSUME NEW p
    PROVE  \E after \in [Nat -> SUBSET Action] :
              /\ after[0] = {}
              /\ \A k \in Nat : after[k + 1] = {i \in Action : Predecessors(p, i) \subseteq after[k]}
              /\ Visited(p) = after[Size]
<1> DEFINE F(g) == [k \in Nat |-> IF k = 0 THEN {} ELSE {i \in Action : Predecessors(p, i) \subseteq g[k - 1]}]
           after == CHOOSE g : g = F(g)
           H == [X \in SUBSET Action |-> {i \in Action : Predecessors(p, i) \subseteq X}]
<1>1. Visited(p) = after[Size]
  BY DEF Visited, EnoughRounds
<1>2. \E g \in [Nat -> SUBSET Action] : g[0] = {} /\ \A k \in Nat : g[k + 1] = H[g[k]]
  <2> DEFINE A == SUBSET Action
             a == {}
  <2>1. H \in [A -> A] /\ a \in A
    OBVIOUS
  <2> HIDE DEF H, A, a
  <2>2. \E g \in [Nat -> A] : g[0] = a /\ \A k \in Nat : g[k + 1] = H[g[k]]
    BY <2>1, Iterates
  <2> QED
    BY <2>2 DEF A, a
<1>3. \E g : g = F(g)
  <2>1. PICK g \in [Nat -> SUBSET Action] : g[0] = {} /\ \A k \in Nat : g[k + 1] = H[g[k]]
    BY <1>2
  <2>2. ASSUME NEW k \in Nat
        PROVE  g[k] = F(g)[k]
    <3>1. CASE k = 0
      BY <2>1, <3>1
    <3>2. CASE k # 0
      <4>1. k - 1 \in Nat /\ (k - 1) + 1 = k
        BY <3>2
      <4>2. g[k] = H[g[k - 1]] /\ g[k - 1] \in SUBSET Action
        BY <2>1, <4>1
      <4> QED
        BY <3>2, <4>2
    <3> QED
      BY <3>1, <3>2
  <2>3. g = F(g)
    BY <2>1, <2>2
  <2> QED
    BY <2>3
<1>4. after = F(after)
  BY <1>3
<1> HIDE DEF after
<1>5. after \in [Nat -> SUBSET Action]
  <2>1. \A k \in Nat : F(after)[k] \in SUBSET Action
    OBVIOUS
  <2>2. F(after) \in [Nat -> SUBSET Action]
    BY <2>1
  <2> QED
    BY <1>4, <2>2
<1>6. after[0] = {}
  <2>1. F(after)[0] = {}
    OBVIOUS
  <2> QED
    BY <1>4, <2>1
<1>7. ASSUME NEW k \in Nat
      PROVE  after[k + 1] = {i \in Action : Predecessors(p, i) \subseteq after[k]}
  <2>1. k + 1 \in Nat /\ k + 1 # 0 /\ (k + 1) - 1 = k
    OBVIOUS
  <2>2. F(after)[k + 1] = {i \in Action : Predecessors(p, i) \subseteq after[k]}
    BY <2>1
  <2> QED
    BY <1>4, <2>2
<1> QED
  BY <1>1, <1>5, <1>6, <1>7

\* No action of a cycle is ever visited.
LEMMA CyclesAreFound ==
    ASSUME NEW p, HasCycle(p)
    PROVE  ~Acyclic(p)
<1>1. PICK after \in [Nat -> SUBSET Action] :
              /\ after[0] = {}
              /\ \A k \in Nat : after[k + 1] = {i \in Action : Predecessors(p, i) \subseteq after[k]}
              /\ Visited(p) = after[Size]
  BY VisitedRounds
<1>2. PICK C \in (SUBSET Action) \ {{}} : \A i \in C : Predecessors(p, i) \cap C # {}
  BY DEF HasCycle
<1> DEFINE S == {k \in Nat : after[k] \cap C = {}}
<1>3. 0 \in S
  BY <1>1
<1>4. ASSUME NEW k \in Nat, k \in S
      PROVE  k + 1 \in S
  <2>1. after[k] \cap C = {}
    BY <1>4
  <2>2. after[k + 1] \cap C = {}
    BY <1>1, <1>2, <2>1
  <2> QED
    BY <2>2
<1> HIDE DEF S
<1>5. Nat \subseteq S
  BY <1>3, <1>4, SetInduction
<1>6. after[Size] \cap C = {}
  BY <1>5, BatchAssumption DEF S
<1> QED
  BY <1>1, <1>2, <1>6 DEF Acyclic

\* Without a cycle each round visits one more action, until all are visited.
LEMMA AcyclicIsVisited ==
    ASSUME NEW p, ~HasCycle(p), \A i \in Action : Predecessors(p, i) \subseteq Action
    PROVE  Acyclic(p)
<1>1. PICK after \in [Nat -> SUBSET Action] :
              /\ after[0] = {}
              /\ \A k \in Nat : after[k + 1] = {i \in Action : Predecessors(p, i) \subseteq after[k]}
              /\ Visited(p) = after[Size]
  BY VisitedRounds
<1>2. Size \in Nat /\ IsFiniteSet(Action) /\ Cardinality(Action) = Size
  <2>1. Size \in Nat
    BY BatchAssumption
  <2> QED
    BY <2>1, FS_Interval DEF Action
<1>3. \A k \in Nat : IsFiniteSet(after[k]) /\ Cardinality(after[k]) \in Nat /\ after[k] \subseteq Action
  BY <1>1, <1>2, FS_Subset, FS_CardinalityType
<1> DEFINE S == {k \in Nat : /\ after[k] \subseteq after[k + 1]
                             /\ after[k] = Action \/ Cardinality(after[k]) >= k}
<1>4. 0 \in S
  BY <1>1, <1>3, FS_EmptySet
<1>5. ASSUME NEW k \in Nat, k \in S
      PROVE  k + 1 \in S
  <2>1. after[k] \subseteq after[k + 1] /\ (after[k] = Action \/ Cardinality(after[k]) >= k)
    BY <1>5
  <2>2. after[k + 1] \subseteq after[(k + 1) + 1]
    BY <1>1, <2>1
  <2>3. CASE after[k] = Action
    <3>1. after[k + 1] = Action
      BY <1>1, <2>1, <2>3
    <3> QED
      BY <2>2, <3>1
  <2>4. CASE after[k] # Action
    <3>1. Action \ after[k] \in (SUBSET Action) \ {{}}
      BY <1>1, <2>4
    <3>2. PICK i \in Action \ after[k] : Predecessors(p, i) \cap (Action \ after[k]) = {}
      BY <3>1 DEF HasCycle
    <3>3. Predecessors(p, i) \subseteq after[k]
      BY <3>2
    <3>4. i \in after[k + 1]
      BY <1>1, <3>2, <3>3
    <3>5. Cardinality(after[k]) < Cardinality(after[k + 1])
      <4>1. IsFiniteSet(after[k + 1])
        BY <1>3
      <4>2. after[k] # after[k + 1]
        BY <3>2, <3>4
      <4>3. after[k] \in SUBSET after[k + 1]
        BY <2>1
      <4>4. Cardinality(after[k]) <= Cardinality(after[k + 1]) /\ Cardinality(after[k]) # Cardinality(after[k + 1])
        BY <4>1, <4>2, <4>3, FS_Subset
      <4> QED
        BY <1>3, <4>4
    <3>6. Cardinality(after[k + 1]) >= k + 1
      BY <1>3, <2>1, <2>4, <3>5
    <3> QED
      BY <2>2, <3>6
  <2> QED
    BY <2>3, <2>4
<1> HIDE DEF S
<1>6. Nat \subseteq S
  BY <1>4, <1>5, SetInduction
<1>7. after[Size] = Action
  <2>1. after[Size] = Action \/ Cardinality(after[Size]) >= Size
    BY <1>2, <1>6 DEF S
  <2>2. after[Size] # Action => Cardinality(after[Size]) < Cardinality(Action)
    BY <1>2, <1>3, FS_Subset
  <2> QED
    BY <1>2, <1>3, <2>1, <2>2
<1> QED
  BY <1>1, <1>7 DEF Acyclic

\* What validate_batch() refuses of a batch's plan.
LEMMA Checked ==
    ASSUME TypeOK, NEW b \in Batch
    PROVE  Acyclic(plan[b]) <=> ~HasCycle(plan[b])
<1>1. \A i \in Action : Predecessors(plan[b], i) \subseteq Action
  BY PlanParts, Barriers DEF Predecessors
<1> QED
  BY <1>1, CyclesAreFound, AcyclicIsVisited

\* A step of one batch leaves the others where they are, and all plans.
LEMMA Bystanders ==
    ASSUME TypeOK, NEW b \in Batch,
           BatchStep(b) \/ (\E i \in Action : ReadStep(b, i)) \/ Cancel(b)
    PROVE  /\ plan' = plan
           /\ \A c \in Batch \ {b} :
                  stage'[c] = stage[c] /\ selected'[c] = selected[c] /\ status'[c] = status[c]
<1>1. CASE Validate(b)
  BY <1>1 DEF Validate, TypeOK
<1>2. CASE SkipDependents(b) \/ SkipRest(b) \/ Finish(b) \/ RaiseCancelled(b)
  BY <1>2 DEF SkipDependents, SkipRest, Finish, RaiseCancelled, Settle, TypeOK
<1>3. CASE SelectMutation(b) \/ SelectReads(b)
  BY <1>3 DEF SelectMutation, SelectReads, Select, TypeOK
<1>4. CASE CheckMutation(b) \/ Lock(b) \/ Return(b)
  BY <1>4 DEF CheckMutation, Lock, Return, EndMutation, Settle, TypeOK
<1>5. CASE Submit(b) \/ Submitted(b) \/ Collect(b)
  BY <1>5 DEF Submit, Submitted, Collect, Settle, TypeOK
<1>6. CASE \E i \in Action : ReadStep(b, i)
  BY <1>6 DEF ReadStep, TakeRead, EndRead, Settle, TypeOK
<1>7. CASE Cancel(b)
  BY <1>7 DEF Cancel, TypeOK
<1> QED
  BY <1>1, <1>2, <1>3, <1>4, <1>5, <1>6, <1>7 DEF BatchStep

\* Only Validate decides whether a batch is refused.
LEMMA OnlyValidateRefuses ==
    ASSUME TypeOK, NEW b \in Batch,
           BatchStep(b) \/ (\E i \in Action : ReadStep(b, i)) \/ Cancel(b)
    PROVE  \/ Validate(b)
           \/ stage'[b] = stage[b]
           \/ stage[b] \notin {"validate", "invalid"} /\ stage'[b] \notin {"validate", "invalid"}
<1>1. CASE SkipDependents(b) \/ SkipRest(b) \/ Finish(b) \/ RaiseCancelled(b)
  BY <1>1 DEF SkipDependents, SkipRest, Finish, RaiseCancelled, Looping, TypeOK
<1>2. CASE SelectMutation(b) \/ SelectReads(b)
  BY <1>2 DEF SelectMutation, SelectReads, Select, Looping, TypeOK
<1>3. CASE CheckMutation(b) \/ Lock(b) \/ Return(b)
  BY <1>3 DEF CheckMutation, Lock, Return, EndMutation, TypeOK
<1>4. CASE Submit(b) \/ Submitted(b) \/ Collect(b)
  BY <1>4 DEF Submit, Submitted, Collect, TypeOK
<1>5. CASE \E i \in Action : ReadStep(b, i)
  BY <1>5 DEF ReadStep, TakeRead, EndRead
<1>6. CASE Cancel(b)
  BY <1>6 DEF Cancel
<1> QED
  BY <1>1, <1>2, <1>3, <1>4, <1>5, <1>6 DEF BatchStep

LEMMA NextRefuses == Inv /\ RefusesExactlyCycles /\ [Next]_vars => RefusesExactlyCycles'
<1> SUFFICES ASSUME Inv, RefusesExactlyCycles, [Next]_vars
             PROVE  RefusesExactlyCycles'
  OBVIOUS
<1>0. TypeOK
  BY DEF Inv
<1>1. ASSUME NEW b \in Batch, BatchStep(b) \/ (\E i \in Action : ReadStep(b, i)) \/ Cancel(b),
             NEW c \in Batch
      PROVE  stage'[c] # "validate" => (stage'[c] = "invalid" <=> HasCycle(plan'[c]))
  <2>1. plan' = plan
    BY <1>0, <1>1, Bystanders
  <2>2. CASE c # b
    <3>1. stage'[c] = stage[c]
      BY <1>0, <1>1, <2>2, Bystanders
    <3> QED
      BY <2>1, <3>1 DEF RefusesExactlyCycles
  <2>3. CASE c = b /\ Validate(b)
    <3>1. stage'[b] = "invalid" <=> ~Acyclic(plan[b])
      BY <1>0, <2>3 DEF Validate, TypeOK
    <3> QED
      BY <1>0, <2>1, <2>3, <3>1, Checked
  <2>4. CASE c = b /\ ~Validate(b)
    <3>1. \/ stage'[b] = stage[b]
          \/ stage[b] \notin {"validate", "invalid"} /\ stage'[b] \notin {"validate", "invalid"}
      BY <1>0, <1>1, <2>4, OnlyValidateRefuses
    <3> QED
      BY <2>1, <2>4, <3>1 DEF RefusesExactlyCycles
  <2> QED
    BY <2>2, <2>3, <2>4
<1>2. CASE AllEnded \/ UNCHANGED vars
  BY <1>2 DEF AllEnded, vars, RefusesExactlyCycles
<1>3. CASE \E b \in Batch : BatchStep(b) \/ (\E i \in Action : ReadStep(b, i)) \/ Cancel(b)
  BY <1>1, <1>3 DEF RefusesExactlyCycles
<1> QED
  BY <1>2, <1>3 DEF Next

\* validate_batch() refuses exactly the plans whose dependencies conflict with
\* each other or with the mutation barriers, for batches of any size.
THEOREM SpecRefusesExactlyCycles == Spec => []RefusesExactlyCycles
<1>1. Init => RefusesExactlyCycles
  BY DEF Init, RefusesExactlyCycles
<1> QED
  BY <1>1, NextRefuses, SpecInv, PTL DEF Spec

\* At the top of the loop every action is pending or has its result.
LEMMA AtTheLoop ==
    ASSUME Inv, NEW b \in Batch, stage[b] = "loop", NEW i \in Action
    PROVE  i \in Pending(b) \/ InResults(b, i)
<1>1. PlaceInv(b) /\ status[b][i] \in Status
  BY DEF Inv, TypeOK
<1> QED
  BY <1>1 DEF PlaceInv, Pending, InResults, Status

\* The loop of execute_batch() always finds something to run or to skip: what
\* would raise batch_scheduler_stalled is a cycle, and was refused.
THEOREM SpecNeverStalls == Spec => []NeverStalls
<1>1. ASSUME Inv, RefusesExactlyCycles, NEW b \in Batch, Looping(b), Ready(b) = {}
      PROVE  FALSE
  <2>1. stage[b] = "loop" /\ Pending(b) \in (SUBSET Action) \ {{}}
    BY <1>1 DEF Looping, Pending
  <2>2. ASSUME NEW i \in Pending(b)
        PROVE  Predecessors(plan[b], i) \cap Pending(b) # {}
    <3>1. PICK d \in plan[b].deps[i] \cup OrderPredecessors(plan[b], i) : ~InResults(b, d)
      BY <1>1 DEF Ready
    <3>2. i \in Action
      BY DEF Pending
    <3>3. d \in Action
      BY <1>1, <3>2, PlanParts, Barriers DEF Inv
    <3>4. d \in Pending(b)
      BY <1>1, <2>1, <3>1, <3>3, AtTheLoop
    <3> QED
      BY <3>1, <3>4 DEF Predecessors
  <2>3. HasCycle(plan[b])
    BY <2>1, <2>2 DEF HasCycle
  <2> QED
    BY <1>1, <2>1, <2>3 DEF RefusesExactlyCycles
<1>2. Inv /\ RefusesExactlyCycles => NeverStalls
  BY <1>1 DEF NeverStalls
<1> QED
  BY <1>2, SpecInv, SpecRefusesExactlyCycles, PTL

-----------------------------------------------------------------------------
(* The pass over the pending actions, and the first reads that are ready.  *)

\* The recursion of SkippedInPass is well defined: S are the actions for
\* which its function is true.
LEMMA SkippedSet ==
    ASSUME TypeOK, NEW b \in Batch
    PROVE  \E S \in SUBSET Action :
              /\ SkippedInPass(b) = Pending(b) \cap S
              /\ \A i \in Action :
                    i \in S <=> \E d \in plan[b].deps[i] :
                                   \/ status[b][d] \in {"failed", "skipped"}
                                   \/ d < i /\ d \in Pending(b) /\ d \in S
<1> DEFINE Skips(S, i) == \E d \in plan[b].deps[i] :
                             \/ status[b][d] \in {"failed", "skipped"}
                             \/ d < i /\ d \in Pending(b) /\ d \in S
           Upto(S, n) == S \subseteq 1 .. n /\ \A i \in 1 .. n : i \in S <=> Skips(S, i)
           Some == {n \in Nat : \E S : Upto(S, n)}
<1>1. 0 \in Some
  <2>1. Upto({}, 0)
    OBVIOUS
  <2> HIDE DEF Upto
  <2>2. \E S : Upto(S, 0)
    BY <2>1
  <2> QED
    BY <2>2
<1>2. ASSUME NEW n \in Nat, n \in Some
      PROVE  n + 1 \in Some
  <2>1. PICK S : Upto(S, n)
    BY <1>2
  <2> DEFINE T == S \cup {i \in {n + 1} : Skips(S, i)}
  <2>2. T \subseteq 1 .. n + 1 /\ n + 1 \notin S
    <3>1. S \subseteq 1 .. n
      BY <2>1
    <3>2. n + 1 \notin 1 .. n /\ 1 .. n \subseteq 1 .. n + 1 /\ n + 1 \in 1 .. n + 1
      OBVIOUS
    <3>3. T \subseteq S \cup {n + 1}
      OBVIOUS
    <3> HIDE DEF T
    <3> QED
      BY <3>1, <3>2, <3>3
  <2>3. ASSUME NEW i \in 1 .. n + 1
        PROVE  Skips(T, i) <=> Skips(S, i)
    <3>1. \A d : d < i /\ d \in Pending(b) => (d \in T <=> d \in S)
      <4>1. \A d \in Pending(b) : d \in Nat
        BY DEF Pending, Action
      <4>2. \A d \in Nat : d < i => d # n + 1
        OBVIOUS
      <4> QED
        BY <4>1, <4>2
    <3> HIDE DEF T
    <3> QED
      BY <3>1
  <2>4. ASSUME NEW i \in 1 .. n + 1
        PROVE  i \in T <=> Skips(S, i)
    <3>1. CASE i = n + 1
      BY <2>2, <3>1
    <3>2. CASE i # n + 1
      <4>1. i \in 1 .. n
        BY <3>2
      <4>2. i \in S <=> Skips(S, i)
        BY <2>1, <4>1
      <4> QED
        BY <3>2, <4>2
    <3> QED
      BY <3>1, <3>2
  <2> HIDE DEF T, Skips
  <2>5. Upto(T, n + 1)
    BY <2>2, <2>3, <2>4
  <2> HIDE DEF Upto
  <2>6. \E R : Upto(R, n + 1)
    BY <2>5
  <2> QED
    BY <2>6
<1> HIDE DEF Some, Upto
<1>3. Nat \subseteq Some
  BY <1>1, <1>2, SetInduction
<1>4. PICK S : Upto(S, Size)
  BY <1>3, BatchAssumption DEF Some
<1>5. S \subseteq Action /\ \A i \in Action : i \in S <=> Skips(S, i)
  BY <1>4 DEF Upto, Action
<1> DEFINE F(g) == [i \in Action |-> \E d \in plan[b].deps[i] :
                        \/ status[b][d] \in {"failed", "skipped"}
                        \/ d < i /\ d \in Pending(b) /\ g[d]]
           skips == CHOOSE g : g = F(g)
<1>6. \E g : g = F(g)
  <2> DEFINE g == [i \in Action |-> i \in S]
  <2>1. \A d \in Pending(b) : d \in Action
    BY DEF Pending
  <2>2. \A i \in Action : F(g)[i] <=> i \in S
    BY <1>5, <2>1
  <2>3. \A i \in Action : F(g)[i] \in BOOLEAN /\ g[i] \in BOOLEAN /\ (F(g)[i] <=> g[i])
    <3>1. \A i \in Action : g[i] \in BOOLEAN
      OBVIOUS
    <3>2. \A i \in Action : g[i] <=> i \in S
      OBVIOUS
    <3>3. \A i \in Action : F(g)[i] \in BOOLEAN
      <4> HIDE DEF g
      <4> QED
        OBVIOUS
    <3> HIDE DEF F, g
    <3> QED
      BY <2>2, <3>1, <3>2, <3>3
  <2> DEFINE h == F(g)
  <2>4. h = [i \in Action |-> h[i]] /\ g = [i \in Action |-> g[i]]
    OBVIOUS
  <2>5. \A i \in Action : h[i] \in BOOLEAN /\ g[i] \in BOOLEAN /\ (h[i] <=> g[i])
    BY <2>3
  <2> HIDE DEF h, g
  <2>6. \A i \in Action : h[i] = g[i]
    BY <2>5
  <2>7. h = g
    BY <2>4, <2>6
  <2> QED
    BY <2>7 DEF h
<1>7. skips = F(skips)
  BY <1>6
<1>8. SkippedInPass(b) = {i \in Pending(b) : skips[i]}
  BY DEF SkippedInPass
<1> HIDE DEF skips
<1> DEFINE X == {i \in Action : skips[i]}
<1>9. \A i \in Action : skips[i] <=> Skips(X, i)
  <2>1. \A d \in Pending(b) : d \in X <=> skips[d]
    BY DEF Pending
  <2>2. \A i \in Action : skips[i] = F(skips)[i]
    BY <1>7
  <2> HIDE DEF X
  <2>3. \A i \in Action : F(skips)[i] <=> Skips(X, i)
    BY <2>1 DEF Skips
  <2> QED
    BY <2>2, <2>3
<1>10. SkippedInPass(b) = Pending(b) \cap X
  BY <1>8 DEF Pending
<1>11. \A i \in Action : i \in X <=> Skips(X, i)
  BY <1>9
<1> HIDE DEF X
<1>12. X \in SUBSET Action
  BY DEF X
<1> QED
  BY <1>10, <1>11, <1>12 DEF Skips

\* What a pass skips has a reason, and when it skips nothing no pending
\* action depends on one that failed or was skipped.
LEMMA SkipsWithReason ==
    ASSUME TypeOK, NEW b \in Batch
    PROVE  /\ SkippedInPass(b) \subseteq Pending(b)
           /\ \A i \in SkippedInPass(b) : \E d \in plan[b].deps[i] :
                 \/ status[b][d] \in {"failed", "skipped"}
                 \/ d \in SkippedInPass(b) /\ d < i
           /\ SkippedInPass(b) = {} =>
                 \A i \in Pending(b) : \A d \in plan[b].deps[i] :
                    status[b][d] \notin {"failed", "skipped"}
<1>1. PICK S \in SUBSET Action :
              /\ SkippedInPass(b) = Pending(b) \cap S
              /\ \A i \in Action :
                    i \in S <=> \E d \in plan[b].deps[i] :
                                   \/ status[b][d] \in {"failed", "skipped"}
                                   \/ d < i /\ d \in Pending(b) /\ d \in S
  BY SkippedSet
<1>2. Pending(b) \subseteq Action
  BY DEF Pending
<1> QED
  BY <1>1, <1>2

\* A set of actions that is not empty has a last one.
LEMMA LastAction ==
    ASSUME NEW F \in SUBSET Action, F # {}
    PROVE  \E x \in F : \A y \in F : y <= x
<1> DEFINE T == {t \in Nat : Size - t \in F}
<1>1. T # {}
  <2>1. PICK x \in F : TRUE
    OBVIOUS
  <2>2. Size - x \in Nat /\ Size - (Size - x) = x
    BY BatchAssumption DEF Action
  <2>3. Size - x \in T
    BY <2>2
  <2> QED
    BY <2>3
<1>2. \E t \in T : \A u \in T : <<u, t>> \notin OpToRel(<, Nat)
  <2>1. T \subseteq Nat
    OBVIOUS
  <2> HIDE DEF T
  <2> QED
    BY <1>1, <2>1, NatLessThanWellFounded, WFMin
<1>3. PICK t \in T : \A u \in T : <<u, t>> \notin OpToRel(<, Nat)
  BY <1>2
<1>4. ASSUME NEW y \in F
      PROVE  y <= Size - t
  <2>1. y \in Nat /\ Size \in Nat /\ Size - y \in Nat /\ Size - (Size - y) = y
    BY BatchAssumption DEF Action
  <2>2. Size - y \in T
    BY <2>1
  <2>3. ~(Size - y < t)
    BY <1>3, <2>1, <2>2 DEF OpToRel
  <2>4. t \in Nat
    OBVIOUS
  <2> QED
    BY <2>1, <2>3, <2>4
<1> QED
  BY <1>3, <1>4

\* ready[:max_parallel] holds at most max_parallel reads.
LEMMA FirstReadsAreFew ==
    ASSUME TypeOK, NEW b \in Batch
    PROVE  /\ FirstReads(b) \subseteq Ready(b)
           /\ Cardinality(FirstReads(b)) <= plan[b].parallel
<1>1. FirstReads(b) \subseteq Ready(b) /\ Ready(b) \subseteq Action
  BY DEF FirstReads, Ready, Pending
<1>2. plan[b].parallel \in Nat \ {0}
  BY BatchAssumption DEF TypeOK
<1>3. \A S \in SUBSET Action : IsFiniteSet(S) /\ Cardinality(S) \in Nat
  <2>1. IsFiniteSet(Action)
    BY BatchAssumption, FS_Interval DEF Action
  <2> QED
    BY <2>1, FS_Subset, FS_CardinalityType
<1>4. CASE FirstReads(b) = {}
  BY <1>1, <1>2, <1>4, FS_EmptySet
<1>5. CASE FirstReads(b) # {}
  <2>1. PICK x \in FirstReads(b) : \A y \in FirstReads(b) : y <= x
    BY <1>1, <1>5, LastAction
  <2> DEFINE F == FirstReads(b)
             G == F \ {x}
             B == {j \in Ready(b) : j < x}
  <2>2. Cardinality(B) < plan[b].parallel
    BY DEF FirstReads
  <2>3. \A y \in G : y < x
    BY <1>1, <2>1 DEF Action
  <2>4. G \subseteq B /\ B \in SUBSET Action /\ G \in SUBSET Action /\ F \in SUBSET Action
    BY <1>1, <2>3
  <2> HIDE DEF B, G
  <2>5. Cardinality(G) <= Cardinality(B)
    BY <1>3, <2>4, FS_Subset
  <2>6. Cardinality(G) = Cardinality(F) - 1
    BY <1>3, <2>1, <2>4, FS_RemoveElement DEF G
  <2>7. Cardinality(G) \in Nat /\ Cardinality(B) \in Nat /\ Cardinality(F) \in Nat
    BY <1>3, <2>4
  <2>8. Cardinality(F) <= plan[b].parallel
    BY <1>2, <2>2, <2>5, <2>6, <2>7
  <2> QED
    BY <1>1, <2>8
<1> QED
  BY <1>4, <1>5

-----------------------------------------------------------------------------
(* A wave.  What has been selected may run until it has ended: the actions *)
(* it depends on have succeeded, nothing has failed under stop_on_error,   *)
(* and a group of reads is small enough.                                   *)

Executing == {"mutate", "locking", "effect", "submit", "collect"}

WaveInv(b) ==
    /\ stage[b] = "validate" => \A i \in Action : status[b][i] = "pending"
    /\ \A i \in selected[b] : \A d \in plan[b].deps[i] : status[b][d] = "succeeded"
    /\ stage[b] \in Executing => ~Stopped(b)
    /\ stage[b] \in {"submit", "collect"} =>
           /\ Cardinality(selected[b]) <= plan[b].parallel
           /\ \A i \in selected[b] :
                 \/ status[b][i] \in {"queued", "running", "ok", "error"}
                 \/ status[b][i] = "pending" /\ stage[b] = "submit"
    /\ stage[b] = "effect" => \A i \in selected[b] : status[b][i] = "running"

\* What the thread of the batch does before and after a wave.
LEMMA OutsideWaves ==
    ASSUME Inv, NEW b \in Batch, WaveInv(b),
           \/ Validate(b) \/ SkipDependents(b) \/ SkipRest(b) \/ Finish(b)
           \/ RaiseCancelled(b) \/ Collect(b)
           \/ \E value \in {"succeeded", "failed"} : EndMutation(b, value)
    PROVE  WaveInv(b)'
<1>0. TypeOK /\ PlaceInv(b)
  BY DEF Inv
<1>1. CASE Validate(b)
  <2>1. stage'[b] \in {"invalid", "done", "loop"} /\ selected'[b] = {}
    BY <1>0, <1>1 DEF Validate, PlaceInv, TypeOK
  <2> QED
    BY <2>1 DEF WaveInv, Executing
<1>2. CASE SkipDependents(b) \/ SkipRest(b)
  <2>1. stage'[b] = "loop" /\ selected'[b] = {}
    BY <1>0, <1>2 DEF SkipDependents, SkipRest, Looping, PlaceInv
  <2> QED
    BY <2>1 DEF WaveInv, Executing
<1>3. CASE Finish(b) \/ RaiseCancelled(b)
  <2>1. stage'[b] \in {"done", "raised"} /\ selected'[b] = {}
    BY <1>0, <1>3 DEF Finish, RaiseCancelled, PlaceInv, TypeOK
  <2> QED
    BY <2>1 DEF WaveInv, Executing
<1>4. CASE Collect(b)
  <2>1. stage'[b] \in {"raised", "loop"} /\ selected'[b] = {}
    BY <1>0, <1>4 DEF Collect, TypeOK
  <2> QED
    BY <2>1 DEF WaveInv, Executing
<1>5. CASE \E value \in {"succeeded", "failed"} : EndMutation(b, value)
  <2>1. stage'[b] = "loop" /\ selected'[b] = {}
    BY <1>0, <1>5 DEF EndMutation, TypeOK
  <2> QED
    BY <2>1 DEF WaveInv, Executing
<1> QED
  BY <1>1, <1>2, <1>3, <1>4, <1>5

\* Actions that are ready after a pass that skipped nothing have only
\* dependencies that succeeded.
LEMMA SelectingIsSound ==
    ASSUME Inv, NEW b \in Batch, WaveInv(b), SelectMutation(b) \/ SelectReads(b)
    PROVE  WaveInv(b)'
<1>0. TypeOK /\ PlaceInv(b)
  BY DEF Inv
<1>1. stage[b] = "loop" /\ ~Stopped(b) /\ SkippedInPass(b) = {}
  BY DEF SelectMutation, SelectReads, Looping
<1>2. ASSUME NEW i \in Ready(b), NEW d \in plan[b].deps[i]
      PROVE  status[b][d] = "succeeded"
  <2>1. i \in Pending(b) /\ InResults(b, d)
    BY DEF Ready
  <2>2. status[b][d] \notin {"failed", "skipped"}
    BY <1>0, <1>1, <2>1, SkipsWithReason
  <2> QED
    BY <2>1, <2>2 DEF InResults
<1>3. /\ plan' = plan /\ status' = status
      /\ selected'[b] \subseteq Ready(b)
      /\ \/ stage'[b] = "mutate"
         \/ stage'[b] = "submit" /\ Cardinality(selected'[b]) <= plan[b].parallel
  <2>1. CASE SelectMutation(b)
    <3>1. PICK n \in ReadyMutations(b) : Select(b, {n}, "mutate")
      BY <2>1 DEF SelectMutation
    <3>2. stage'[b] = "mutate" /\ selected'[b] = {n} /\ n \in Ready(b)
      BY <1>0, <3>1 DEF Select, TypeOK, ReadyMutations
    <3> QED
      BY <3>1, <3>2 DEF Select
  <2>2. CASE SelectReads(b)
    <3>1. stage'[b] = "submit" /\ selected'[b] = FirstReads(b)
      BY <1>0, <2>2 DEF SelectReads, Select, TypeOK
    <3>2. plan' = plan /\ status' = status
      BY <2>2 DEF SelectReads, Select
    <3> QED
      BY <1>0, <3>1, <3>2, FirstReadsAreFew
  <2> QED
    BY <2>1, <2>2
<1>4. \A i \in Ready(b) : status[b][i] = "pending"
  BY DEF Ready, Pending
<1>5. ~Stopped(b)'
  BY <1>1, <1>3 DEF Stopped, StopOnError
<1> QED
  BY <1>2, <1>3, <1>4, <1>5 DEF WaveInv, Executing

\* Within a wave only actions that were selected change, and none fails
\* before the wave has ended.
LEMMA WithinAWave ==
    ASSUME Inv, NEW b \in Batch, WaveInv(b), plan' = plan,
           selected'[b] = selected[b], stage[b] \in Executing,
           \A i \in Action :
              \/ status'[b][i] = status[b][i]
              \/ /\ i \in selected[b] /\ status[b][i] \in {"pending", "queued", "running"}
                 /\ status'[b][i] \in {"queued", "running", "ok", "error"},
           \/ stage'[b] = stage[b] /\ stage[b] # "effect"
           \/ stage'[b] = "locking"
           \/ stage'[b] = "collect" /\ stage[b] = "submit" /\ Unsubmitted(b) = {}
           \/ stage'[b] = "effect" /\ \A i \in selected[b] : status'[b][i] = "running"
    PROVE  WaveInv(b)'
<1>0. TypeOK /\ PlaceInv(b)
  BY DEF Inv
<1>1. selected[b] \subseteq Action /\ \A i \in Action : plan[b].deps[i] \subseteq Action
  BY <1>0, PlanParts DEF TypeOK
<1>2. stage'[b] \in Executing
  BY DEF Executing
<1>3. \A i \in selected'[b] : \A d \in plan'[b].deps[i] : status'[b][d] = "succeeded"
  BY <1>1 DEF WaveInv
<1>4. ~Stopped(b)'
  <2>1. ~Stopped(b)
    BY DEF WaveInv
  <2>2. \A i \in Action : status'[b][i] = "failed" => status[b][i] = "failed"
    OBVIOUS
  <2> QED
    BY <2>1, <2>2 DEF Stopped, StopOnError
<1>5. stage'[b] \in {"submit", "collect"} =>
          /\ Cardinality(selected'[b]) <= plan'[b].parallel
          /\ \A i \in selected'[b] :
                \/ status'[b][i] \in {"queued", "running", "ok", "error"}
                \/ status'[b][i] = "pending" /\ stage'[b] = "submit"
  <2>1. ASSUME stage'[b] \in {"submit", "collect"}
        PROVE  stage[b] \in {"submit", "collect"} /\ (stage'[b] = stage[b] \/ Unsubmitted(b) = {})
    BY <2>1
  <2>2. ASSUME stage'[b] \in {"submit", "collect"}, NEW i \in selected[b]
        PROVE  \/ status'[b][i] \in {"queued", "running", "ok", "error"}
               \/ status'[b][i] = "pending" /\ stage'[b] = "submit"
    <3>1. \/ status[b][i] \in {"queued", "running", "ok", "error"}
          \/ status[b][i] = "pending" /\ stage[b] = "submit"
      BY <2>1, <2>2 DEF WaveInv
    <3>2. status[b][i] = "pending" => stage'[b] = "submit"
      BY <2>1, <2>2, <3>1 DEF Unsubmitted
    <3> QED
      BY <1>1, <2>2, <3>1, <3>2
  <2> QED
    BY <2>1, <2>2 DEF WaveInv
<1>6. stage'[b] = "effect" => \A i \in selected'[b] : status'[b][i] = "running"
  OBVIOUS
<1> QED
  BY <1>2, <1>3, <1>4, <1>5, <1>6 DEF WaveInv, Executing

\* A read that an executor thread moves on is one of the group its batch
\* has selected.
LEMMA ReadMoved ==
    ASSUME Inv, NEW b \in Batch, NEW i \in Action, ReadStep(b, i)
    PROVE  /\ UNCHANGED <<plan, stage, selected>>
           /\ i \in selected[b] /\ stage[b] \in {"submit", "collect"}
           /\ status[b][i] \in {"queued", "running"}
           /\ status'[b][i] \in {"running", "ok", "error"}
           /\ \A j \in Action \ {i} : status'[b][j] = status[b][j]
<1>0. TypeOK /\ PlaceInv(b) /\ QueueInv
  BY DEF Inv
<1>1. CASE TakeRead(b, i)
  <2>1. queue # <<>> /\ Head(queue) = <<b, i>> /\ queue \in Seq(Batch \X Action)
    BY <1>0, <1>1 DEF TakeRead, TypeOK
  <2>2. 1 \in 1 .. Len(queue) /\ queue[1] = <<b, i>>
    BY <2>1
  <2>3. status[b][i] = "queued"
    BY <1>0, <2>2 DEF QueueInv
  <2>4. /\ status'[b][i] \in {"running", "error"}
        /\ \A j \in Action \ {i} : status'[b][j] = status[b][j]
    BY <1>0, <1>1 DEF TakeRead, Settle, Tried, TypeOK
  <2> QED
    BY <1>0, <1>1, <2>3, <2>4 DEF TakeRead, PlaceInv
<1>2. CASE EndRead(b, i)
  <2>1. status[b][i] = "running" /\ i \notin plan[b].mutations
    BY <1>2 DEF EndRead, RunningReads
  <2>2. /\ status'[b][i] \in {"ok", "error"}
        /\ \A j \in Action \ {i} : status'[b][j] = status[b][j]
    BY <1>0, <1>2 DEF EndRead, Settle, TypeOK
  <2>3. i \in selected[b] /\ stage[b] \in {"submit", "collect", "effect"}
    BY <1>0, <2>1 DEF PlaceInv
  <2>4. stage[b] # "effect"
    BY <1>0, <2>1, <2>3 DEF PlaceInv
  <2> QED
    BY <1>2, <2>1, <2>2, <2>3, <2>4 DEF EndRead
<1> QED
  BY <1>1, <1>2 DEF ReadStep

LEMMA OwnWave ==
    ASSUME Inv, NEW b \in Batch, WaveInv(b),
           BatchStep(b) \/ (\E i \in Action : ReadStep(b, i)) \/ Cancel(b)
    PROVE  WaveInv(b)'
<1>0. TypeOK /\ PlaceInv(b) /\ plan' = plan
  BY Bystanders DEF Inv
<1>1. CASE \/ Validate(b) \/ SkipDependents(b) \/ SkipRest(b) \/ Finish(b)
           \/ RaiseCancelled(b) \/ Collect(b)
           \/ \E value \in {"succeeded", "failed"} : EndMutation(b, value)
  BY <1>1, OutsideWaves
<1>2. CASE SelectMutation(b) \/ SelectReads(b)
  BY <1>2, SelectingIsSound
<1>3. CASE CheckMutation(b) /\ ~cancelled[b]
  <2>1. /\ stage[b] = "mutate" /\ stage'[b] = "locking"
        /\ selected' = selected /\ status' = status
    BY <1>0, <1>3 DEF CheckMutation, TypeOK
  <2> QED
    BY <1>0, <2>1, WithinAWave DEF Executing
<1>4. CASE Lock(b) /\ ~cancelled[b]
  <2>1. /\ stage[b] = "locking" /\ stage'[b] = "effect" /\ selected' = selected
        /\ \A i \in Action : status'[b][i] = IF i \in selected[b] THEN "running" ELSE status[b][i]
    BY <1>0, <1>4 DEF Lock, Settle, TypeOK
  <2>2. \A i \in selected[b] : i \in Action /\ status[b][i] = "pending"
    BY <1>0, <2>1 DEF PlaceInv, TypeOK
  <2> QED
    BY <1>0, <2>1, <2>2, WithinAWave DEF Executing
<1>5. CASE Submit(b)
  <2>1. PICK i \in Unsubmitted(b) : Settle(b, {i}, "queued")
    BY <1>5 DEF Submit
  <2>2. stage[b] = "submit" /\ stage' = stage /\ selected' = selected
    BY <1>5 DEF Submit
  <2>3. /\ i \in selected[b] /\ status[b][i] = "pending"
        /\ \A j \in Action : status'[b][j] = IF j = i THEN "queued" ELSE status[b][j]
    BY <1>0, <2>1 DEF Unsubmitted, Settle, TypeOK
  <2> QED
    BY <1>0, <2>2, <2>3, WithinAWave DEF Executing
<1>6. CASE Submitted(b)
  <2>1. /\ stage[b] = "submit" /\ stage'[b] = "collect" /\ Unsubmitted(b) = {}
        /\ selected' = selected /\ status' = status
    BY <1>0, <1>6 DEF Submitted, TypeOK
  <2> QED
    BY <1>0, <2>1, WithinAWave DEF Executing
<1>7. CASE \E i \in Action : ReadStep(b, i)
  <2>1. PICK i \in Action : ReadStep(b, i)
    BY <1>7
  <2>2. /\ UNCHANGED <<plan, stage, selected>>
        /\ i \in selected[b] /\ stage[b] \in {"submit", "collect"}
        /\ status[b][i] \in {"queued", "running"}
        /\ status'[b][i] \in {"running", "ok", "error"}
        /\ \A j \in Action \ {i} : status'[b][j] = status[b][j]
    BY <2>1, ReadMoved
  <2>3. \A j \in Action :
              \/ status'[b][j] = status[b][j]
              \/ /\ j \in selected[b] /\ status[b][j] \in {"pending", "queued", "running"}
                 /\ status'[b][j] \in {"queued", "running", "ok", "error"}
    BY <2>2
  <2> QED
    BY <2>2, <2>3, WithinAWave DEF Executing
<1>8. CASE Cancel(b)
  BY <1>8 DEF Cancel, WaveInv, Stopped, StopOnError
<1>9. CASE CheckMutation(b) \/ Lock(b) \/ Return(b)
  <2>1. \/ CheckMutation(b) /\ ~cancelled[b]
        \/ Lock(b) /\ ~cancelled[b]
        \/ \E value \in {"succeeded", "failed"} : EndMutation(b, value)
    BY <1>9 DEF CheckMutation, Lock, Return
  <2> QED
    BY <1>1, <1>3, <1>4, <2>1
<1> QED
  BY <1>1, <1>2, <1>5, <1>6, <1>7, <1>8, <1>9 DEF BatchStep

Waves == \A b \in Batch : WaveInv(b)

LEMMA NextWaves == Inv /\ Waves /\ [Next]_vars => Waves'
<1> SUFFICES ASSUME Inv, Waves, [Next]_vars, NEW c \in Batch
             PROVE  WaveInv(c)'
  BY DEF Waves
<1>0. TypeOK /\ WaveInv(c)
  BY DEF Inv, Waves
<1>1. ASSUME NEW b \in Batch, BatchStep(b) \/ (\E i \in Action : ReadStep(b, i)) \/ Cancel(b)
      PROVE  WaveInv(c)'
  <2>1. CASE c = b
    BY <1>0, <1>1, <2>1, OwnWave
  <2>2. CASE c # b
    <3>1. plan' = plan /\ stage'[c] = stage[c] /\ selected'[c] = selected[c] /\ status'[c] = status[c]
      BY <1>0, <1>1, <2>2, Bystanders
    <3> QED
      BY <1>0, <3>1 DEF WaveInv, Stopped, StopOnError
  <2> QED
    BY <2>1, <2>2
<1>2. CASE AllEnded \/ UNCHANGED vars
  BY <1>0, <1>2 DEF AllEnded, vars, WaveInv, Stopped, StopOnError
<1> QED
  BY <1>1, <1>2 DEF Next

LEMMA SpecWaves == Spec => []Waves
<1>1. Init => Waves
  BY DEF Init, Waves, WaveInv, Executing
<1> QED
  BY <1>1, NextWaves, SpecInv, PTL DEF Spec

-----------------------------------------------------------------------------
(* The scheduler implements SerialBatch: a wave takes effect where its     *)
(* results are collected, and every other step but a skip is a stutter.    *)

\* The plan and the outcome that SerialBatch sees.
SerialPlan ==
    [b \in Batch |-> [mutations |-> plan[b].mutations,
                      deps      |-> plan[b].deps,
                      parallel  |-> plan[b].parallel,
                      stop      |-> StopOnError(plan[b])]]

Outcome == [b \in Batch |-> [i \in Action |-> ViewOf(status[b][i])]]

LEMMA ViewsOf ==
    ASSUME TypeOK, NEW b \in Batch
    PROVE  /\ \A i \in Action :
                 /\ Promise!Over(b, i) <=> InResults(b, i)
                 /\ Outcome[b][i] = ViewOf(status[b][i])
                 /\ \A value \in {"succeeded", "failed", "skipped"} :
                       Outcome[b][i] = value <=> status[b][i] = value
           /\ Promise!Stopped(b) <=> Stopped(b)
<1>1. \A i \in Action :
          /\ Outcome[b][i] = ViewOf(status[b][i])
          /\ \A value \in {"succeeded", "failed", "skipped"} :
                Outcome[b][i] = value <=> status[b][i] = value
  BY DEF Outcome, ViewOf
<1>2. \A i \in Action : Promise!Over(b, i) <=> InResults(b, i)
  BY DEF Promise!Over, InResults, ViewOf
<1>3. Promise!Stopped(b) <=> Stopped(b)
  BY DEF Promise!Stopped, Stopped, ViewOf
<1> QED
  BY <1>1, <1>2, <1>3

\* A step that only settles open actions of b without a result is a stutter.
LEMMA Stutters ==
    ASSUME TypeOK, plan' = plan,
           \A c \in Batch, i \in Action : ViewOf(status'[c][i]) = ViewOf(status[c][i])
    PROVE  SerialPlan' = SerialPlan /\ Outcome' = Outcome
<1>1. SerialPlan' = SerialPlan
  BY DEF SerialPlan, StopOnError
<1>2. Outcome' = Outcome
  BY DEF Outcome
<1> QED
  BY <1>1, <1>2

\* A step that gives the actions of S their results.
LEMMA Results ==
    ASSUME TypeOK, NEW b \in Batch, NEW S \in SUBSET Action, NEW result,
           \A c \in Batch \ {b} : status'[c] = status[c],
           \A i \in S : ViewOf(status'[b][i]) = result[i],
           \A i \in Action \ S : ViewOf(status'[b][i]) = ViewOf(status[b][i])
    PROVE  Promise!Becomes(b, S, result)
<1>1. Outcome' = [Outcome EXCEPT ![b] = [i \in Action |-> IF i \in S THEN result[i] ELSE @[i]]]
  <2> DEFINE N == [Outcome EXCEPT ![b] = [i \in Action |-> IF i \in S THEN result[i] ELSE @[i]]]
  <2>1. \A c \in Batch \ {b} : Outcome'[c] = N[c]
    BY DEF Outcome
  <2>2. Outcome'[b] = N[b]
    BY DEF Outcome
  <2>3. N = [c \in Batch |-> N[c]] /\ Outcome' = [c \in Batch |-> Outcome'[c]]
    BY DEF Outcome
  <2> HIDE DEF N
  <2>4. \A c \in Batch : Outcome'[c] = N[c]
    BY <2>1, <2>2
  <2>5. Outcome' = N
    BY <2>3, <2>4
  <2> QED
    BY <2>5 DEF N
<1> QED
  BY <1>1 DEF Promise!Becomes, Outcome

\* What such a step settles is S.
LEMMA Changes ==
    ASSUME NEW b \in Batch, NEW S \in SUBSET Action, NEW result,
           Promise!Becomes(b, S, result),
           \A i \in S : Outcome[b][i] = "open" /\ result[i] # "open"
    PROVE  Promise!Settling(b) = S
<1>1. Outcome' = [Outcome EXCEPT ![b] = [i \in Action |-> IF i \in S THEN result[i] ELSE @[i]]]
  BY DEF Promise!Becomes, Outcome
<1>2. \A i \in Action : Outcome'[b][i] = IF i \in S THEN result[i] ELSE Outcome[b][i]
  BY <1>1 DEF Outcome
<1>3. Promise!Settling(b) = {i \in Action : Outcome'[b][i] # Outcome[b][i]}
  BY DEF Promise!Settling, Outcome
<1> QED
  BY <1>2, <1>3

\* The instance counts as this module does.
LEMMA SameCardinality == \A S : Promise!Cardinality(S) = Cardinality(S)
BY DEF Promise!Cardinality, Cardinality

\* The selected actions get their results as one wave.
LEMMA WavesAreWaves ==
    ASSUME Inv, NEW b \in Batch, WaveInv(b), stage[b] \in Executing,
           selected[b] # {}, plan' = plan,
           \A c \in Batch \ {b} : status'[c] = status[c],
           \A i \in selected[b] : /\ ~InResults(b, i)
                                  /\ status'[b][i] \in {"succeeded", "failed"},
           \A i \in Action \ selected[b] : status'[b][i] = status[b][i]
    PROVE  Promise!SerialNext
<1>0. TypeOK /\ PlaceInv(b) /\ OrderInv(b)
  BY DEF Inv
<1> DEFINE S == selected[b]
<1>1. S \in (SUBSET Action) \ {{}}
  BY <1>0 DEF TypeOK
<1>2. ~Promise!Stopped(b)
  BY <1>0, ViewsOf DEF WaveInv
<1>3. ASSUME NEW i \in S
      PROVE  /\ ~Promise!Over(b, i)
             /\ \A d \in plan[b].deps[i] : Outcome[b][d] = "succeeded"
             /\ \A n \in plan[b].mutations : n < i => Promise!Over(b, n)
  <2>1. i \in Action /\ plan[b].deps[i] \subseteq Action /\ plan[b].mutations \subseteq Action
    BY <1>0, PlanParts DEF TypeOK
  <2>2. ~Promise!Over(b, i)
    BY <1>0, <2>1, ViewsOf
  <2>3. \A d \in plan[b].deps[i] : status[b][d] = "succeeded"
    BY DEF WaveInv
  <2>4. \A d \in plan[b].deps[i] : Outcome[b][d] = "succeeded"
    BY <1>0, <2>1, <2>3, ViewsOf
  <2>5. ASSUME NEW n \in plan[b].mutations, n < i
        PROVE  Promise!Over(b, n)
    <3>1. n \in OrderPredecessors(plan[b], i)
      BY <1>0, <2>1, <2>5, Barriers
    <3>2. InResults(b, n)
      BY <1>0, <2>1, <3>1 DEF OrderInv
    <3> QED
      BY <1>0, <2>1, <3>2, ViewsOf
  <2> QED
    BY <2>2, <2>4, <2>5
<1>4. \/ S \cap plan[b].mutations = {} /\ Cardinality(S) <= plan[b].parallel
      \/ \E n \in plan[b].mutations :
             S = {n} /\ \A i \in Action : i < n => Promise!Over(b, i)
  <2>1. CASE stage[b] \in {"submit", "collect"}
    BY <1>0, <2>1 DEF PlaceInv, WaveInv
  <2>2. CASE stage[b] \in {"mutate", "locking", "effect"}
    <3>1. PICK n \in plan[b].mutations : S = {n}
      BY <1>0, <2>2 DEF PlaceInv
    <3>2. n \in Action
      BY <1>0, PlanParts
    <3>3. ASSUME NEW i \in Action, i < n
          PROVE  Promise!Over(b, i)
      <4>1. i \in OrderPredecessors(plan[b], n)
        BY <1>0, <3>2, <3>3, Barriers
      <4>2. InResults(b, i)
        BY <1>0, <3>1, <3>2, <4>1 DEF OrderInv
      <4> QED
        BY <1>0, <4>2, ViewsOf
    <3> QED
      BY <3>1, <3>3
  <2> QED
    BY <2>1, <2>2 DEF Executing
<1> DEFINE result == [i \in S |-> status'[b][i]]
<1>5. result \in [S -> {"succeeded", "failed"}] /\ Promise!Becomes(b, S, result)
  <2>1. result \in [S -> {"succeeded", "failed"}]
    OBVIOUS
  <2>2. \A i \in S : ViewOf(status'[b][i]) = result[i]
    BY DEF ViewOf
  <2>3. S \in SUBSET Action
    BY <1>1
  <2>4. \A i \in Action \ S : ViewOf(status'[b][i]) = ViewOf(status[b][i])
    OBVIOUS
  <2> HIDE DEF result, S
  <2> QED
    BY <1>0, <2>1, <2>2, <2>3, <2>4, Results
<1> HIDE DEF result, S
<1>6. Promise!Wave(b, S)
  <2>1. /\ SerialPlan[b].mutations = plan[b].mutations
        /\ SerialPlan[b].deps = plan[b].deps
        /\ SerialPlan[b].parallel = plan[b].parallel
    BY DEF SerialPlan
  <2>2. \A i \in S :
            /\ ~Promise!Over(b, i)
            /\ \A d \in SerialPlan[b].deps[i] : Outcome[b][d] = "succeeded"
            /\ \A n \in SerialPlan[b].mutations : n < i => Promise!Over(b, n)
    BY <1>3, <2>1
  <2>3. \/ S \cap SerialPlan[b].mutations = {} /\ Cardinality(S) <= SerialPlan[b].parallel
        \/ \E n \in SerialPlan[b].mutations :
               S = {n} /\ \A i \in Action : i < n => Promise!Over(b, i)
    BY <1>4, <2>1
  <2>4. \E r \in [S -> {"succeeded", "failed"}] : Promise!Becomes(b, S, r)
    BY <1>5
  <2> QED
    BY <1>2, <2>2, <2>3, <2>4, SameCardinality DEF Promise!Wave, Outcome, SerialPlan
<1>7. SerialPlan' = SerialPlan
  BY DEF SerialPlan, StopOnError
<1>8. Promise!Settling(b) = S
  <2>1. \A i \in S : Outcome[b][i] = "open"
    BY <1>1, <1>3 DEF Promise!Over, Outcome
  <2>2. \A i \in S : result[i] # "open"
    BY <1>5
  <2> QED
    BY <1>1, <1>5, <2>1, <2>2, Changes
<1> QED
  BY <1>1, <1>6, <1>7, <1>8 DEF Promise!SerialNext, SerialPlan

\* Actions that are skipped together have a reason to be.
LEMMA SkipsAreSkips ==
    ASSUME Inv, NEW b \in Batch, NEW S \in (SUBSET Pending(b)) \ {{}},
           Settle(b, S, "skipped"), plan' = plan,
           \A i \in S : \/ Stopped(b)
                        \/ \E d \in plan[b].deps[i] :
                              status[b][d] \in {"failed", "skipped"} \/ (d \in S /\ d < i)
    PROVE  Promise!SerialNext
<1>0. TypeOK /\ S \in (SUBSET Action) \ {{}}
  BY DEF Inv, Pending
<1>1. /\ \A c \in Batch \ {b} : status'[c] = status[c]
      /\ \A i \in Action : status'[b][i] = IF i \in S THEN "skipped" ELSE status[b][i]
  BY <1>0 DEF Settle, TypeOK
<1> DEFINE result == [i \in S |-> "skipped"]
<1>2. Promise!Becomes(b, S, result)
  <2>1. \A i \in S : ViewOf(status'[b][i]) = result[i]
    BY <1>0, <1>1 DEF ViewOf
  <2>2. \A i \in Action \ S : ViewOf(status'[b][i]) = ViewOf(status[b][i])
    BY <1>1
  <2>3. S \in SUBSET Action
    BY <1>0
  <2> HIDE DEF result
  <2> QED
    BY <1>0, <1>1, <2>1, <2>2, <2>3, Results
<1>3. ASSUME NEW i \in S
      PROVE  /\ ~Promise!Over(b, i)
             /\ \/ Promise!Stopped(b)
                \/ \E d \in plan[b].deps[i] :
                      Outcome[b][d] \in {"failed", "skipped"} \/ (d \in S /\ d < i)
  <2>1. i \in Action /\ ~InResults(b, i) /\ plan[b].deps[i] \subseteq Action
    BY <1>0, PlanParts DEF Pending, InResults
  <2>2. CASE Stopped(b)
    BY <1>0, <2>1, <2>2, ViewsOf
  <2>3. CASE ~Stopped(b)
    <3>1. PICK d \in plan[b].deps[i] :
              status[b][d] \in {"failed", "skipped"} \/ (d \in S /\ d < i)
      BY <2>3
    <3>2. Outcome[b][d] \in {"failed", "skipped"} \/ (d \in S /\ d < i)
      BY <1>0, <2>1, <3>1, ViewsOf
    <3> QED
      BY <1>0, <2>1, <3>2, ViewsOf
  <2> QED
    BY <2>2, <2>3
<1>4. Promise!Skip(b, S)
  BY <1>2, <1>3 DEF Promise!Skip, Outcome
<1>5. SerialPlan' = SerialPlan
  BY DEF SerialPlan, StopOnError
<1>6. Promise!Settling(b) = S
  <2>1. \A i \in S : Outcome[b][i] = "open"
    BY <1>0, <1>3 DEF Promise!Over, Outcome
  <2>2. \A i \in S : result[i] # "open"
    OBVIOUS
  <2> QED
    BY <1>0, <1>2, <2>1, <2>2, Changes
<1> QED
  BY <1>0, <1>4, <1>5, <1>6 DEF Promise!SerialNext, SerialPlan

\* A mutation that ends is a wave of its own.
LEMMA MutationIsAWave ==
    ASSUME Inv, NEW b \in Batch, WaveInv(b), NEW value \in {"succeeded", "failed"},
           stage[b] \in {"mutate", "locking", "effect"}, EndMutation(b, value)
    PROVE  Promise!SerialNext
<1>0. TypeOK /\ PlaceInv(b)
  BY DEF Inv
<1>1. selected[b] # {} /\ selected[b] \subseteq Action
  BY <1>0 DEF PlaceInv, TypeOK
<1>2. /\ plan' = plan
      /\ \A c \in Batch \ {b} : status'[c] = status[c]
      /\ \A i \in Action : status'[b][i] = IF i \in selected[b] THEN value ELSE status[b][i]
  BY <1>0 DEF EndMutation, Settle, TypeOK
<1>3. \A i \in selected[b] : ~InResults(b, i)
  BY <1>0, <1>1 DEF PlaceInv, WaveInv, InResults
<1>4. stage[b] \in Executing
  BY DEF Executing
<1> QED
  BY <1>1, <1>2, <1>3, <1>4, WavesAreWaves

\* The results of a group of reads are a wave, unless the group was empty.
LEMMA ReadsAreAWave ==
    ASSUME Inv, NEW b \in Batch, WaveInv(b), Collect(b)
    PROVE  Promise!SerialNext \/ (SerialPlan' = SerialPlan /\ Outcome' = Outcome)
<1>0. TypeOK /\ PlaceInv(b) /\ stage[b] = "collect" /\ selected[b] \subseteq Action
  BY DEF Inv, Collect, TypeOK
<1>1. /\ plan' = plan
      /\ \A c \in Batch \ {b} : status'[c] = status[c]
      /\ \A i \in Action : status'[b][i] = ResultFor(status[b][i])
  BY <1>0 DEF Collect, TypeOK
<1>2. \A i \in selected[b] : status[b][i] \in {"ok", "error"}
  BY <1>0 DEF WaveInv, Collect, Outstanding
<1>3. \A i \in Action \ selected[b] : status[b][i] \notin {"ok", "error"}
  BY <1>0 DEF PlaceInv
<1>4. \A i \in Action \ selected[b] : status'[b][i] = status[b][i]
  BY <1>0, <1>1, <1>3 DEF ResultFor
<1>5. CASE selected[b] = {}
  <2>1. \A c \in Batch, i \in Action : ViewOf(status'[c][i]) = ViewOf(status[c][i])
    BY <1>1, <1>4, <1>5
  <2> QED
    BY <1>0, <1>1, <2>1, Stutters
<1>6. CASE selected[b] # {}
  <2>1. \A i \in selected[b] : ~InResults(b, i) /\ status'[b][i] \in {"succeeded", "failed"}
    BY <1>0, <1>1, <1>2 DEF InResults, ResultFor
  <2>2. stage[b] \in Executing
    BY <1>0 DEF Executing
  <2> QED
    BY <1>1, <1>4, <1>6, <2>1, <2>2, WavesAreWaves
<1> QED
  BY <1>5, <1>6

\* Preparing a wave, and the steps of its actions, show no result.
LEMMA WorkIsHidden ==
    ASSUME Inv, NEW b \in Batch, WaveInv(b),
           \/ Validate(b) \/ Finish(b) \/ RaiseCancelled(b)
           \/ SelectMutation(b) \/ SelectReads(b) \/ Submit(b) \/ Submitted(b)
           \/ CheckMutation(b) /\ ~cancelled[b]
           \/ Lock(b) /\ ~cancelled[b]
           \/ (\E i \in Action : ReadStep(b, i))
           \/ Cancel(b)
    PROVE  SerialPlan' = SerialPlan /\ Outcome' = Outcome
<1>0. TypeOK /\ PlaceInv(b)
  BY DEF Inv
<1>1. plan' = plan /\ \A c \in Batch \ {b} : status'[c] = status[c]
  BY <1>0, Bystanders DEF BatchStep
<1>2. ASSUME NEW i \in Action
      PROVE  ViewOf(status'[b][i]) = ViewOf(status[b][i])
  <2>1. CASE \/ Finish(b) \/ RaiseCancelled(b) \/ SelectMutation(b) \/ SelectReads(b)
             \/ Submitted(b) \/ Cancel(b) \/ (CheckMutation(b) /\ ~cancelled[b])
    BY <2>1 DEF Finish, RaiseCancelled, SelectMutation, SelectReads, Select, Submitted,
                Cancel, CheckMutation
  <2>2. CASE Validate(b)
    <3>1. status[b][i] = "pending"
      BY <2>2 DEF Validate, WaveInv
    <3>2. status'[b][i] \in {"pending", "planned"}
      BY <1>0, <2>2, <3>1 DEF Validate, TypeOK
    <3> QED
      BY <3>1, <3>2 DEF ViewOf
  <2>3. CASE Lock(b) /\ ~cancelled[b]
    <3>1. stage[b] = "locking" /\ status'[b][i] = IF i \in selected[b] THEN "running" ELSE status[b][i]
      BY <1>0, <2>3 DEF Lock, Settle, TypeOK
    <3>2. i \in selected[b] => status[b][i] = "pending"
      BY <1>0, <3>1 DEF PlaceInv
    <3> QED
      BY <3>1, <3>2 DEF ViewOf
  <2>4. CASE Submit(b)
    <3>1. PICK j \in Unsubmitted(b) : Settle(b, {j}, "queued")
      BY <2>4 DEF Submit
    <3>2. /\ status[b][j] = "pending"
          /\ status'[b][i] = IF i = j THEN "queued" ELSE status[b][i]
      BY <1>0, <3>1 DEF Settle, TypeOK, Unsubmitted
    <3> QED
      BY <3>2 DEF ViewOf
  <2>5. CASE \E j \in Action : ReadStep(b, j)
    <3>1. PICK j \in Action : ReadStep(b, j)
      BY <2>5
    <3>2. /\ status[b][j] \in {"queued", "running"}
          /\ status'[b][j] \in {"running", "ok", "error"}
          /\ i # j => status'[b][i] = status[b][i]
      BY <3>1, ReadMoved
    <3> QED
      BY <3>2 DEF ViewOf
  <2> QED
    BY <2>1, <2>2, <2>3, <2>4, <2>5
<1>3. \A c \in Batch, i \in Action : ViewOf(status'[c][i]) = ViewOf(status[c][i])
  BY <1>1, <1>2
<1> QED
  BY <1>0, <1>1, <1>3, Stutters

LEMMA NextSerial ==
    ASSUME Inv, Waves, [Next]_vars
    PROVE  Promise!SerialNext \/ (SerialPlan' = SerialPlan /\ Outcome' = Outcome)
<1>0. TypeOK
  BY DEF Inv
<1>1. ASSUME NEW b \in Batch, BatchStep(b) \/ (\E i \in Action : ReadStep(b, i)) \/ Cancel(b)
      PROVE  Promise!SerialNext \/ (SerialPlan' = SerialPlan /\ Outcome' = Outcome)
  <2>0. WaveInv(b)
    BY DEF Waves
  <2>1. CASE \/ Validate(b) \/ Finish(b) \/ RaiseCancelled(b)
             \/ SelectMutation(b) \/ SelectReads(b) \/ Submit(b) \/ Submitted(b)
             \/ (CheckMutation(b) \/ Lock(b)) /\ ~cancelled[b]
             \/ \E i \in Action : ReadStep(b, i)
             \/ Cancel(b)
    BY <2>0, <2>1, WorkIsHidden
  <2>2. CASE SkipDependents(b)
    <3>1. SkippedInPass(b) \in (SUBSET Pending(b)) \ {{}}
      BY <1>0, <2>2, SkipsWithReason DEF SkipDependents
    <3>2. Settle(b, SkippedInPass(b), "skipped") /\ plan' = plan
      BY <2>2 DEF SkipDependents
    <3> DEFINE S == SkippedInPass(b)
    <3>3. \A i \in S : \E d \in plan[b].deps[i] :
             status[b][d] \in {"failed", "skipped"} \/ (d \in S /\ d < i)
      BY <1>0, SkipsWithReason
    <3> HIDE DEF S
    <3> QED
      BY <3>1, <3>2, <3>3, SkipsAreSkips DEF S
  <2>3. CASE SkipRest(b)
    <3>1. Pending(b) \in (SUBSET Pending(b)) \ {{}} /\ Stopped(b)
      BY <2>3 DEF SkipRest
    <3>2. Settle(b, Pending(b), "skipped") /\ plan' = plan
      BY <2>3 DEF SkipRest
    <3> DEFINE S == Pending(b)
    <3> HIDE DEF S
    <3> QED
      BY <3>1, <3>2, SkipsAreSkips DEF S
  <2>4. CASE \/ (CheckMutation(b) \/ Lock(b)) /\ cancelled[b]
             \/ Return(b)
    <3>1. stage[b] \in {"mutate", "locking", "effect"}
      BY <2>4 DEF CheckMutation, Lock, Return
    <3>2. PICK value \in {"succeeded", "failed"} : EndMutation(b, value)
      BY <2>4 DEF CheckMutation, Lock, Return
    <3> QED
      BY <2>0, <3>1, <3>2, MutationIsAWave
  <2>5. CASE Collect(b)
    BY <2>0, <2>5, ReadsAreAWave
  <2> QED
    BY <1>1, <2>1, <2>2, <2>3, <2>4, <2>5 DEF BatchStep
<1>2. CASE AllEnded \/ UNCHANGED vars
  BY <1>2 DEF AllEnded, vars, SerialPlan, Outcome
<1>3. CASE \E b \in Batch : BatchStep(b) \/ (\E i \in Action : ReadStep(b, i)) \/ Cancel(b)
  BY <1>1, <1>3
<1> QED
  BY <1>2, <1>3 DEF Next

\* execute_batch() implements SerialBatch: for every graph, width, policy,
\* cancellation and interleaving with other batches, its results are those of
\* waves that ran one after the other.
THEOREM SpecImplementsSerialBatch == Spec => ImplementsSerialBatch
<1>1. Init => Promise!SerialInit
  <2>1. Init => Outcome = [b \in Batch |-> [i \in Action |-> "open"]]
    BY DEF Init, Outcome, ViewOf
  <2> QED
    BY <2>1 DEF Promise!SerialInit, Outcome
<1>2. Inv /\ Waves /\ [Next]_vars => [Promise!SerialNext]_<<SerialPlan, Outcome>>
  BY NextSerial
<1> QED
  BY <1>1, <1>2, SpecInv, SpecWaves, PTL DEF Spec, ImplementsSerialBatch, Promise!Serial, SerialPlan, Outcome
=============================================================================
