-------------------------- MODULE McpService_proofs --------------------------
(***************************************************************************)
(* McpSystem implements RequestService, for every set of requests, any     *)
(* reuse of ids, every number of worker processes, versions and faults;    *)
(* and what the run "reload" checks of a source that is never put back.    *)
(*                                                                         *)
(* The argument follows one request.  It is at one place only (OnceInv):   *)
(* not sent yet, in the worker's stdin, in the worker, in its stdout, or   *)
(* in the hand of a reader; so its tool starts at most once.  While the    *)
(* process lives the supervisor keeps every request that is at one of the  *)
(* places behind it registered under its id and the generation             *)
(* (AccountInv), so the worker never has two with one id or more than it   *)
(* admits, and a line that comes back finds its own request; a line of a   *)
(* process that is gone may find another one, but only one that will not   *)
(* be sent (CorrelationInv, WriteInv).                                     *)
(***************************************************************************)
EXTENDS McpSystem_proofs, FiniteSetTheorems

-----------------------------------------------------------------------------
(* Sequences: what is in one, and what is in it once.                      *)

Holds(s, L) == \E i \in DOMAIN s : s[i] \in L

Single(s, L) == \A i, j \in DOMAIN s : s[i] \in L /\ s[j] \in L => i = j

LEMMA EmptyHolds == ASSUME NEW L PROVE ~Holds(<<>>, L) /\ Single(<<>>, L)
BY DEF Holds, Single

LEMMA AppendHolds ==
    ASSUME NEW S, NEW s \in Seq(S), NEW x \in S, NEW L
    PROVE  /\ Holds(Append(s, x), L) <=> Holds(s, L) \/ x \in L
           /\ Single(s, L) /\ (x \in L => ~Holds(s, L)) => Single(Append(s, x), L)
<1>1. /\ DOMAIN Append(s, x) = DOMAIN s \cup {Len(s) + 1}
      /\ \A i \in DOMAIN s : Append(s, x)[i] = s[i]
      /\ Append(s, x)[Len(s) + 1] = x
  OBVIOUS
<1> QED
  BY <1>1 DEF Holds, Single

LEMMA TailHolds ==
    ASSUME NEW S, NEW s \in Seq(S), s # <<>>, NEW L
    PROVE  /\ Holds(s, L) <=> Head(s) \in L \/ Holds(Tail(s), L)
           /\ Single(s, L) => Single(Tail(s), L)
           /\ Single(s, L) /\ Head(s) \in L => ~Holds(Tail(s), L)
<1>1. /\ DOMAIN Tail(s) = 1 .. Len(s) - 1
      /\ \A i \in 1 .. Len(s) - 1 : Tail(s)[i] = s[i + 1]
      /\ DOMAIN s = 1 .. Len(s) /\ Len(s) \in Nat \ {0} /\ Head(s) = s[1]
  OBVIOUS
<1>2. Holds(s, L) => Head(s) \in L \/ Holds(Tail(s), L)
  <2> SUFFICES ASSUME NEW i \in DOMAIN s, s[i] \in L, i # 1
               PROVE  \E j \in DOMAIN Tail(s) : Tail(s)[j] \in L
    BY <1>1 DEF Holds
  <2>1. i - 1 \in DOMAIN Tail(s) /\ Tail(s)[i - 1] = s[i]
    BY <1>1
  <2> QED
    BY <2>1
<1>3. Head(s) \in L \/ Holds(Tail(s), L) => Holds(s, L)
  <2>1. ASSUME NEW j \in DOMAIN Tail(s), Tail(s)[j] \in L
        PROVE  \E i \in DOMAIN s : s[i] \in L
    <3>1. j + 1 \in DOMAIN s /\ s[j + 1] = Tail(s)[j]
      BY <1>1
    <3> QED
      BY <2>1, <3>1
  <2>2. 1 \in DOMAIN s
    BY <1>1
  <2> QED
    BY <1>1, <2>1, <2>2 DEF Holds
<1>4. ASSUME Single(s, L)
      PROVE  /\ Single(Tail(s), L)
             /\ Head(s) \in L => ~Holds(Tail(s), L)
  <2>1. ASSUME NEW i \in DOMAIN Tail(s), NEW j \in DOMAIN Tail(s), Tail(s)[i] \in L, Tail(s)[j] \in L
        PROVE  i = j
    <3>1. i + 1 \in DOMAIN s /\ j + 1 \in DOMAIN s /\ s[i + 1] \in L /\ s[j + 1] \in L
      BY <1>1, <2>1
    <3>2. i + 1 = j + 1
      BY <3>1, <1>4 DEF Single
    <3> QED
      BY <3>2, <1>1
  <2>2. ASSUME NEW i \in DOMAIN Tail(s), Tail(s)[i] \in L, Head(s) \in L
        PROVE  FALSE
    <3>1. i + 1 \in DOMAIN s /\ 1 \in DOMAIN s /\ s[i + 1] \in L /\ s[1] \in L /\ i + 1 # 1
      BY <1>1, <2>2
    <3> QED
      BY <3>1, <1>4 DEF Single
  <2> QED
    BY <2>1, <2>2 DEF Single, Holds
<1> QED
  BY <1>2, <1>3, <1>4
-----------------------------------------------------------------------------
(* The places of a request.                                                *)

Lines(r) == {ResultLine(r), RefusalLine(r), FinishedLine(r)}

\* It has not been sent to a worker.
Unsent(r) == r \in unread \/ (MainAt \in Submitting /\ current = r)

InStdin(r) == Holds(toWorker, {RequestLine(r)})
InWork(r) == work[r] # "idle"
InStdout(r) == Holds(fromWorker, Lines(r))
InHand(r, g) == hand[g] # None /\ hand[g] \in Lines(r)
Returning(r) == InStdout(r) \/ \E g \in Generation : InHand(r, g)

\* A request is at one place, and once.
OnceInv(r) ==
    /\ Single(toWorker, {RequestLine(r)})
    /\ Single(fromWorker, Lines(r))
    /\ Unsent(r) => ~InStdin(r)
    /\ Unsent(r) \/ InStdin(r) => ~InWork(r)
    /\ Unsent(r) \/ InStdin(r) \/ InWork(r) => ~Returning(r)
    /\ InStdout(r) => \A g \in Generation : ~InHand(r, g)
    /\ \A g, h \in Generation : InHand(r, g) /\ InHand(r, h) => g = h

\* Its tool starts while it is in the worker, and a result comes from a tool
\* that has run; there are no refusals.
StartInv(r) ==
    /\ started[r] <= 1
    /\ Unsent(r) \/ InStdin(r) \/ work[r] \in {"queued", "locking"} => started[r] = 0
    /\ work[r] \in {"handling", "result"} => started[r] = 1
    /\ work[r] = "returned" => started[r] = 1 \/ r \in flagged
    /\ Holds(fromWorker, {ResultLine(r)}) => started[r] = 1
    /\ \A g \in Generation : InHand(r, g) /\ hand[g] = ResultLine(r) => started[r] = 1
    /\ ~Holds(fromWorker, {RefusalLine(r)})
    /\ \A g \in Generation : InHand(r, g) => hand[g] # RefusalLine(r)

\* Messages without an id are never worked on.
NoteInv ==
    \A r \in Notification : ~InWork(r) /\ ~Returning(r)

QueueInv ==
    \A r \in Req : /\ Holds(queue, {r}) => work[r] = "queued"
                   /\ Single(queue, {r})

\* The process the supervisor holds is the latest; it is alive, or its lock is
\* held, or it is gone; and what does not run has no work.
ProcessInv ==
    /\ process \in {0, generation}
    /\ process # 0 => loaded # 0
    /\ pc[Main] = "spawn" => process = 0
    /\ (\E t \in Thread : pc[t] = "stopping") => process = 0
    /\ alive /\ process = 0 => \E t \in Thread : pc[t] = "stopping"
    /\ code # 0 => alive
    /\ code = 0 => queue = <<>> /\ \A r \in Req : ~InWork(r)
    /\ \A g \in Generation : g > generation => hand[g] = None
    /\ pc[Main] \in {"admit", "write"} => snapshot # 0
    /\ pc[Main] = "admit" => current \notin Notification

PreAdmit == {"ensure", "spawn", "snap", "admit"}

\* The table has a request under its own id, from its admission until it is
\* settled; as long as nobody has cancelled it somebody waits for its answer.
TableInv ==
    /\ \A k \in Key : pending[k] # None => KeyOf[pending[k]] = k
    /\ \A r \in Notification : ~Registered(r) /\ ~cancelled[r] /\ pc[Waiter(r)] = "none"
    /\ \A r \in unread : ~Registered(r) /\ ~cancelled[r] /\ slot[r] = "empty"
    /\ MainAt \in Submitting => ~cancelled[current]
    /\ MainAt \in Submitting \ {"write"} => ~Registered(current)
    /\ MainAt \in PreAdmit => slot[current] = "empty"
    /\ pc[Main] = "notify" => cancelled[current]
    /\ \A r \in Req : pc[Waiter(r)] = "notify" \/ pc[Timer(r)] # "none" => cancelled[r]
    /\ \A r \in Req : Registered(r) /\ ~cancelled[r] =>
           \/ r \in Initialize
           \/ pc[Main] = "write" /\ current = r
           \/ pc[Waiter(r)] \in {"wait", "late"}

\* The first value in a request's response slot.
SlotInv(r) ==
    /\ slot[r] # "empty" => ~Registered(r) \/ cancelled[r]
    /\ slot[r] = "result" => ~Registered(r) /\ ~cancelled[r] /\ started[r] = 1
    /\ pc[Waiter(r)] # "none" => slot[r] # "wrong"

\* No more requests are registered than the worker admits.
RoomInv == IsFiniteSet(Unfinished) /\ Cardinality(Unfinished) <= MaxInFlight

AccountInv ==
    alive => \A r \in Req \ Notification :
        InStdin(r) \/ InWork(r) \/ InStdout(r) \/ (generation # 0 /\ InHand(r, generation))
        => Registered(r) /\ gen[r] = generation

CorrelationInv ==
    \A g \in Generation : \A q, r \in Req :
        /\ Registered(q) /\ gen[q] = g /\ pc[Waiter(q)] # "none"
        /\ KeyOf[r] = KeyOf[q]
        /\ InHand(r, g) \/ (g = generation /\ InStdout(r))
        => r = q

WriteInv ==
    pc[Main] = "write" /\ current \notin Notification /\ process = snapshot /\ alive =>
        Registered(current) /\ gen[current] = snapshot /\ slot[current] = "empty"

ReplyInv(r) ==
    /\ answers[r] = <<"rejected">> => started[r] = 0 /\ ~InStdin(r) /\ ~InWork(r)
    /\ answers[r] # <<"wrong">>

ServiceInv ==
    /\ \A r \in Req : OnceInv(r) /\ StartInv(r) /\ SlotInv(r) /\ ReplyInv(r)
    /\ NoteInv
    /\ QueueInv
    /\ ProcessInv
    /\ TableInv
    /\ RoomInv
    /\ AccountInv
    /\ CorrelationInv
    /\ WriteInv

\* A source that is never put back: what runs is not older than the identity
\* the supervisor took for it, and a deferred reload is for a newer one.
VersionInv ==
    /\ process # 0 => loaded <= source
    /\ process # 0 /\ code # 0 => loaded <= code /\ code <= source
    /\ reload => process # 0 /\ loaded < source

-----------------------------------------------------------------------------
(* What a step does to the threads.                                        *)

LEMMA GoFacts ==
    ASSUME Places(pc), NEW t \in Thread, NEW l, GoTo(t, l)
    PROVE  pc'[t] = l /\ \A u \in Thread \ {t} : pc'[u] = pc[u]
BY DEF Places, GoTo

LEMMA StopBeginFacts ==
    ASSUME Places(pc), NEW t \in Thread, NEW next, StopBegin(t, next)
    PROVE  /\ \A u \in Thread \ {t} : pc'[u] = pc[u]
           /\ \A u \in Thread : pc[u] \notin Holding
           /\ \/ process = 0 /\ pc'[t] = next /\ resume' = resume
              \/ process # 0 /\ pc'[t] = "stopping" /\ resume' = next
           /\ process' = 0 /\ loaded' = 0 /\ reload' = FALSE
BY GoFacts DEF StopBegin, LifecycleFree, Holding

\* A step that changes nothing but the threads, the process that is held and
\* the answers.
Moves ==
    \/ EnsureCurrent \/ SpawnFails \/ Snapshot \/ Reject \/ Unwind \/ Fail \/ Exit \/ ReadEOF
    \/ Expire(Main, current, "read")
    \/ \E r \in Req : \/ Receive(r) \/ TimeOut(r) \/ GiveUp(r) \/ TimerFires(r)
                      \/ CancelLate(r) /\ UNCHANGED cancelled
                      \/ Expire(Waiter(r), r, "giveup") \/ Expire(Timer(r), r, "done")

tables == <<pending, gen, cancelled, slot, unread, current>>

LEMMA MovesFrame == ASSUME Moves PROVE UNCHANGED <<channelVars, hand, reader, generation, source, tables>>
<1> USE DEF tables, channelVars
<1>1. CASE EnsureCurrent \/ SpawnFails \/ Snapshot \/ Reject \/ Unwind \/ Fail \/ Exit \/ ReadEOF
  BY <1>1 DEF EnsureCurrent, SpawnFails, Snapshot, Reject, Unwind, Fail, Exit, ReadEOF
<1>2. ASSUME NEW t, NEW r, NEW next, Expire(t, r, next)
      PROVE  UNCHANGED <<channelVars, hand, reader, generation, source, tables>>
  BY <1>2 DEF Expire
<1>3. ASSUME NEW r, Receive(r) \/ TimeOut(r) \/ GiveUp(r) \/ TimerFires(r) \/ (CancelLate(r) /\ UNCHANGED cancelled)
      PROVE  UNCHANGED <<channelVars, hand, reader, generation, source, tables>>
  BY <1>3 DEF Receive, TimeOut, GiveUp, TimerFires, CancelLate, Mark
<1> QED
  BY <1>1, <1>2, <1>3 DEF Moves

\* Where the main thread and a waiter can get by such a step.
Onward ==
    /\ MainAt' \in Submitting => MainAt \in Submitting
    /\ MainAt' \in Submitting \ {"write"} => MainAt \in Submitting \ {"write"}
    /\ MainAt' \in PreAdmit => MainAt \in PreAdmit
    /\ pc'[Main] = "write" => pc[Main] = "write" \/ current \in Notification
    /\ pc'[Main] = "notify" => pc[Main] = "notify"
    /\ \A r \in Req : pc'[Waiter(r)] = "none" <=> pc[Waiter(r)] = "none"
    /\ \A r \in Req : pc'[Waiter(r)] = "notify" => pc[Waiter(r)] = "notify"

\* The main thread goes to a place.
LEMMA MainOnward ==
    ASSUME Inv, NEW l, pc[Main] \notin Holding \/ l \in {"snap", "fail"},
           \/ GoTo(Main, l) /\ l # "stopping"
           \/ StopBegin(Main, l) /\ l # "stopping" /\ l # "write" /\ l # "notify",
           pc[Main] # "stopping",
           l \in Submitting => pc[Main] \in Submitting,
           l \in Submitting \ {"write"} => pc[Main] # "write",
           l \in PreAdmit => pc[Main] \in PreAdmit,
           l = "write" => current \in Notification,
           l # "notify"
    PROVE  Onward
<1>0. Places(pc)
  BY DEF Inv, ControlOK
<1>1. \A r \in Req : pc'[Waiter(r)] = pc[Waiter(r)]
  BY <1>0, GoFacts, StopBeginFacts, ThreadsDiffer DEF ThreadNames
<1>2. \/ pc'[Main] = l
      \/ pc'[Main] = "stopping" /\ resume' = l
  BY <1>0, GoFacts, StopBeginFacts, ThreadsDiffer DEF ThreadNames
<1>3. MainAt' = l /\ MainAt = pc[Main]
  BY <1>2 DEF MainAt
<1>4. pc'[Main] = "write" => l = "write"
  BY <1>2
<1>5. pc'[Main] # "notify"
  BY <1>2
<1> QED
  BY <1>1, <1>3, <1>4, <1>5 DEF Onward

\* Another thread goes to a place.
LEMMA OtherOnward ==
    ASSUME Inv, NEW t \in Thread, t # Main, NEW l, l \notin {"none", "notify"},
           \/ GoTo(t, l) /\ resume' = resume
           \/ StopBegin(t, l)
           \/ GoTo(t, l) /\ pc[t] = "stopping",
           \A r \in Req : t = Waiter(r) => pc[t] # "none"
    PROVE  Onward
<1>0. Places(pc)
  BY DEF Inv, ControlOK
<1>1. pc'[Main] = pc[Main]
  BY <1>0, GoFacts, StopBeginFacts, ThreadsDiffer DEF ThreadNames
<1>2. MainAt' = MainAt
  <2>1. CASE resume' = resume
    BY <1>1, <2>1 DEF MainAt
  <2>2. CASE StopBegin(t, l)
    BY <1>0, <1>1, <2>2, StopBeginFacts, ThreadsDiffer DEF MainAt, ThreadNames, Holding
  <2>3. CASE pc[t] = "stopping"
    BY <1>1, <2>3, ThreadsDiffer DEF MainAt, ThreadNames, Inv, ControlOK, LockInv, Holding
  <2> QED
    BY <2>1, <2>2, <2>3
<1>3. ASSUME NEW r \in Req
      PROVE  /\ pc'[Waiter(r)] = "none" <=> pc[Waiter(r)] = "none"
             /\ pc'[Waiter(r)] = "notify" => pc[Waiter(r)] = "notify"
  <2>1. CASE Waiter(r) = t
    BY <1>0, <2>1, GoFacts, StopBeginFacts
  <2>2. CASE Waiter(r) # t
    BY <1>0, <2>2, GoFacts, StopBeginFacts, ThreadsDiffer DEF ThreadNames
  <2> QED
    BY <2>1, <2>2
<1> QED
  BY <1>1, <1>2, <1>3 DEF Onward

LEMMA MovesOnward == ASSUME Inv, Moves PROVE Onward
<1> USE DEF Holding, Submitting, PreAdmit
<1>a. Main \in Thread /\ \A r \in Req : Waiter(r) \in Thread /\ Timer(r) \in Thread
                                         /\ Main # Waiter(r) /\ Main # Timer(r)
  BY ThreadsDiffer DEF ThreadNames
<1>b. \A q, r \in Req : Waiter(q) # Timer(r)
  BY ThreadsDiffer DEF ThreadNames
<1>1. CASE EnsureCurrent
  <2>1. \/ \E l \in {"fail", "spawn"} : StopBegin(Main, l)
        \/ GoTo(Main, "snap") /\ UNCHANGED resume
    BY <1>1 DEF EnsureCurrent
  <2>2. pc[Main] = "ensure"
    BY <1>1 DEF EnsureCurrent
  <2> QED
    BY <2>1, <2>2, MainOnward
<1>2. CASE SpawnFails
  <2>1. pc[Main] = "spawn" /\ GoTo(Main, "fail")
    BY <1>2 DEF SpawnFails
  <2> QED
    BY <2>1, MainOnward
<1>3. CASE Snapshot
  <2>1. pc[Main] = "snap" /\ \E l \in {"fail", "write", "admit"} : GoTo(Main, l) /\ (l = "write" => current \in Notification)
    BY <1>3 DEF Snapshot
  <2> QED
    BY <2>1, MainOnward
<1>4. CASE Reject \/ Fail
  <2>1. pc[Main] \in {"admit", "fail"} /\ GoTo(Main, "read")
    BY <1>4 DEF Reject, Fail
  <2> QED
    BY <2>1, MainOnward
<1>5. CASE Unwind
  <2>1. pc[Main] = "unwind" /\ StopBegin(Main, "fail")
    BY <1>5 DEF Unwind
  <2> QED
    BY <2>1, MainOnward
<1>6. CASE Exit
  <2>1. pc[Main] = "drain" /\ GoTo(Main, "exit")
    BY <1>6 DEF Exit
  <2> QED
    BY <2>1, MainOnward
<1>7. CASE ReadEOF
  <2>1. pc[Main] = "read" /\ StopBegin(Main, "drain")
    BY <1>7 DEF ReadEOF
  <2> QED
    BY <2>1, MainOnward
<1>8. CASE Expire(Main, current, "read")
  <2>1. pc[Main] = "expire" /\ (StopBegin(Main, "read") \/ GoTo(Main, "read"))
    BY <1>8 DEF Expire
  <2> QED
    BY <2>1, MainOnward
<1>9. ASSUME NEW r \in Req, Expire(Waiter(r), r, "giveup")
      PROVE  Onward
  <2>1. pc[Waiter(r)] = "expire" /\ (StopBegin(Waiter(r), "giveup") \/ (GoTo(Waiter(r), "giveup") /\ resume' = resume))
    BY <1>9 DEF Expire
  <2> QED
    BY <1>a, <2>1, OtherOnward
<1>10. ASSUME NEW r \in Req, Expire(Timer(r), r, "done")
       PROVE  Onward
  <2>1. pc[Timer(r)] = "expire" /\ (StopBegin(Timer(r), "done") \/ (GoTo(Timer(r), "done") /\ resume' = resume))
    BY <1>10 DEF Expire
  <2> QED
    BY <1>a, <1>b, <2>1, OtherOnward
<1>11. ASSUME NEW r \in Req, Receive(r) \/ TimeOut(r) \/ GiveUp(r) \/ (CancelLate(r) /\ UNCHANGED cancelled)
       PROVE  Onward
  <2>1. /\ pc[Waiter(r)] # "none" /\ resume' = resume
        /\ \E l \in {"done", "late", "expire", "giveup"} : GoTo(Waiter(r), l)
    <3>1. CASE CancelLate(r) /\ UNCHANGED cancelled
      <4>1. ~(Registered(r) /\ ~cancelled[r])
        BY <3>1 DEF CancelLate, Mark, Inv, DataOK, SupDataOK
      <4> QED
        BY <3>1, <4>1 DEF CancelLate
    <3> QED
      BY <1>11, <3>1 DEF Receive, TimeOut, GiveUp, AfterTimeOut
  <2> QED
    BY <1>a, <2>1, OtherOnward
<1>12. ASSUME NEW r \in Req, TimerFires(r)
       PROVE  Onward
  <2>1. GoTo(Timer(r), "expire") /\ resume' = resume
    BY <1>12 DEF TimerFires
  <2> QED
    BY <1>a, <1>b, <2>1, OtherOnward
<1> QED
  BY <1>1, <1>2, <1>3, <1>4, <1>5, <1>6, <1>7, <1>8, <1>9, <1>10, <1>11, <1>12 DEF Moves

\* The end of _stop_locked(), by any thread.
LEMMA StopEndOnward ==
    ASSUME Inv, NEW t \in Thread, StopEnd(t)
    PROVE  Onward /\ \A u \in Thread : pc'[u] # "stopping" /\ (u # t => pc'[u] \in {pc[u], "done"})
<1> DEFINE p == [pc EXCEPT ![t] = resume]
<1> USE DEF Holding
<1>1. pc[t] = "stopping" /\ Places(pc) /\ LockInv
  BY DEF StopEnd, Inv, ControlOK
<1>2. /\ t = Main => resume \in {"spawn", "fail", "drain", "read"}
      /\ \A r \in Req : (t = Waiter(r) => resume = "giveup") /\ (t = Timer(r) => resume = "done")
      /\ \A u \in Thread : u # t => pc[u] \notin Holding
  BY <1>1 DEF LockInv
<1>3. Places(p)
  <2>1. CASE t = Main
    BY <1>1, <1>2, <2>1, Move DEF MainPC
  <2>2. ASSUME NEW r \in Req, t = Waiter(r)
        PROVE  Places(p)
    BY <1>1, <1>2, <2>2, Move DEF WaiterPC
  <2>3. ASSUME NEW r \in Req, t = Timer(r)
        PROVE  Places(p)
    BY <1>1, <1>2, <2>3, Move DEF TimerPC
  <2> QED
    BY <2>1, <2>2, <2>3, ThreadsDiffer DEF ThreadNames
<1>4. pc' = WithoutTimers(UnfinishedOf(generation), p) /\ resume' = "none"
  BY DEF StopEnd, FailGeneration
<1>5. /\ pc'[Main] = p[Main]
      /\ \A r \in Req : pc'[Waiter(r)] = p[Waiter(r)]
      /\ \A u \in Thread : pc'[u] \in {p[u], "done"}
  <2>1. UnfinishedOf(generation) \in SUBSET Req
    BY DEF UnfinishedOf, Unfinished
  <2> QED
    BY <1>3, <1>4, <2>1, CancelTimers
<1>6. p[t] = resume /\ \A u \in Thread : u # t => p[u] = pc[u]
  BY <1>1 DEF Places
<1>7. resume # "stopping" /\ resume # "write" /\ resume # "notify" /\ (t # Main => resume # "none")
  BY <1>2, ThreadsDiffer DEF ThreadNames
<1>8. MainAt' = MainAt
  <2>1. CASE t = Main
    BY <1>1, <1>5, <1>6, <1>7, <2>1 DEF MainAt
  <2>2. CASE t # Main
    BY <1>2, <1>5, <1>6, <2>2, ThreadsDiffer DEF MainAt, ThreadNames
  <2> QED
    BY <2>1, <2>2
<1>9. pc'[Main] \in {"write", "notify"} => pc[Main] = pc'[Main]
  BY <1>5, <1>6, <1>7, ThreadsDiffer DEF ThreadNames
<1>10. ASSUME NEW r \in Req
       PROVE  /\ pc'[Waiter(r)] = "none" <=> pc[Waiter(r)] = "none"
              /\ pc'[Waiter(r)] = "notify" => pc[Waiter(r)] = "notify"
  <2>1. CASE Waiter(r) = t
    BY <1>1, <1>5, <1>6, <1>7, <2>1, ThreadsDiffer DEF ThreadNames
  <2>2. CASE Waiter(r) # t
    BY <1>5, <1>6, <2>2, ThreadsDiffer DEF ThreadNames
  <2> QED
    BY <2>1, <2>2
<1>11. \A u \in Thread : pc'[u] # "stopping" /\ (u # t => pc'[u] \in {pc[u], "done"})
  BY <1>2, <1>5, <1>6, <1>7
<1> QED
  BY <1>8, <1>9, <1>10, <1>11 DEF Onward

\* Some timers are cancelled and nothing else moves.
LEMMA SettleOnward ==
    ASSUME Inv, NEW S \in SUBSET Req, pc' = WithoutTimers(S, pc), resume' = resume
    PROVE  /\ Onward
           /\ MainAt' = MainAt /\ pc'[Main] = pc[Main]
           /\ \A r \in Req : pc'[Waiter(r)] = pc[Waiter(r)]
           /\ \A t \in Thread : pc'[t] = "stopping" <=> pc[t] = "stopping"
<1>1. /\ pc'[Main] = pc[Main]
      /\ \A r \in Req : pc'[Waiter(r)] = pc[Waiter(r)]
  BY CancelTimers DEF Inv, ControlOK
<1>2. ASSUME NEW t \in Thread
      PROVE  pc'[t] = "stopping" <=> pc[t] = "stopping"
  BY DEF WithoutTimers
<1>3. MainAt' = MainAt
  BY <1>1 DEF MainAt
<1> QED
  BY <1>1, <1>2, <1>3 DEF Onward

\* Who tells the worker of a cancellation.
Notifies(t, r, next) ==
    \/ t = Main /\ r = current /\ next = "read"
    \/ r \in Req /\ t = Waiter(r) /\ next = "giveup"

LEMMA NotifyOnward ==
    ASSUME Inv, NEW t, NEW r, NEW next, Notifies(t, r, next), Notify(t, r, next)
    PROVE  /\ t \in Thread /\ r \in Req
           /\ Onward
           /\ pc[t] = "notify" /\ pc'[t] \in {next, "expire"}
           /\ MainAt' \in Submitting => MainAt' = MainAt
           /\ \A u \in Thread : u # t /\ u # Timer(r) => pc'[u] = pc[u]
           /\ \A u \in Thread : pc'[u] = "stopping" <=> pc[u] = "stopping"
<1>1. pc[t] = "notify" /\ resume' = resume
  BY DEF Notify
<1>2. r \in Req /\ t \in Thread /\ Timer(r) \in Thread /\ t # Timer(r)
  <2>1. t = Main /\ r = current => r \in Req
    BY <1>1 DEF Inv, ControlOK, LineInv, MainAt
  <2> QED
    BY <2>1, ThreadsDiffer DEF Notifies, ThreadNames
<1>3. /\ pc'[t] \in {next, "expire"}
      /\ \A u \in Thread : u # t /\ u # Timer(r) => pc'[u] = pc[u]
      /\ pc'[Timer(r)] = IF pc[Timer(r)] = "created" THEN "armed" ELSE pc[Timer(r)]
  <2> DEFINE armed == [pc EXCEPT ![Timer(r)] = IF @ = "created" THEN "armed" ELSE @]
  <2>1. PICK l \in {next, "expire"} : pc' = [armed EXCEPT ![t] = l]
    BY DEF Notify
  <2> QED
    BY <1>2, <2>1 DEF Inv, ControlOK, Places
<1>4. \A u \in Thread : pc'[u] = "stopping" <=> pc[u] = "stopping"
  BY <1>1, <1>3 DEF Notifies
<1>5. CASE t = Main
  <2>1. next = "read" /\ \A q \in Req : pc'[Waiter(q)] = pc[Waiter(q)]
    BY <1>2, <1>3, <1>5, ThreadsDiffer DEF Notifies, ThreadNames
  <2>2. MainAt' \in {"read", "expire"}
    BY <1>3, <1>5, <2>1 DEF MainAt
  <2>3. pc'[Main] \in {"read", "expire"}
    BY <1>3, <1>5, <2>1
  <2> QED
    BY <1>1, <1>2, <1>3, <1>4, <2>1, <2>2, <2>3 DEF Onward, Submitting, PreAdmit
<1>6. CASE t = Waiter(r)
  <2>1. next = "giveup" /\ pc'[Main] = pc[Main]
    BY <1>2, <1>3, <1>6, ThreadsDiffer DEF Notifies, ThreadNames
  <2>2. MainAt' = MainAt
    BY <1>1, <2>1 DEF MainAt
  <2>3. \A q \in Req : pc'[Waiter(q)] = pc[Waiter(q)] \/ Waiter(q) = t
    BY <1>2, <1>3, ThreadsDiffer DEF ThreadNames
  <2> QED
    BY <1>1, <1>2, <1>3, <1>4, <2>1, <2>2, <2>3 DEF Onward
<1> QED
  BY <1>5, <1>6 DEF Notifies

\* A request is marked as cancelled by the thread that goes on to notify.
Marks(t, r) ==
    \/ \E k \in Key : t = Main /\ r = pending[k] /\ ReadCancel(k)
    \/ r \in Req /\ t = Waiter(r) /\ CancelLate(r) /\ ~UNCHANGED cancelled

LEMMA MarkFacts ==
    ASSUME Inv, TableInv, NEW t, NEW r, Marks(t, r)
    PROVE  /\ t \in Thread /\ r \in Req
           /\ Registered(r) /\ ~cancelled[r]
           /\ cancelled' = [cancelled EXCEPT ![r] = TRUE]
           /\ \/ t = Main /\ pc[Main] = "read" /\ current' = r /\ r \notin Initialize
              \/ t = Waiter(r) /\ pc[t] = "late" /\ current' = current
           /\ pc'[t] = "notify" /\ resume' = resume
           /\ \A u \in Thread : u # t /\ u # Timer(r) => pc'[u] = pc[u]
           /\ \A u \in Thread : pc'[u] = "stopping" <=> pc[u] = "stopping"
           /\ UNCHANGED <<channelVars, hand, reader, generation, process, loaded, reload, source,
                          snapshot, pending, gen, slot, unread, answers, closing>>
<1>1. /\ r \in Req /\ t \in Thread /\ Registered(r) /\ ~cancelled[r] /\ Mark(t, r)
      /\ \/ t = Main /\ pc[Main] = "read" /\ current' = r /\ r \notin Initialize
         \/ t = Waiter(r) /\ pc[t] = "late" /\ current' = current
      /\ resume' = resume
      /\ UNCHANGED <<channelVars, hand, reader, generation, process, loaded, reload, source,
                     snapshot, pending, gen, slot, unread, answers, closing>>
  <2>1. ASSUME NEW k \in Key, t = Main, r = pending[k], ReadCancel(k)
        PROVE  <1>1
    <3>1. r \in Req /\ KeyOf[r] = k
      BY <2>1 DEF ReadCancel, Inv, DataOK, SupDataOK, TableInv
    <3> QED
      BY <2>1, <3>1, ThreadsDiffer DEF ReadCancel, Mark, Registered, ThreadNames
  <2>2. ASSUME r \in Req, t = Waiter(r), CancelLate(r), ~UNCHANGED cancelled
        PROVE  <1>1
    BY <2>2, ThreadsDiffer DEF CancelLate, Mark, ThreadNames
  <2> QED
    BY <2>1, <2>2 DEF Marks
<1>2. pc' = [pc EXCEPT ![t] = "notify", ![Timer(r)] = "created"] /\ cancelled' = [cancelled EXCEPT ![r] = TRUE]
  BY <1>1 DEF Mark
<1>3. Timer(r) \in Thread /\ t # Timer(r)
  BY <1>1, ThreadsDiffer DEF ThreadNames
<1>4. /\ pc'[t] = "notify" /\ pc'[Timer(r)] = "created"
      /\ \A u \in Thread : u # t /\ u # Timer(r) => pc'[u] = pc[u]
  BY <1>1, <1>2, <1>3 DEF Inv, ControlOK, Places
<1>5. \A u \in Thread : pc'[u] = "stopping" <=> pc[u] = "stopping"
  <2>1. pc[Timer(r)] = "none"
    BY <1>1 DEF TableInv
  <2> QED
    BY <1>1, <1>4, <2>1
<1> QED
  BY <1>1, <1>2, <1>4, <1>5

\* The steps of the supervisor, by what they change.
LEMMA SupervisorCases ==
    ASSUME SupervisorRuns
    PROVE  /\ Aftermath
           /\ \/ Moves
              \/ \E t \in Thread : StopEnd(t)
              \/ \E t, r, next : Notifies(t, r, next) /\ Notify(t, r, next)
              \/ \E t, r : Marks(t, r)
              \/ Spawn \/ Admit \/ Write \/ WriteFails
              \/ \E r \in Req : ReadLine(r)
              \/ \E g \in Generation : ReaderStep(g)
<1> DEFINE Goal == \/ Moves
                   \/ \E t \in Thread : StopEnd(t)
                   \/ \E t, r, next : Notifies(t, r, next) /\ Notify(t, r, next)
                   \/ \E t, r : Marks(t, r)
                   \/ Spawn \/ Admit \/ Write \/ WriteFails
                   \/ \E r \in Req : ReadLine(r)
                   \/ \E g \in Generation : ReaderStep(g)
<1>1. Aftermath /\ (\/ MainStep \/ ClientStep
                    \/ \E r \in Req : WaiterStep(r) \/ TimerStep(r)
                    \/ \E g \in Generation : ReaderStep(g))
  BY DEF SupervisorRuns, MainRuns, WaiterRuns, TimerRuns, ReaderRuns, ClientActs
<1>2. ASSUME MainStep
      PROVE  Goal
  <2>1. Notifies(Main, current, "read") /\ Main \in Thread
    BY ThreadsDiffer DEF Notifies, ThreadNames
  <2> QED
    BY <1>2, <2>1 DEF MainStep, Moves
<1>3. ASSUME NEW r \in Req, WaiterStep(r) \/ TimerStep(r)
      PROVE  Goal
  <2>1. Notifies(Waiter(r), r, "giveup") /\ Waiter(r) \in Thread /\ Timer(r) \in Thread
    BY ThreadsDiffer DEF Notifies, ThreadNames
  <2>2. CASE CancelLate(r)
    BY <2>2 DEF Moves, Marks
  <2> QED
    BY <1>3, <2>1, <2>2 DEF WaiterStep, TimerStep, Moves
<1>4. ASSUME ClientStep
      PROVE  Goal
  BY <1>4 DEF ClientStep, Moves, Marks
<1> QED
  BY <1>1, <1>2, <1>3, <1>4

\* A step that does not end the process leaves its work alone.
LEMMA WorkStays ==
    ASSUME Aftermath, alive' = alive
    PROVE  UNCHANGED <<workerVars, code, faults>>
BY DEF Aftermath

LEMMA WorkStaysOrIsLost ==
    ASSUME Aftermath, alive \in BOOLEAN
    PROVE  /\ UNCHANGED <<started, faults>>
           /\ \/ UNCHANGED <<workerVars, code>>
              \/ /\ alive /\ ~alive'
                 /\ work' = [r \in Req |-> "idle"] /\ queue' = <<>> /\ flagged' = {} /\ code' = 0
BY DEF Aftermath, WorkLost, workerVars

\* The main thread goes on with a request.
LEMMA MainGoesOn ==
    ASSUME Inv, NEW l, l # "stopping", pc[Main] # "stopping", GoTo(Main, l)
    PROVE  /\ pc'[Main] = l /\ MainAt' = l /\ MainAt = pc[Main]
           /\ \A t \in Thread \ {Main} : pc'[t] = pc[t]
           /\ \A r \in Req : pc'[Waiter(r)] = pc[Waiter(r)] /\ pc'[Timer(r)] = pc[Timer(r)]
<1>1. pc'[Main] = l /\ \A t \in Thread \ {Main} : pc'[t] = pc[t]
  BY GoFacts, ThreadsDiffer DEF Inv, ControlOK, ThreadNames
<1> QED
  BY <1>1, ThreadsDiffer DEF ThreadNames, MainAt

\* The request is written, and its waiter begins.
LEMMA WriteFacts ==
    ASSUME Inv, Write
    PROVE  /\ current \in Req /\ pc[Main] = "write" /\ MainAt = "write"
           /\ pc'[Main] = "read" /\ MainAt' = "read"
           /\ \A r \in Req : pc'[Timer(r)] = pc[Timer(r)]
           /\ \A r \in Req : pc'[Waiter(r)] = IF r = current /\ r \notin Notification THEN "wait" ELSE pc[Waiter(r)]
           /\ \A t \in Thread : pc'[t] = "stopping" <=> pc[t] = "stopping"
           /\ process = snapshot /\ alive
           /\ toWorker' = Append(toWorker, RequestLine(current))
           /\ UNCHANGED <<fromWorker, alive, hand, generation, process, loaded, source, reload, tables>>
<1>1. current \in Req /\ pc[Main] = "write" /\ pc[Waiter(current)] = "none"
  BY DEF Write, Inv, ControlOK, LineInv, MainAt, AnswerInv, Submitting
<1>2. pc' = IF current \in Notification THEN [pc EXCEPT ![Main] = "read"]
            ELSE [pc EXCEPT ![Main] = "read", ![Waiter(current)] = "wait"]
  BY DEF Write
<1>3. /\ pc'[Main] = "read"
      /\ \A r \in Req : pc'[Timer(r)] = pc[Timer(r)]
      /\ \A r \in Req : pc'[Waiter(r)] = IF r = current /\ r \notin Notification THEN "wait" ELSE pc[Waiter(r)]
      /\ \A t \in Thread : t # Main /\ t # Waiter(current) => pc'[t] = pc[t]
  BY <1>1, <1>2, ThreadsDiffer DEF Inv, ControlOK, Places, ThreadNames
<1>4. \A t \in Thread : pc'[t] = "stopping" <=> pc[t] = "stopping"
  BY <1>1, <1>3, ThreadsDiffer DEF ThreadNames
<1> QED
  BY <1>1, <1>3, <1>4 DEF Write, CanWrite, MainAt, tables

LEMMA ReadLineFacts ==
    ASSUME Inv, NEW r \in Req, ReadLine(r)
    PROVE  /\ r \in unread /\ unread' = unread \ {r} /\ current' = r
           /\ pc[Main] = "read" /\ MainAt = "read" /\ pc'[Main] = "ensure" /\ MainAt' = "ensure"
           /\ \A t \in Thread \ {Main} : pc'[t] = pc[t]
           /\ \A q \in Req : pc'[Waiter(q)] = pc[Waiter(q)] /\ pc'[Timer(q)] = pc[Timer(q)]
BY MainGoesOn DEF ReadLine

\* No step takes a request back that has been sent.
LEMMA UnsentStep ==
    ASSUME Inv, TableInv, [Next]_vars, NEW r \in Req, Unsent(r)'
    PROVE  Unsent(r)
<1> SUFFICES \/ UNCHANGED <<unread, current>> /\ (MainAt' \in Submitting => MainAt \in Submitting)
             \/ unread' \subseteq unread /\ (MainAt' \in Submitting => current' \in unread)
  BY DEF Unsent
<1> USE DEF Onward
<1>1. CASE SupervisorRuns
  <2>1. CASE Moves
    BY <2>1, MovesFrame, MovesOnward DEF tables
  <2>2. ASSUME NEW t \in Thread, StopEnd(t)
        PROVE  UNCHANGED <<unread, current>> /\ (MainAt' \in Submitting => MainAt \in Submitting)
    BY <2>2, StopEndOnward DEF StopEnd
  <2>3. ASSUME NEW t, NEW q, NEW next, Notifies(t, q, next), Notify(t, q, next)
        PROVE  UNCHANGED <<unread, current>> /\ (MainAt' \in Submitting => MainAt \in Submitting)
    BY <2>3, NotifyOnward DEF Notify
  <2>4. ASSUME NEW t, NEW q, Marks(t, q)
        PROVE  \/ UNCHANGED <<unread, current>> /\ (MainAt' \in Submitting => MainAt \in Submitting)
               \/ unread' \subseteq unread /\ (MainAt' \in Submitting => current' \in unread)
    <3>1. CASE t = Main /\ pc'[Main] = "notify"
      BY <2>4, <3>1, MarkFacts DEF MainAt, Submitting
    <3>2. CASE t = Waiter(q) /\ current' = current
      BY <2>4, <3>2, MarkFacts, ThreadsDiffer DEF MainAt, Submitting, ThreadNames
    <3> QED
      BY <2>4, <3>1, <3>2, MarkFacts
  <2>5. CASE Spawn \/ Admit \/ WriteFails
    <3>1. /\ pc[Main] \in {"spawn", "admit", "write"} /\ UNCHANGED <<unread, current>>
          /\ \E l \in {"snap", "write", "unwind"} : GoTo(Main, l)
      BY <2>5 DEF Spawn, Admit, WriteFails
    <3> QED
      BY <3>1, MainGoesOn DEF Submitting
  <2>6. CASE Write
    BY <2>6, WriteFacts DEF Submitting, tables
  <2>7. ASSUME NEW q \in Req, ReadLine(q)
        PROVE  unread' \subseteq unread /\ (MainAt' \in Submitting => current' \in unread)
    BY <2>7, ReadLineFacts
  <2>8. ASSUME NEW g \in Generation, ReaderStep(g)
        PROVE  UNCHANGED <<unread, current>> /\ MainAt' = MainAt
    <3>1. /\ UNCHANGED <<unread, current, resume>>
          /\ \/ pc' = pc
             \/ \E S \in SUBSET Req : pc' = WithoutTimers(S, pc)
      <4>1. /\ \A k \in Key : Addressed(g, k) \in SUBSET Req
            /\ UnfinishedOf(g) \in SUBSET Req
        BY DEF Addressed, UnfinishedOf, Unfinished, Inv, DataOK, SupDataOK
      <4>2. hand[g] # None => hand[g].type = "garbage" \/ KeyOf[hand[g].req] \in Key
        BY ChannelAssumption DEF Inv, DataOK, SupDataOK, LinesFromWorker, GarbageLine
      <4>3. CASE TakeLine(g)
        BY <4>3 DEF TakeLine
      <4>4. CASE DeliverResponse(g)
        BY <4>1, <4>2, <4>4 DEF DeliverResponse
      <4>5. CASE DeliverFinished(g)
        BY <4>1, <4>2, <4>5 DEF DeliverFinished
      <4>6. CASE DeliverGarbage(g) \/ ReaderEnds(g)
        BY <4>1, <4>6 DEF DeliverGarbage, ReaderEnds, FailGeneration
      <4> QED
        BY <2>8, <4>3, <4>4, <4>5, <4>6 DEF ReaderStep
    <3> QED
      BY <3>1, SettleOnward DEF MainAt
  <2> QED
    BY <1>1, <2>1, <2>2, <2>3, <2>4, <2>5, <2>6, <2>7, <2>8, SupervisorCases
<1>2. CASE WorkerRuns \/ Surroundings \/ Exited \/ UNCHANGED vars
  BY <1>2 DEF WorkerRuns, Surroundings, ReplaceSource, Boot, Crash, Babble, Exited, vars, supVars, MainAt
<1> QED
  BY <1>1, <1>2 DEF Next

-----------------------------------------------------------------------------
(* What is taken from the table.                                           *)

LEMMA Unregisters ==
    ASSUME Inv, NEW S \in SUBSET Req, pending' = WithoutPending(S)
    PROVE  /\ \A k \in Key : pending'[k] = IF pending[k] \in S THEN None ELSE pending[k]
           /\ \A r \in Req : Registered(r)' <=> Registered(r) /\ r \notin S
<1>1. \A k \in Key : pending'[k] = IF pending[k] \in S THEN None ELSE pending[k]
  BY DEF WithoutPending
<1>2. ASSUME NEW r \in Req
      PROVE  Registered(r)' <=> Registered(r) /\ r \notin S
  BY <1>1, ChannelAssumption DEF Registered
<1> QED
  BY <1>1, <1>2

\* What the steps of a reader that deliver something have in common.
Delivers(g, S) ==
    /\ \A q \in S : Registered(q) /\ gen[q] = g
    /\ pending' = WithoutPending(S)
    /\ pc' = WithoutTimers(S, pc)
    /\ hand'[g] = None /\ \A h \in Generation \ {g} : hand'[h] = hand[h]
    /\ \A q \in Req \ S : slot'[q] = slot[q]
    /\ UNCHANGED <<toWorker, fromWorker, generation, process, loaded, reload, source, resume, gen,
                   cancelled, unread, current, snapshot, answers, closing>>
    /\ alive' => alive

Responds(g, S, q) ==
    /\ alive' = alive
    /\ InHand(q, g) /\ hand[g] # FinishedLine(q) /\ \A r \in S : KeyOf[r] = KeyOf[q]
    /\ \A r \in S : slot'[r] = IF cancelled[r] \/ slot[r] # "empty" THEN slot[r]
                               ELSE IF S = {q} THEN "result" ELSE "wrong"

Acknowledges(g, S, q) ==
    /\ alive' = alive
    /\ InHand(q, g) /\ hand[g] = FinishedLine(q) /\ \A r \in S : KeyOf[r] = KeyOf[q] /\ cancelled[r]
    /\ \A r \in S : slot'[r] = slot[r]

FailsAll(g, S) ==
    /\ g = generation => ~alive'
    /\ g # generation => alive' = alive
    /\ \A r \in S : slot'[r] = IF slot[r] # "empty" THEN slot[r] ELSE "error"

LEMMA ReaderFacts ==
    ASSUME Inv, TableInv, NEW g \in Generation, ReaderStep(g), ~TakeLine(g)
    PROVE  \E S \in SUBSET Req :
               /\ Delivers(g, S)
               /\ \/ \E q \in Req : Responds(g, S, q) \/ Acknowledges(g, S, q)
                  \/ FailsAll(g, S)
<1>0. /\ pending \in [Key -> Req \cup {None}] /\ slot \in [Req -> Slot] /\ cancelled \in [Req -> BOOLEAN]
      /\ hand \in [Generation -> LinesFromWorker \cup {None}] /\ alive \in BOOLEAN
      /\ KeyOf \in [Req -> Key] /\ None \notin Req
  BY ChannelAssumption DEF Inv, DataOK, SupDataOK, ChannelTypeOK
<1>1. ASSUME hand[g] # None, hand[g].type # "garbage"
      PROVE  /\ hand[g].req \in Req
             /\ hand[g] = [type |-> hand[g].type, req |-> hand[g].req]
             /\ Addressed(g, KeyOf[hand[g].req]) \in SUBSET Req
             /\ \A r \in Addressed(g, KeyOf[hand[g].req]) :
                    Registered(r) /\ gen[r] = g /\ KeyOf[r] = KeyOf[hand[g].req]
  <2>1. hand[g] \in [type : {"result", "refusal", "finished"}, req : Req]
    BY <1>0, <1>1 DEF LinesFromWorker, GarbageLine
  <2>2. KeyOf[hand[g].req] \in Key
    BY <1>0, <2>1
  <2> QED
    BY <1>0, <2>1, <2>2 DEF Addressed, Registered, TableInv
<1>2. CASE DeliverResponse(g)
  <2> DEFINE q == hand[g].req
             S == Addressed(g, KeyOf[q])
  <2>1. hand[g] # None /\ hand[g].type \in {"result", "refusal"}
    BY <1>2 DEF DeliverResponse
  <2>2. Delivers(g, S)
    BY <1>0, <1>1, <1>2, <2>1 DEF DeliverResponse, Delivers, Signalled, Told, channelVars
  <2>3. Responds(g, S, q)
    BY <1>0, <1>1, <1>2, <2>1
       DEF DeliverResponse, Responds, Signalled, Told, channelVars, InHand, Lines,
           ResultLine, RefusalLine, FinishedLine
  <2> QED
    BY <1>1, <2>1, <2>2, <2>3
<1>3. CASE DeliverFinished(g)
  <2> DEFINE q == hand[g].req
             S == {r \in Addressed(g, KeyOf[q]) : cancelled[r]}
  <2>1. hand[g] # None /\ hand[g].type = "finished"
    BY <1>3 DEF DeliverFinished
  <2>2. Delivers(g, S)
    BY <1>0, <1>1, <1>3, <2>1 DEF DeliverFinished, Delivers, channelVars
  <2>3. Acknowledges(g, S, q)
    BY <1>0, <1>1, <1>3, <2>1 DEF DeliverFinished, Acknowledges, channelVars, InHand, Lines, FinishedLine
  <2> QED
    BY <1>1, <2>1, <2>2, <2>3
<1>4. CASE DeliverGarbage(g) \/ ReaderEnds(g)
  <2> DEFINE S == UnfinishedOf(g)
  <2>1. S \in SUBSET Req /\ \A r \in S : Registered(r) /\ gen[r] = g
    BY DEF UnfinishedOf, Unfinished
  <2>2. FailGeneration(g, pc) /\ hand'[g] = None /\ \A h \in Generation \ {g} : hand'[h] = hand[h]
    BY <1>0, <1>4 DEF DeliverGarbage, ReaderEnds
  <2>3. /\ g = generation => ~alive'
        /\ g # generation => alive' = alive
        /\ alive' => alive
    <3>1. generation \in 0 .. MaxGen /\ g \in 1 .. MaxGen /\ MaxGen \in Nat
      BY SupervisorAssumption DEF Inv, DataOK, SupDataOK, Generation
    <3>2. CASE DeliverGarbage(g)
      <4>1. alive' <=> alive /\ g # generation
        BY <3>2 DEF DeliverGarbage
      <4>2. alive' \in BOOLEAN
        BY <3>2, <1>0 DEF DeliverGarbage
      <4> QED
        BY <1>0, <4>1, <4>2
    <3>3. CASE ReaderEnds(g)
      <4>1. alive' = alive /\ (g < generation \/ ~alive)
        BY <3>3 DEF ReaderEnds, channelVars
      <4> QED
        BY <3>1, <4>1
    <3> QED
      BY <1>4, <3>2, <3>3
  <2>4. Delivers(g, S)
    BY <1>0, <1>4, <2>1, <2>2, <2>3
       DEF Delivers, FailGeneration, Signalled, DeliverGarbage, ReaderEnds, channelVars
  <2>5. FailsAll(g, S)
    BY <1>0, <2>1, <2>2, <2>3 DEF FailsAll, FailGeneration, Signalled
  <2> QED
    BY <2>1, <2>4, <2>5
<1> QED
  BY <1>2, <1>3, <1>4 DEF ReaderStep

-----------------------------------------------------------------------------
(* A request is at one place.                                              *)

LEMMA LinesDiffer ==
    ASSUME NEW q \in Req, NEW r \in Req
    PROVE  /\ CancelLine(q) \notin {RequestLine(r)} /\ GarbageLine \notin Lines(r)
           /\ (RequestLine(q) \in {RequestLine(r)} <=> q = r)
           /\ q # r => Lines(q) \cap Lines(r) = {}
           /\ ResultLine(r) # RefusalLine(r) /\ FinishedLine(r) # RefusalLine(r)
           /\ ResultLine(r) # FinishedLine(r)
           /\ \A L \in {Lines(r), {ResultLine(r)}, {RefusalLine(r)}} : L \subseteq Lines(r)
           /\ Lines(r) \subseteq LinesFromWorker /\ RequestLine(r) \in LinesToWorker
           /\ CancelLine(r) \in LinesToWorker /\ GarbageLine \in LinesFromWorker
BY DEF CancelLine, RequestLine, GarbageLine, Lines, ResultLine, RefusalLine, FinishedLine, LinesToWorker,
       LinesFromWorker

LEMMA PipeTypes ==
    ASSUME Inv
    PROVE  /\ toWorker \in Seq(LinesToWorker) /\ fromWorker \in Seq(LinesFromWorker)
           /\ queue \in Seq(Req) /\ work \in [Req -> WorkState] /\ started \in [Req -> Nat]
           /\ hand \in [Generation -> LinesFromWorker \cup {None}]
           /\ generation \in 0 .. MaxGen /\ MaxGen \in Nat
           /\ alive \in BOOLEAN /\ flagged \subseteq Req
           /\ slot \in [Req -> Slot] /\ cancelled \in [Req -> BOOLEAN] /\ gen \in [Req -> 0 .. MaxGen]
           /\ pending \in [Key -> Req \cup {None}]
BY SupervisorAssumption DEF Inv, DataOK, ChannelTypeOK, SupDataOK, RestOK, WorkerTypeOK

\* A step that at most takes things away, or adds lines that are no part of
\* the story, keeps a request at its one place.
LEMMA PlaceShrinks ==
    ASSUME Inv, NEW r \in Req, OnceInv(r), StartInv(r),
           Unsent(r)' => Unsent(r),
           \/ toWorker' \in {toWorker, <<>>}
           \/ toWorker # <<>> /\ toWorker' = Tail(toWorker)
           \/ \E q \in Req : toWorker' = Append(toWorker, CancelLine(q)),
           \/ fromWorker' \in {fromWorker, <<>>}
           \/ fromWorker' = Append(fromWorker, GarbageLine),
           \A g \in Generation : hand'[g] \in {hand[g], None},
           \/ work'[r] = work[r] /\ (r \in flagged => r \in flagged')
           \/ work'[r] = "idle",
           started'[r] = started[r]
    PROVE  OnceInv(r)' /\ StartInv(r)'
<1>1. /\ InStdin(r)' => InStdin(r)
      /\ Single(toWorker, {RequestLine(r)})'
  <2> DEFINE L == {RequestLine(r)}
  <2>1. toWorker \in Seq(LinesToWorker) /\ Single(toWorker, L)
    BY PipeTypes DEF OnceInv
  <2>2. CASE toWorker' \in {toWorker, <<>>}
    BY <2>1, <2>2, EmptyHolds DEF InStdin
  <2>3. CASE toWorker # <<>> /\ toWorker' = Tail(toWorker)
    BY <2>1, <2>3, TailHolds DEF InStdin
  <2>4. ASSUME NEW q \in Req, toWorker' = Append(toWorker, CancelLine(q))
        PROVE  (InStdin(r)' => InStdin(r)) /\ Single(toWorker, L)'
    <3>1. CancelLine(q) \in LinesToWorker /\ CancelLine(q) \notin L
      BY LinesDiffer
    <3> QED
      BY <2>1, <2>4, <3>1, AppendHolds DEF InStdin
  <2> QED
    BY <2>2, <2>3, <2>4
<1>2. ASSUME NEW L \in {Lines(r), {ResultLine(r)}, {RefusalLine(r)}}
      PROVE  /\ Holds(fromWorker', L) => Holds(fromWorker, L)
             /\ Single(fromWorker, L) => Single(fromWorker', L)
  <2>1. GarbageLine \notin L /\ GarbageLine \in LinesFromWorker
    BY LinesDiffer
  <2>2. fromWorker \in Seq(LinesFromWorker)
    BY PipeTypes
  <2>3. CASE fromWorker' \in {fromWorker, <<>>}
    BY <2>3, EmptyHolds
  <2>4. CASE fromWorker' = Append(fromWorker, GarbageLine)
    BY <2>1, <2>2, <2>4, AppendHolds
  <2> QED
    BY <2>3, <2>4
<1>3. \A g \in Generation : InHand(r, g)' => InHand(r, g) /\ hand'[g] = hand[g]
  BY DEF InHand
<1>4. InStdout(r)' => InStdout(r)
  BY <1>2 DEF InStdout
<1>5. Returning(r)' => Returning(r)
  BY <1>3, <1>4 DEF Returning
<1>6. OnceInv(r)'
  BY <1>1, <1>2, <1>3, <1>4, <1>5 DEF OnceInv, InWork
<1>7. StartInv(r)'
  BY <1>1, <1>2, <1>3 DEF StartInv
<1> QED
  BY <1>6, <1>7

\* The worker never turns down what the supervisor has let through.
LEMMA NeverRefused ==
    ASSUME Inv, ServiceInv, code # 0, NEW r \in Req
    PROVE  ~Refuse(r)
<1> SUFFICES ASSUME Refuse(r)
             PROVE  FALSE
  OBVIOUS
<1>1. /\ alive /\ r \notin Notification /\ toWorker # <<>> /\ Head(toWorker) = RequestLine(r)
      /\ AdmittedUnder(KeyOf[r]) # {} \/ Cardinality(Admitted) >= MaxInFlight
  BY DEF Refuse, NextLineIs
<1>2. InStdin(r)
  <2>1. Head(toWorker) \in {RequestLine(r)}
    BY <1>1
  <2> QED
    BY <1>1, <2>1, PipeTypes, TailHolds DEF InStdin
<1>3. Registered(r) /\ r \notin Admitted
  BY <1>1, <1>2 DEF ServiceInv, AccountInv, OnceInv, InWork, Admitted
<1>4. \A q \in Admitted : q \in Req /\ Registered(q)
  BY <1>1 DEF ServiceInv, AccountInv, NoteInv, InWork, Admitted
<1>5. AdmittedUnder(KeyOf[r]) = {}
  BY <1>3, <1>4 DEF AdmittedUnder, Registered
<1>6. Cardinality(Admitted) < MaxInFlight
  <2>1. Admitted \subseteq Unfinished \ {r} /\ r \in Unfinished
    BY <1>3, <1>4 DEF Unfinished
  <2>2. IsFiniteSet(Unfinished) /\ Cardinality(Unfinished) <= MaxInFlight
    BY DEF ServiceInv, RoomInv
  <2>3. IsFiniteSet(Unfinished \ {r}) /\ Cardinality(Unfinished \ {r}) = Cardinality(Unfinished) - 1
    BY <2>1, <2>2, FS_RemoveElement
  <2>4. Cardinality(Admitted) <= Cardinality(Unfinished \ {r}) /\ IsFiniteSet(Admitted)
    BY <2>1, <2>3, FS_Subset
  <2>5. Cardinality(Admitted) \in Nat /\ Cardinality(Unfinished) \in Nat /\ MaxInFlight \in Nat
    BY <2>2, <2>4, FS_CardinalityType, ChannelAssumption
  <2> QED
    BY <2>2, <2>3, <2>4, <2>5
<1>7. Cardinality(Admitted) \in Int /\ MaxInFlight \in Int
  <2>1. Admitted \subseteq Unfinished
    BY <1>4 DEF Unfinished
  <2> QED
    BY <2>1, FS_Subset, FS_CardinalityType, ChannelAssumption DEF ServiceInv, RoomInv
<1> QED
  BY <1>1, <1>5, <1>6, <1>7

LEMMA WritePlaces ==
    ASSUME Inv, ServiceInv, Write, Aftermath, NEW r \in Req, Unsent(r)' => Unsent(r)
    PROVE  OnceInv(r)' /\ StartInv(r)'
<1>1. /\ OnceInv(r) /\ StartInv(r)
      /\ UNCHANGED <<work, started, flagged, fromWorker, hand>>
      /\ current \in Req /\ toWorker' = Append(toWorker, RequestLine(current))
  BY WriteFacts, WorkStays DEF ServiceInv, workerVars
<1>2. /\ InStdin(r)' <=> InStdin(r) \/ r = current
      /\ (r = current => ~InStdin(r)) => Single(toWorker, {RequestLine(r)})'
  <2>1. RequestLine(current) \in LinesToWorker /\ (RequestLine(current) \in {RequestLine(r)} <=> r = current)
    BY <1>1, LinesDiffer
  <2>2. Single(toWorker, {RequestLine(r)}) /\ toWorker \in Seq(LinesToWorker)
    BY <1>1, PipeTypes DEF OnceInv
  <2> QED
    BY <1>1, <2>1, <2>2, AppendHolds DEF InStdin
<1>3. r = current => Unsent(r) /\ ~Unsent(r)'
  <2>1. MainAt = "write" /\ MainAt' = "read" /\ unread' = unread
    BY WriteFacts DEF tables
  <2>2. current \notin unread
    BY <2>1 DEF Inv, AnswerInv, Submitting
  <2> QED
    BY <2>1, <2>2 DEF Unsent, Submitting
<1>4. /\ InStdout(r)' <=> InStdout(r)
      /\ \A g \in Generation : InHand(r, g)' <=> InHand(r, g)
      /\ Returning(r)' <=> Returning(r)
      /\ InWork(r)' <=> InWork(r)
  BY <1>1 DEF InStdout, InHand, Returning, InWork
<1>5. OnceInv(r)'
  BY <1>1, <1>2, <1>3, <1>4 DEF OnceInv
<1>6. StartInv(r)'
  BY <1>1, <1>2, <1>3, <1>4 DEF StartInv
<1> QED
  BY <1>5, <1>6

LEMMA TakeLinePlaces ==
    ASSUME Inv, ServiceInv, NEW g \in Generation, TakeLine(g), Aftermath, NEW r \in Req, Unsent(r)' => Unsent(r)
    PROVE  OnceInv(r)' /\ StartInv(r)'
<1> DEFINE line == Head(fromWorker)
<1>1. /\ OnceInv(r) /\ StartInv(r)
      /\ fromWorker # <<>> /\ fromWorker \in Seq(LinesFromWorker) /\ fromWorker' = Tail(fromWorker)
      /\ hand[g] = None /\ hand' = [hand EXCEPT ![g] = line]
      /\ UNCHANGED toWorker
  BY PipeTypes DEF TakeLine, ServiceInv
<1>2. UNCHANGED <<work, started, flagged>>
  BY WorkStays DEF TakeLine, workerVars
<1>3. ASSUME NEW L \in {Lines(r), {ResultLine(r)}, {RefusalLine(r)}}
      PROVE  /\ Holds(fromWorker, L) <=> line \in L \/ Holds(fromWorker', L)
             /\ Single(fromWorker, L) => Single(fromWorker', L)
             /\ Single(fromWorker, L) /\ line \in L => ~Holds(fromWorker', L)
  BY <1>1, TailHolds
<1>4. /\ InHand(r, g)' => line \in Lines(r) /\ hand'[g] = line /\ InStdout(r)
      /\ \A h \in Generation \ {g} : (InHand(r, h)' <=> InHand(r, h)) /\ hand'[h] = hand[h]
      /\ InStdout(r)' => InStdout(r) /\ line \notin Lines(r)
      /\ Single(fromWorker, Lines(r))'
  BY <1>1, <1>3, PipeTypes DEF InHand, InStdout, OnceInv
<1>5. Returning(r)' => Returning(r)
  BY <1>4 DEF Returning
<1>6. OnceInv(r)'
  <2>1. InStdin(r)' <=> InStdin(r)
    BY <1>1 DEF InStdin
  <2>2. InStdout(r)' => \A h \in Generation : ~InHand(r, h)'
    BY <1>1, <1>4 DEF OnceInv
  <2>3. \A h, i \in Generation : InHand(r, h)' /\ InHand(r, i)' => h = i
    BY <1>1, <1>4 DEF OnceInv
  <2> QED
    BY <1>1, <1>2, <1>4, <1>5, <2>1, <2>2, <2>3 DEF OnceInv, InWork
<1>7. StartInv(r)'
  <2>1. /\ ~Holds(fromWorker', {RefusalLine(r)}) /\ line # RefusalLine(r)
        /\ Holds(fromWorker', {ResultLine(r)}) \/ line = ResultLine(r) => started[r] = 1
    BY <1>1, <1>3 DEF StartInv
  <2>2. \A h \in Generation : InHand(r, h)' => hand'[h] # RefusalLine(r) /\ (hand'[h] = ResultLine(r) => started[r] = 1)
    BY <1>1, <1>4, <2>1 DEF StartInv
  <2> QED
    BY <1>1, <1>2, <2>1, <2>2 DEF StartInv, InStdin
<1> QED
  BY <1>6, <1>7

\* A step of the worker on one request, that leaves its output alone.
WorksOn(q) ==
    \/ Dispatch(q) \/ Take(q) \/ Lock(q) \/ Return(q) \/ Pop(q)

LEMMA WorkPlaces ==
    ASSUME Inv, ServiceInv, NEW q \in Req, WorksOn(q), NEW r \in Req, UNCHANGED supVars
    PROVE  OnceInv(r)' /\ StartInv(r)'
<1>1. /\ OnceInv(r) /\ StartInv(r) /\ OnceInv(q) /\ StartInv(q)
      /\ work \in [Req -> WorkState] /\ started \in [Req -> Nat] /\ toWorker \in Seq(LinesToWorker)
      /\ queue \in Seq(Req)
      /\ UNCHANGED <<fromWorker, hand>> /\ (Unsent(r)' <=> Unsent(r))
  BY PipeTypes DEF ServiceInv, WorksOn, Dispatch, Take, Lock, Return, Pop, supVars, Unsent, MainAt
<1>2. \A p \in Req : /\ InStdout(p)' <=> InStdout(p)
                     /\ \A g \in Generation : InHand(p, g)' <=> InHand(p, g)
                     /\ Returning(p)' <=> Returning(p)
  BY <1>1 DEF InStdout, InHand, Returning
<1>3. CASE Dispatch(q)
  <2>1. /\ toWorker # <<>> /\ Head(toWorker) = RequestLine(q) /\ toWorker' = Tail(toWorker)
        /\ work' = [work EXCEPT ![q] = "queued"] /\ flagged' = flagged \ {q} /\ started' = started
    BY <1>3 DEF Dispatch, NextLineIs
  <2>2. /\ InStdin(r) <=> r = q \/ InStdin(r)'
        /\ Single(toWorker, {RequestLine(r)})'
        /\ r = q => ~InStdin(r)'
    <3>1. Head(toWorker) \in {RequestLine(r)} <=> r = q
      BY <2>1, LinesDiffer
    <3>2. Single(toWorker, {RequestLine(r)})
      BY <1>1 DEF OnceInv
    <3> QED
      BY <1>1, <2>1, <3>1, <3>2, TailHolds DEF InStdin
  <2>3. OnceInv(r)'
    BY <1>1, <1>2, <2>1, <2>2 DEF OnceInv, InWork
  <2>4. StartInv(r)'
    BY <1>1, <1>2, <2>1, <2>2 DEF StartInv
  <2> QED
    BY <2>3, <2>4
<1>4. CASE ~Dispatch(q)
  <2>1. /\ toWorker' = toWorker /\ (InStdin(r)' <=> InStdin(r))
        /\ \A p \in Req \ {q} : work'[p] = work[p] /\ started'[p] = started[p]
        /\ flagged \ {q} \subseteq flagged'
    BY <1>1, <1>4 DEF WorksOn, Take, Lock, Return, Pop, MoveOn, InStdin
  <2>2. /\ work[q] # "idle"
        /\ work'[q] \in {"locking"} => started'[q] = 0
        /\ work'[q] \in {"handling", "result"} => started'[q] = 1
        /\ work'[q] = "returned" => started'[q] = 1 \/ q \in flagged'
        /\ work'[q] # "queued"
        /\ started'[q] <= 1
    <3>1. CASE Take(q)
      <4>1. work[q] = "queued"
        <5>1. queue # <<>> /\ Head(queue) \in {q}
          BY <3>1 DEF Take
        <5> QED
          BY <1>1, <5>1, TailHolds DEF ServiceInv, QueueInv
      <4>2. started[q] = 0
        BY <1>1, <4>1 DEF StartInv
      <4>3. /\ flagged' = flagged
            /\ work' = [work EXCEPT ![q] = Taken(q)]
            /\ started' = IF Taken(q) = "handling" THEN [started EXCEPT ![q] = @ + 1] ELSE started
        BY <3>1 DEF Take, MoveOn
      <4>4. Taken(q) \in {"returned", "locking", "handling"} /\ (Taken(q) = "returned" => q \in flagged)
        BY DEF Taken
      <4> QED
        BY <1>1, <4>1, <4>2, <4>3, <4>4
    <3>2. CASE Lock(q)
      <4>1. work[q] = "locking" /\ started[q] = 0
        BY <1>1, <3>2 DEF Lock, StartInv
      <4>2. /\ flagged' = flagged
            /\ work' = [work EXCEPT ![q] = Locked(q)]
            /\ started' = IF Locked(q) = "handling" THEN [started EXCEPT ![q] = @ + 1] ELSE started
        BY <3>2 DEF Lock, MoveOn
      <4>3. Locked(q) \in {"returned", "handling"} /\ (Locked(q) = "returned" => q \in flagged)
        BY DEF Locked
      <4> QED
        BY <1>1, <4>1, <4>2, <4>3
    <3>3. CASE Return(q)
      BY <1>1, <3>3 DEF Return, StartInv
    <3>4. CASE Pop(q)
      <4>1. work' = [work EXCEPT ![q] = Outcome(q)] /\ work[q] = "returned" /\ started' = started
        BY <3>4 DEF Pop
      <4>2. Outcome(q) \in {"result", "acking", "idle"} /\ (Outcome(q) = "result" => q \notin flagged)
        BY DEF Outcome
      <4> QED
        BY <1>1, <4>1, <4>2 DEF StartInv
    <3> QED
      BY <1>4, <3>1, <3>2, <3>3, <3>4 DEF WorksOn
  <2>3. InWork(r)' => InWork(r)
    BY <2>1, <2>2 DEF InWork
  <2>4. OnceInv(r)'
    BY <1>1, <1>2, <2>1, <2>3 DEF OnceInv
  <2>5. StartInv(r)'
    <3>1. CASE r # q
      BY <1>1, <1>2, <2>1, <3>1 DEF StartInv
    <3>2. CASE r = q
      <4>1. Unsent(r)' \/ InStdin(r)' => FALSE
        BY <1>1, <2>1, <2>2, <3>2 DEF OnceInv, InWork
      <4>2. started[r] = 1 => started'[r] = 1
        BY <1>1, <2>2, <3>2, <1>4 DEF WorksOn, Take, Lock, Return, Pop, MoveOn, StartInv
      <4> QED
        BY <1>1, <1>2, <2>2, <3>2, <4>1, <4>2 DEF StartInv
    <3> QED
      BY <3>1, <3>2
  <2> QED
    BY <2>4, <2>5
<1> QED
  BY <1>3, <1>4

LEMMA SendPlaces ==
    ASSUME Inv, ServiceInv, NEW q \in Req, SendResult(q) \/ SendFinished(q), NEW r \in Req, UNCHANGED supVars
    PROVE  /\ OnceInv(r)' /\ StartInv(r)'
           /\ InWork(q) /\ alive /\ (InStdout(r)' <=> InStdout(r) \/ r = q)
<1> DEFINE line == IF SendResult(q) THEN ResultLine(q) ELSE FinishedLine(q)
<1>1. /\ OnceInv(r) /\ StartInv(r) /\ OnceInv(q) /\ StartInv(q)
      /\ UNCHANGED <<toWorker, hand, started, flagged>> /\ (Unsent(r)' <=> Unsent(r))
      /\ work' = [work EXCEPT ![q] = "idle"] /\ work \in [Req -> WorkState]
      /\ InWork(q) /\ alive
      /\ (line = ResultLine(q) => started[q] = 1)
      /\ fromWorker' = Append(fromWorker, line) /\ fromWorker \in Seq(LinesFromWorker)
  <2>1. fromWorker' = Append(fromWorker, line)
    BY DEF SendResult, SendFinished, SendLine
  <2>2. line = ResultLine(q) => SendResult(q)
    BY LinesDiffer
  <2> QED
    BY PipeTypes, <2>1, <2>2 DEF ServiceInv, SendResult, SendFinished, CanSend, StartInv, supVars, Unsent, MainAt, InWork
<1>2. ASSUME NEW L \in {Lines(r), {ResultLine(r)}, {RefusalLine(r)}}
      PROVE  /\ Holds(fromWorker', L) <=> Holds(fromWorker, L) \/ line \in L
             /\ Single(fromWorker, L) /\ (line \in L => ~Holds(fromWorker, L)) => Single(fromWorker', L)
  <2>1. line \in LinesFromWorker
    BY LinesDiffer DEF Lines
  <2> QED
    BY <1>1, <2>1, AppendHolds
<1>3. /\ line \in Lines(r) <=> r = q
      /\ line # RefusalLine(r) /\ (line = ResultLine(r) => r = q)
  BY LinesDiffer DEF Lines
<1>4. /\ InStdin(r)' <=> InStdin(r)
      /\ \A g \in Generation : InHand(r, g)' <=> InHand(r, g)
      /\ InStdout(r)' <=> InStdout(r) \/ r = q
      /\ InWork(r)' <=> InWork(r) /\ r # q
  BY <1>1, <1>2, <1>3 DEF InStdin, InHand, InStdout, InWork
<1>5. Returning(r)' <=> Returning(r) \/ r = q
  BY <1>4 DEF Returning
<1>6. Single(fromWorker', Lines(r))
  BY <1>1, <1>2, <1>3 DEF OnceInv, Returning, InStdout
<1>7. r = q => \A g \in Generation : ~InHand(r, g)
  BY <1>1 DEF OnceInv, Returning
<1>8. OnceInv(r)'
  BY <1>1, <1>4, <1>5, <1>6, <1>7 DEF OnceInv
<1>9. StartInv(r)'
  BY <1>1, <1>2, <1>3, <1>4 DEF StartInv
<1> QED
  BY <1>1, <1>4, <1>8, <1>9

\* Boot, Crash and Babble: what surrounds the supervisor does to the process.
LEMMA SurroundingFacts ==
    ASSUME Inv, Boot \/ Crash \/ Babble
    PROVE  /\ UNCHANGED <<supVars, started>>
           /\ toWorker' \in {toWorker, <<>>}
           /\ fromWorker' = fromWorker \/ (fromWorker' = Append(fromWorker, GarbageLine) /\ alive)
           /\ \/ alive' = alive /\ UNCHANGED <<toWorker, workerVars>>
              \/ alive /\ alive' = FALSE /\ code' = 0 /\ UNCHANGED fromWorker
                 /\ ((UNCHANGED workerVars /\ code = 0)
                       \/ (work' = [r \in Req |-> "idle"] /\ queue' = <<>>))
           /\ code' # code => code' = 0 \/ (code = 0 /\ code' = source)
           /\ code' # 0 => alive'
<1>0. code # 0 => alive \/ ~alive
  OBVIOUS
<1>1. CASE Boot
  BY <1>1 DEF Boot, workerVars, channelVars
<1>2. CASE Crash
  BY <1>2 DEF Crash, WorkLost
<1>3. CASE Babble
  BY <1>3 DEF Babble, CanSend, SendLine, workerVars
<1> QED
  BY <1>1, <1>2, <1>3

\* The steps of the worker, by what they change.
LEMMA WorkerCases ==
    ASSUME Inv, ServiceInv, WorkerRuns
    PROVE  /\ code # 0 /\ alive /\ UNCHANGED <<supVars, code, faults, alive>>
           /\ \E q \in Req : \/ WorksOn(q) \/ Ignore(q) \/ Cancel(q)
                             \/ SendResult(q) \/ SendFinished(q)
<1>1. code # 0 /\ alive /\ UNCHANGED <<supVars, code, faults>>
  BY DEF WorkerRuns, ServiceInv, ProcessInv
<1>2. PICK q \in Req : Dispatch(q) \/ Refuse(q) \/ Ignore(q) \/ Cancel(q) \/ ThreadStep(q) \/ Return(q)
  BY DEF WorkerRuns, DispatchStep
<1>3. ~Refuse(q)
  BY <1>1, NeverRefused
<1>4. \/ WorksOn(q) \/ Ignore(q) \/ Cancel(q)
      \/ SendResult(q) \/ SendFinished(q)
  BY <1>2, <1>3 DEF ThreadStep, WorksOn
<1>5. alive' = alive
  BY <1>4 DEF WorksOn, Dispatch, Take, Lock, Return, Pop, Ignore, Cancel, SendResult, SendFinished
<1> QED
  BY <1>1, <1>4, <1>5

\* At most something is taken away from the places, or a line is added that is
\* no part of the story.
Shrinks(r) ==
    /\ \/ toWorker' \in {toWorker, <<>>}
       \/ toWorker # <<>> /\ toWorker' = Tail(toWorker)
       \/ \E q \in Req : toWorker' = Append(toWorker, CancelLine(q))
    /\ \/ fromWorker' \in {fromWorker, <<>>}
       \/ fromWorker' = Append(fromWorker, GarbageLine)
    /\ \A g \in Generation : hand'[g] \in {hand[g], None}
    /\ \/ work'[r] = work[r] /\ (r \in flagged => r \in flagged')
       \/ work'[r] = "idle"
    /\ started'[r] = started[r]

\* The steps, by what they do to the places of a request.
LEMMA PlaceCases ==
    ASSUME Inv, ServiceInv, [Next]_vars, NEW r \in Req
    PROVE  \/ Shrinks(r)
           \/ Write /\ Aftermath
           \/ \E g \in Generation : TakeLine(g) /\ Aftermath
           \/ /\ UNCHANGED supVars /\ code # 0
              /\ \E q \in Req : WorksOn(q) \/ SendResult(q) \/ SendFinished(q)
<1>0. TableInv /\ alive \in BOOLEAN
  BY PipeTypes DEF ServiceInv
<1> USE DEF Shrinks
<1>2. CASE SupervisorRuns
  <2>0. Aftermath
    BY <1>2, SupervisorCases
  <2>1. /\ started' = started
        /\ \/ work'[r] = work[r] /\ (r \in flagged => r \in flagged')
           \/ work'[r] = "idle"
    BY <1>0, <2>0, WorkStaysOrIsLost DEF workerVars
  <2>2. CASE Moves
    BY <2>1, <2>2, MovesFrame DEF channelVars
  <2>3. ASSUME NEW t \in Thread, StopEnd(t)
        PROVE  Shrinks(r)
    BY <2>1, <2>3 DEF StopEnd
  <2>4. ASSUME NEW t, NEW q, NEW next, Notifies(t, q, next), Notify(t, q, next)
        PROVE  Shrinks(r)
    <3>1. q \in Req
      BY <2>4, NotifyOnward
    <3> QED
      BY <2>1, <2>4, <3>1 DEF Notify
  <2>5. ASSUME NEW t, NEW q, Marks(t, q)
        PROVE  Shrinks(r)
    BY <1>0, <2>1, <2>5, MarkFacts DEF channelVars
  <2>6. CASE Spawn \/ Admit \/ WriteFails
    BY <2>1, <2>6 DEF Spawn, Admit, WriteFails, FirstLines, channelVars
  <2>8. ASSUME NEW q \in Req, ReadLine(q)
        PROVE  Shrinks(r)
    BY <2>1, <2>8 DEF ReadLine, channelVars
  <2>9. ASSUME NEW g \in Generation, ReaderStep(g)
        PROVE  Shrinks(r) \/ TakeLine(g)
    <3> SUFFICES ASSUME ~TakeLine(g)
                 PROVE  Shrinks(r)
      OBVIOUS
    <3>1. PICK S \in SUBSET Req : Delivers(g, S)
      BY <1>0, <2>9, ReaderFacts
    <3>2. UNCHANGED <<toWorker, fromWorker>> /\ \A h \in Generation : hand'[h] \in {hand[h], None}
      BY <3>1 DEF Delivers
    <3> QED
      BY <2>1, <3>2
  <2> QED
    BY <1>2, <2>0, <2>2, <2>3, <2>4, <2>5, <2>6, <2>8, <2>9, SupervisorCases
<1>3. CASE WorkerRuns
  <2>1. PICK q \in Req : WorksOn(q) \/ Ignore(q) \/ Cancel(q) \/ SendResult(q) \/ SendFinished(q)
    BY <1>3, WorkerCases
  <2>2. UNCHANGED supVars /\ code # 0
    BY <1>3, WorkerCases
  <2>3. CASE Ignore(q) \/ Cancel(q)
    BY <2>2, <2>3 DEF Ignore, Cancel, NextLineIs, supVars
  <2> QED
    BY <2>1, <2>2, <2>3
<1>4. CASE Boot \/ Crash \/ Babble
  <2>1. hand' = hand /\ started' = started /\ toWorker' \in {toWorker, <<>>}
        /\ (fromWorker' = fromWorker \/ fromWorker' = Append(fromWorker, GarbageLine))
    BY <1>4, SurroundingFacts DEF supVars
  <2>2. UNCHANGED workerVars \/ work' = [q \in Req |-> "idle"]
    BY <1>4, SurroundingFacts
  <2> QED
    BY <2>1, <2>2 DEF workerVars
<1>5. CASE ReplaceSource /\ UNCHANGED <<workerVars, code, faults>>
  BY <1>5 DEF ReplaceSource, workerVars, channelVars
<1>6. CASE UNCHANGED vars
  BY <1>6 DEF vars, workerVars, channelVars, supVars
<1> QED
  BY <1>2, <1>3, <1>4, <1>5, <1>6 DEF Next, Surroundings, Exited

\* OnceInv and StartInv are kept.
LEMMA PlaceStep ==
    ASSUME Inv, ServiceInv, [Next]_vars, NEW r \in Req
    PROVE  OnceInv(r)' /\ StartInv(r)'
<1>0. /\ OnceInv(r) /\ StartInv(r) /\ TableInv
      /\ Unsent(r)' => Unsent(r)
  BY UnsentStep DEF ServiceInv
<1>1. CASE Shrinks(r)
  BY <1>0, <1>1, PlaceShrinks DEF Shrinks
<1>2. CASE Write /\ Aftermath
  BY <1>0, <1>2, WritePlaces
<1>3. ASSUME NEW g \in Generation, TakeLine(g), Aftermath
      PROVE  OnceInv(r)' /\ StartInv(r)'
  BY <1>0, <1>3, TakeLinePlaces
<1>4. ASSUME UNCHANGED supVars, NEW q \in Req, WorksOn(q) \/ SendResult(q) \/ SendFinished(q)
      PROVE  OnceInv(r)' /\ StartInv(r)'
  BY <1>4, WorkPlaces, SendPlaces
<1> QED
  BY <1>1, <1>2, <1>3, <1>4, PlaceCases

\* Where a request comes from.
LEMMA FlowStep ==
    ASSUME Inv, ServiceInv, [Next]_vars, NEW r \in Req
    PROVE  /\ InStdin(r)' => InStdin(r) \/ (Write /\ r = current)
           /\ InWork(r)' => InWork(r) \/ (InStdin(r) /\ r \notin Notification /\ code # 0)
           /\ InStdout(r)' => InStdout(r) \/ (InWork(r) /\ UNCHANGED supVars)
           /\ \A g \in Generation : InHand(r, g)' => InHand(r, g) \/ (g = generation /\ InStdout(r))
           /\ started'[r] # started[r] => InWork(r)
           /\ started[r] = 1 => started'[r] = 1
<1>0. OnceInv(r) /\ StartInv(r)
  BY DEF ServiceInv
<1>1. CASE Shrinks(r)
  <2>1. InStdin(r)' => InStdin(r)
    <3> DEFINE L == {RequestLine(r)}
    <3>1. toWorker \in Seq(LinesToWorker)
      BY PipeTypes
    <3>2. CASE toWorker' \in {toWorker, <<>>}
      BY <3>1, <3>2, EmptyHolds DEF InStdin
    <3>3. CASE toWorker # <<>> /\ toWorker' = Tail(toWorker)
      BY <3>1, <3>3, TailHolds DEF InStdin
    <3>4. ASSUME NEW q \in Req, toWorker' = Append(toWorker, CancelLine(q))
          PROVE  InStdin(r)' => InStdin(r)
      <4>1. CancelLine(q) \in LinesToWorker /\ CancelLine(q) \notin L
        BY LinesDiffer
      <4> QED
        BY <3>1, <3>4, <4>1, AppendHolds DEF InStdin
    <3> QED
      BY <1>1, <3>2, <3>3, <3>4 DEF Shrinks
  <2>2. InStdout(r)' => InStdout(r)
    <3>1. GarbageLine \notin Lines(r) /\ GarbageLine \in LinesFromWorker
      BY LinesDiffer
    <3>2. fromWorker \in Seq(LinesFromWorker)
      BY PipeTypes
    <3>3. CASE fromWorker' \in {fromWorker, <<>>}
      BY <3>3, EmptyHolds DEF InStdout
    <3>4. CASE fromWorker' = Append(fromWorker, GarbageLine)
      BY <3>1, <3>2, <3>4, AppendHolds DEF InStdout
    <3> QED
      BY <1>1, <3>3, <3>4 DEF Shrinks
  <2> QED
    BY <1>1, <2>1, <2>2 DEF Shrinks, InWork, InHand
<1>2. CASE Write /\ Aftermath
  <2>1. /\ UNCHANGED <<work, started, fromWorker, hand>>
        /\ current \in Req /\ toWorker' = Append(toWorker, RequestLine(current))
    BY <1>2, WriteFacts, WorkStays DEF workerVars
  <2>2. InStdin(r)' => InStdin(r) \/ r = current
    <3>1. RequestLine(current) \in LinesToWorker /\ (RequestLine(current) \in {RequestLine(r)} <=> r = current)
      BY <2>1, LinesDiffer
    <3>2. toWorker \in Seq(LinesToWorker)
      BY PipeTypes
    <3> QED
      BY <2>1, <3>1, <3>2, AppendHolds DEF InStdin
  <2> QED
    BY <1>2, <2>1, <2>2 DEF InWork, InStdout, InHand
<1>3. ASSUME NEW g \in Generation, TakeLine(g), Aftermath
      PROVE  /\ UNCHANGED <<work, started, toWorker>>
             /\ InStdout(r)' => InStdout(r)
             /\ \A h \in Generation : InHand(r, h)' => InHand(r, h) \/ (h = generation /\ InStdout(r))
  <2>1. /\ fromWorker # <<>> /\ fromWorker \in Seq(LinesFromWorker) /\ fromWorker' = Tail(fromWorker)
        /\ g = generation /\ hand' = [hand EXCEPT ![g] = Head(fromWorker)]
        /\ hand \in [Generation -> LinesFromWorker \cup {None}]
        /\ UNCHANGED toWorker
    BY <1>3, PipeTypes DEF TakeLine
  <2>2. UNCHANGED <<work, started>>
    BY <1>3, WorkStays DEF TakeLine, workerVars
  <2>3. InStdout(r) <=> Head(fromWorker) \in Lines(r) \/ InStdout(r)'
    BY <2>1, TailHolds DEF InStdout
  <2> QED
    BY <2>1, <2>2, <2>3 DEF InHand
<1>4. ASSUME UNCHANGED supVars, code # 0, NEW q \in Req, WorksOn(q)
      PROVE  /\ UNCHANGED <<fromWorker, hand>>
             /\ InStdin(r)' => InStdin(r)
             /\ InWork(r)' => InWork(r) \/ (InStdin(r) /\ r \notin Notification)
             /\ started'[r] # started[r] => InWork(r)
  <2>0. /\ UNCHANGED <<fromWorker, hand>> /\ toWorker \in Seq(LinesToWorker)
        /\ work \in [Req -> WorkState] /\ started \in [Req -> Nat] /\ queue \in Seq(Req)
    BY <1>4, PipeTypes DEF WorksOn, Dispatch, Take, Lock, Return, Pop, supVars
  <2>1. CASE Dispatch(q)
    <3>1. /\ toWorker # <<>> /\ Head(toWorker) = RequestLine(q) /\ toWorker' = Tail(toWorker)
          /\ work' = [work EXCEPT ![q] = "queued"] /\ started' = started /\ q \notin Notification
      BY <2>1 DEF Dispatch, NextLineIs
    <3>2. Head(toWorker) \in {RequestLine(r)} <=> r = q
      BY <3>1, LinesDiffer
    <3>3. InStdin(r) <=> r = q \/ InStdin(r)'
      BY <2>0, <3>1, <3>2, TailHolds DEF InStdin
    <3> QED
      BY <2>0, <3>1, <3>3 DEF InWork
  <2>2. CASE ~Dispatch(q)
    <3>1. /\ toWorker' = toWorker
          /\ \A p \in Req \ {q} : work'[p] = work[p] /\ started'[p] = started[p]
      BY <1>4, <2>0, <2>2 DEF WorksOn, Take, Lock, Return, Pop, MoveOn
    <3>2. InWork(q)
      <4>1. CASE Take(q)
        <5>1. queue # <<>> /\ Head(queue) \in {q}
          BY <4>1 DEF Take
        <5>2. Holds(queue, {q})
          BY <2>0, <5>1, TailHolds
        <5> QED
          BY <5>2 DEF ServiceInv, QueueInv, InWork
      <4>2. CASE Lock(q) \/ Return(q) \/ Pop(q)
        BY <4>2 DEF Lock, Return, Pop, InWork
      <4> QED
        BY <1>4, <2>2, <4>1, <4>2 DEF WorksOn
    <3> QED
      BY <2>0, <3>1, <3>2 DEF InWork, InStdin
  <2> QED
    BY <2>0, <2>1, <2>2
<1>5. ASSUME UNCHANGED supVars, NEW q \in Req, SendResult(q) \/ SendFinished(q)
      PROVE  /\ UNCHANGED <<toWorker, hand, started>>
             /\ InWork(r)' => InWork(r)
             /\ InStdout(r)' => InStdout(r) \/ InWork(r)
  <2>1. /\ UNCHANGED <<toWorker, hand, started>>
        /\ work' = [work EXCEPT ![q] = "idle"] /\ work \in [Req -> WorkState]
    BY <1>5, PipeTypes DEF SendResult, SendFinished, supVars
  <2>2. InWork(q) /\ (InStdout(r)' <=> InStdout(r) \/ r = q)
    BY <1>5, SendPlaces
  <2> QED
    BY <2>1, <2>2 DEF InWork
<1>6. \/ InStdin(r)' => InStdin(r)
      \/ Write /\ r = current
  BY <1>1, <1>2, <1>3, <1>4, <1>5, PlaceCases DEF InStdin
<1>7. started[r] = 1 => started'[r] = 1
  <2>1. StartInv(r)' /\ started'[r] \in Nat
    BY PlaceStep, NextInv, PipeTypes DEF Inv, RestOK, WorkerTypeOK
  <2>2. started[r] \in Nat /\ started'[r] >= started[r]
    <3>1. started \in [Req -> Nat]
      BY PipeTypes
    <3>2. ASSUME NEW q \in Req, WorksOn(q)
          PROVE  started' \in {started, [started EXCEPT ![q] = @ + 1]}
      BY <3>2 DEF WorksOn, Dispatch, Take, Lock, Return, Pop, MoveOn
    <3>3. started'[r] = started[r] \/ started'[r] = started[r] + 1
      BY <3>1, <3>2, <1>1, <1>2, <1>3, <1>5, PlaceCases, WorkStays, WriteFacts DEF Shrinks, workerVars
    <3> QED
      BY <3>1, <3>3
  <2> QED
    BY <2>1, <2>2 DEF StartInv
<1> QED
  BY <1>1, <1>2, <1>3, <1>4, <1>5, <1>6, <1>7, PlaceCases, WriteFacts, WorkStays
     DEF Shrinks, InWork, InStdout, InHand, workerVars

-----------------------------------------------------------------------------
(* The process and the table.                                              *)

\* Somebody waits for the answer of a request in the table.
Attended(r) ==
    \/ r \in Initialize
    \/ pc[Main] = "write" /\ current = r
    \/ pc[Waiter(r)] \in {"wait", "late"}

\* A thread moves, or begins to stop the worker.
Advances(t, l) ==
    /\ pc[t] \notin {"write", "stopping", "none", "notify"}
    /\ l \notin {"stopping", "notify"}
    /\ \/ GoTo(t, l) /\ UNCHANGED <<process, loaded, resume>> /\ l # "spawn"
       \/ StopBegin(t, l) /\ l \notin {"admit", "write", "late"}
    /\ \A r \in Req : t = Waiter(r) /\ pc[t] \in {"wait", "late"} =>
           l = "late" \/ r \in Initialize \/ slot[r] # "empty" \/ ~Registered(r) \/ cancelled[r]
    /\ l \in {"admit", "write"} => snapshot' # 0
    /\ l = "admit" => current \notin Notification
    /\ snapshot' = snapshot \/ (t = Main /\ pc[t] = "snap")

LEMMA MovesAdvance ==
    ASSUME Inv, Moves
    PROVE  \E t \in Thread, l \in Label \cup {"x"} : Advances(t, l)
<1>0. /\ Main \in Thread /\ \A r \in Req : Main # Waiter(r) /\ Main # Timer(r)
      /\ \A r \in Req : Waiter(r) \in Thread /\ Timer(r) \in Thread
      /\ \A q, r \in Req : Waiter(q) # Timer(r) /\ (Waiter(q) = Waiter(r) => q = r)
  BY ThreadsDiffer DEF ThreadNames
<1> USE DEF Advances, Label, MainPC, WaiterPC, TimerPC
<1>1. CASE EnsureCurrent
  <2>1. \/ StopBegin(Main, "fail") \/ StopBegin(Main, "spawn")
        \/ GoTo(Main, "snap") /\ UNCHANGED <<process, loaded, resume>>
    BY <1>1 DEF EnsureCurrent, Defer
  <2> QED
    BY <1>0, <1>1, <2>1 DEF EnsureCurrent
<1>2. CASE SpawnFails \/ Reject \/ Fail \/ Exit
  <2>1. PICK l \in {"fail", "read", "exit"} : GoTo(Main, l)
    BY <1>2 DEF SpawnFails, Reject, Fail, Exit
  <2> QED
    BY <1>0, <1>2, <2>1 DEF SpawnFails, Reject, Fail, Exit
<1>3. CASE Snapshot
  <2>1. PICK l \in {"fail", "write", "admit"} :
            GoTo(Main, l) /\ (l # "fail" => process # 0) /\ (l = "admit" => current \notin Notification)
    BY <1>3 DEF Snapshot
  <2> QED
    BY <1>0, <1>3, <2>1 DEF Snapshot
<1>4. CASE Unwind \/ ReadEOF \/ Expire(Main, current, "read")
  <2>1. PICK l \in {"fail", "drain", "read"} :
            StopBegin(Main, l) \/ (GoTo(Main, l) /\ UNCHANGED <<process, loaded, resume>>)
    BY <1>4 DEF Unwind, ReadEOF, Expire
  <2> QED
    BY <1>0, <1>4, <2>1 DEF Unwind, ReadEOF, Expire
<1>5. ASSUME NEW r \in Req, Receive(r)
      PROVE  Advances(Waiter(r), "done")
  BY <1>0, <1>5 DEF Receive
<1>6. ASSUME NEW r \in Req, TimeOut(r)
      PROVE  \E l \in Label : Advances(Waiter(r), l)
  <2>1. PICK l \in {"late", "expire"} : GoTo(Waiter(r), l) /\ (l = "late" \/ r \in Initialize)
    BY <1>6 DEF TimeOut, AfterTimeOut
  <2> QED
    BY <1>0, <1>6, <2>1 DEF TimeOut
<1>7. ASSUME NEW r \in Req, GiveUp(r)
      PROVE  Advances(Waiter(r), "done")
  BY <1>0, <1>7 DEF GiveUp
<1>8. ASSUME NEW r \in Req, TimerFires(r)
      PROVE  Advances(Timer(r), "expire")
  BY <1>0, <1>8 DEF TimerFires
<1>9. ASSUME NEW r \in Req, CancelLate(r), UNCHANGED cancelled
      PROVE  Advances(Waiter(r), "giveup")
  <2>1. ~(Registered(r) /\ ~cancelled[r]) /\ GoTo(Waiter(r), "giveup")
    <3>1. cancelled \in [Req -> BOOLEAN]
      BY PipeTypes
    <3>2. Registered(r) /\ ~cancelled[r] => cancelled' = [cancelled EXCEPT ![r] = TRUE]
      BY <1>9 DEF CancelLate, Mark
    <3>3. ~(Registered(r) /\ ~cancelled[r])
      BY <1>9, <3>1, <3>2
    <3> QED
      BY <1>9, <3>3 DEF CancelLate
  <2> QED
    BY <1>0, <1>9, <2>1 DEF CancelLate
<1>10. ASSUME NEW r \in Req, NEW l \in {"giveup", "done"}, NEW t \in {Waiter(r), Timer(r)}, Expire(t, r, l)
       PROVE  Advances(t, l)
  <2>1. StopBegin(t, l) \/ (GoTo(t, l) /\ UNCHANGED <<process, loaded, resume>>)
    BY <1>10 DEF Expire
  <2> QED
    BY <1>0, <1>10, <2>1 DEF Expire
<1> QED
  BY <1>0, <1>1, <1>2, <1>3, <1>4, <1>5, <1>6, <1>7, <1>8, <1>9, <1>10 DEF Moves

LEMMA MovesThreads ==
    ASSUME Inv, Moves
    PROVE  /\ pc[Main] = "write" => pc'[Main] = "write" /\ snapshot' = snapshot
           /\ pc'[Main] \in {"admit", "write"} => snapshot' # 0 \/ (pc'[Main] = pc[Main] /\ snapshot' = snapshot)
           /\ pc'[Main] = "admit" => pc[Main] = "admit" \/ current \notin Notification
           /\ \A r \in Req : pc'[Timer(r)] # "none" => pc[Timer(r)] # "none"
           /\ \A r \in Req : pc[Waiter(r)] \in {"wait", "late"} =>
                  \/ pc'[Waiter(r)] \in {"wait", "late"}
                  \/ r \in Initialize \/ slot[r] # "empty" \/ ~Registered(r) \/ cancelled[r]
           /\ process' = process \/ process' = 0
           /\ process' # 0 => loaded' = loaded /\ \A t \in Thread : pc'[t] = "stopping" => pc[t] = "stopping"
           /\ pc'[Main] = "spawn" => pc[Main] = "spawn" \/ process' = 0
           /\ \/ process' = process /\ \A t \in Thread : pc[t] = "stopping" => pc'[t] = "stopping"
              \/ process # 0 /\ \E t \in Thread : pc'[t] = "stopping"
<1>1. PICK t \in Thread, l \in Label \cup {"x"} : Advances(t, l)
  BY MovesAdvance
<1>2. Places(pc) /\ ThreadNames
  BY ThreadsDiffer DEF Inv, ControlOK
<1>3. /\ \A u \in Thread \ {t} : pc'[u] = pc[u]
      /\ \/ pc'[t] = l /\ UNCHANGED <<process, loaded>> /\ l # "spawn"
         \/ process = 0 /\ process' = 0 /\ pc'[t] = l /\ l \notin {"admit", "write"}
         \/ process # 0 /\ process' = 0 /\ pc'[t] = "stopping"
  BY <1>1, <1>2, GoFacts, StopBeginFacts DEF Advances
<1>4. pc[t] \notin {"write", "stopping", "none", "notify"} /\ l # "stopping"
  BY <1>1 DEF Advances
<1>5. ASSUME NEW r \in Req, pc[Waiter(r)] \in {"wait", "late"}
      PROVE  \/ pc'[Waiter(r)] \in {"wait", "late"}
             \/ r \in Initialize \/ slot[r] # "empty" \/ ~Registered(r) \/ cancelled[r]
  <2>1. CASE t # Waiter(r)
    BY <1>2, <1>3, <1>5, <2>1 DEF ThreadNames
  <2>2. CASE t = Waiter(r)
    <3>1. l = "late" \/ r \in Initialize \/ slot[r] # "empty" \/ ~Registered(r) \/ cancelled[r]
      BY <1>1, <1>5, <2>2 DEF Advances
    <3>2. l = "late" => pc'[t] = "late"
      BY <1>1, <1>2, GoFacts DEF Advances
    <3> QED
      BY <2>2, <3>1, <3>2
  <2> QED
    BY <2>1, <2>2
<1>6. \A r \in Req : pc'[Timer(r)] # "none" => pc[Timer(r)] # "none"
  BY <1>2, <1>3, <1>4 DEF ThreadNames
<1>7. /\ pc[Main] = "write" => pc'[Main] = "write" /\ snapshot' = snapshot
      /\ pc'[Main] \in {"admit", "write"} => snapshot' # 0 \/ (pc'[Main] = pc[Main] /\ snapshot' = snapshot)
      /\ pc'[Main] = "admit" => pc[Main] = "admit" \/ current \notin Notification
      /\ pc'[Main] = "spawn" => pc[Main] = "spawn" \/ process' = 0
  <2>1. CASE t = Main
    <3>1. /\ l \in {"admit", "write"} => snapshot' # 0
          /\ l = "admit" => current \notin Notification
      BY <1>1 DEF Advances
    <3> QED
      BY <1>3, <1>4, <2>1, <3>1
  <2>2. CASE t # Main
    <3>1. snapshot' = snapshot /\ pc'[Main] = pc[Main]
      BY <1>1, <1>2, <1>3, <2>2 DEF Advances, ThreadNames
    <3> QED
      BY <3>1
  <2> QED
    BY <2>1, <2>2
<1>8. /\ process' = process \/ process' = 0
      /\ process' # 0 => loaded' = loaded /\ \A u \in Thread : pc'[u] = "stopping" => pc[u] = "stopping"
      /\ \/ process' = process /\ \A u \in Thread : pc[u] = "stopping" => pc'[u] = "stopping"
         \/ process # 0 /\ \E u \in Thread : pc'[u] = "stopping"
  BY <1>3, <1>4
<1> QED
  BY <1>5, <1>6, <1>7, <1>8

LEMMA AdmitFacts ==
    ASSUME Inv, ServiceInv, Admit
    PROVE  /\ current \in Req /\ current \notin Notification /\ current \notin unread
           /\ snapshot # 0 /\ slot[current] = "empty"
           /\ ~cancelled[current] /\ ~Registered(current)
           /\ pc[Waiter(current)] = "none" /\ Unsent(current)
           /\ pc[Main] = "admit" /\ pc'[Main] = "write" /\ MainAt' = "write"
           /\ \A t \in Thread \ {Main} : pc'[t] = pc[t]
           /\ \A r \in Req : pc'[Waiter(r)] = pc[Waiter(r)] /\ pc'[Timer(r)] = pc[Timer(r)]
           /\ \A k \in Key : pending'[k] = IF k = KeyOf[current] THEN current ELSE pending[k]
           /\ \A r \in Req : Registered(r)' <=> Registered(r) \/ r = current
           /\ \A r \in Req : gen'[r] = IF r = current THEN snapshot ELSE gen[r]
           /\ Unfinished' = Unfinished \cup {current} /\ current \notin Unfinished
           /\ Cardinality(Unfinished) < MaxInFlight
           /\ UNCHANGED <<channelVars, source, loaded, reload, process, generation, cancelled, slot,
                          resume, current, snapshot, unread, answers, closing, hand>>
<1>1. pc[Main] = "admit" /\ MainAt = "admit" /\ current \in Req
  BY DEF Admit, MainAt, Inv, ControlOK, LineInv
<1>2. /\ current \notin Notification /\ snapshot # 0 /\ slot[current] = "empty"
      /\ ~cancelled[current] /\ ~Registered(current)
      /\ pc[Waiter(current)] = "none" /\ Unsent(current) /\ current \notin unread
  BY <1>1 DEF ServiceInv, ProcessInv, TableInv, Submitting, PreAdmit, Inv, AnswerInv, Unsent
<1>3. /\ pc'[Main] = "write" /\ MainAt' = "write"
      /\ \A t \in Thread \ {Main} : pc'[t] = pc[t]
      /\ \A r \in Req : pc'[Waiter(r)] = pc[Waiter(r)] /\ pc'[Timer(r)] = pc[Timer(r)]
  BY <1>1, MainGoesOn DEF Admit
<1>4. /\ \A k \in Key : pending'[k] = IF k = KeyOf[current] THEN current ELSE pending[k]
      /\ \A r \in Req : gen'[r] = IF r = current THEN snapshot ELSE gen[r]
  BY PipeTypes DEF Admit
<1>5. KeyOf \in [Req -> Key] /\ None \notin Req
  BY ChannelAssumption
<1>6. \A r \in Req : Registered(r)' <=> Registered(r) \/ r = current
  BY <1>1, <1>4, <1>5 DEF Registered, Admit
<1>7. Unfinished' = Unfinished \cup {current} /\ current \notin Unfinished
  BY <1>1, <1>2, <1>6 DEF Unfinished
<1> QED
  BY <1>1, <1>2, <1>3, <1>4, <1>6, <1>7 DEF Admit

LEMMA WriteFailsFacts ==
    ASSUME Inv, WriteFails
    PROVE  /\ pc[Main] = "write" /\ pc'[Main] = "unwind" /\ MainAt' = "unwind"
           /\ current \in Req /\ Unsent(current)
           /\ \A t \in Thread \ {Main} : pc'[t] = pc[t]
           /\ \A r \in Req : pc'[Waiter(r)] = pc[Waiter(r)] /\ pc'[Timer(r)] = pc[Timer(r)]
           /\ \A k \in Key : pending'[k] = IF pending[k] = current THEN None ELSE pending[k]
           /\ \A r \in Req : Registered(r)' <=> Registered(r) /\ r # current
           /\ UNCHANGED <<channelVars, source, loaded, reload, process, generation, gen, cancelled,
                          slot, resume, current, snapshot, unread, answers, closing, hand>>
<1>1. pc[Main] = "write" /\ MainAt = "write" /\ current \in Req
  BY DEF WriteFails, MainAt, Inv, ControlOK, LineInv
<1>2. /\ pc'[Main] = "unwind" /\ MainAt' = "unwind"
      /\ \A t \in Thread \ {Main} : pc'[t] = pc[t]
      /\ \A r \in Req : pc'[Waiter(r)] = pc[Waiter(r)] /\ pc'[Timer(r)] = pc[Timer(r)]
  BY <1>1, MainGoesOn DEF WriteFails
<1>3. {current} \in SUBSET Req /\ pending' = WithoutPending({current})
  BY <1>1 DEF WriteFails
<1>4. /\ \A k \in Key : pending'[k] = IF pending[k] \in {current} THEN None ELSE pending[k]
      /\ \A r \in Req : Registered(r)' <=> Registered(r) /\ r \notin {current}
  BY <1>3, Unregisters
<1> QED
  BY <1>1, <1>2, <1>4 DEF WriteFails, Unsent, Submitting

\* A worker starts with nothing to do, once the one before is gone.
LEMMA SpawnFacts ==
    ASSUME Inv, ServiceInv, Spawn, Aftermath
    PROVE  /\ process = 0 /\ ~alive /\ code = 0
           /\ pc[Main] = "spawn" /\ pc'[Main] = "snap" /\ MainAt' = "snap"
           /\ \A t \in Thread \ {Main} : pc'[t] = pc[t]
           /\ \A r \in Req : pc'[Waiter(r)] = pc[Waiter(r)] /\ pc'[Timer(r)] = pc[Timer(r)]
           /\ \A t \in Thread : pc'[t] # "stopping"
           /\ generation' = generation + 1 /\ process' = generation + 1 /\ generation' \in Generation
           /\ loaded' = source /\ source # 0 /\ alive' = TRUE
           /\ toWorker' = <<>> /\ fromWorker' = <<>>
           /\ \A r \in Req : ~InStdin(r)' /\ ~InStdout(r)' /\ ~InWork(r)'
           /\ UNCHANGED <<source, reload, tables, hand, resume, snapshot, answers, closing, workerVars, code>>
<1>1. pc[Main] = "spawn" /\ ProcessInv /\ LockInv /\ generation \in 0 .. MaxGen
  BY PipeTypes DEF Spawn, ServiceInv, Inv, ControlOK
<1>2. /\ pc'[Main] = "snap" /\ MainAt' = "snap"
      /\ \A t \in Thread \ {Main} : pc'[t] = pc[t]
      /\ \A r \in Req : pc'[Waiter(r)] = pc[Waiter(r)] /\ pc'[Timer(r)] = pc[Timer(r)]
  BY <1>1, MainGoesOn DEF Spawn
<1>3. \A t \in Thread : pc[t] # "stopping"
  BY <1>1, ThreadsDiffer DEF LockInv, Holding, ThreadNames
<1>4. \A t \in Thread : pc'[t] # "stopping"
  BY <1>2, <1>3
<1>5. process = 0 /\ ~alive /\ code = 0 /\ \A r \in Req : ~InWork(r)
  BY <1>1, <1>3 DEF ProcessInv
<1>6. UNCHANGED <<workerVars, code>>
  BY <1>5 DEF Aftermath
<1>7. /\ generation' = generation + 1 /\ process' = generation + 1 /\ generation' \in Generation
      /\ loaded' = source /\ source # 0 /\ alive' = TRUE
      /\ toWorker' = <<>> /\ fromWorker' = <<>>
      /\ UNCHANGED <<source, reload, tables, hand, resume, snapshot, answers, closing>>
  BY <1>1, SupervisorAssumption DEF Spawn, FirstLines, tables, Generation, Inv, DataOK, SupDataOK
<1>8. \A r \in Req : ~InStdin(r)' /\ ~InStdout(r)' /\ ~InWork(r)'
  BY <1>5, <1>6, <1>7, EmptyHolds DEF InStdin, InStdout, InWork, workerVars
<1> QED
  BY <1>1, <1>2, <1>4, <1>5, <1>6, <1>7, <1>8

\* The end of _stop_locked(): what the generation had in the table is settled.
LEMMA StopEndFacts ==
    ASSUME Inv, TableInv, NEW t \in Thread, StopEnd(t)
    PROVE  \E S \in SUBSET Req :
               /\ \A q \in S : Registered(q) /\ gen[q] = generation
               /\ \A q \in Req : Registered(q) /\ gen[q] = generation => q \in S
               /\ pending' = WithoutPending(S)
               /\ \A q \in Req : slot'[q] = IF q \in S /\ slot[q] = "empty" THEN "error" ELSE slot[q]
               /\ ~alive' /\ toWorker' = <<>> /\ fromWorker' = <<>>
               /\ UNCHANGED <<source, loaded, reload, process, generation, gen, cancelled,
                              current, snapshot, unread, answers, closing, hand>>
<1> DEFINE S == UnfinishedOf(generation)
<1>1. /\ S \in SUBSET Req
      /\ \A q \in S : Registered(q) /\ gen[q] = generation
      /\ \A q \in Req : Registered(q) /\ gen[q] = generation => q \in S
  BY DEF UnfinishedOf, Unfinished
<1>2. \A q \in Req : slot'[q] = IF q \in S /\ slot[q] = "empty" THEN "error" ELSE slot[q]
  BY DEF StopEnd, FailGeneration, Signalled
<1>3. pending' = WithoutPending(S)
  BY DEF StopEnd, FailGeneration
<1> QED
  BY <1>1, <1>2, <1>3 DEF StopEnd

LEMMA NotifyFacts ==
    ASSUME Inv, TableInv, NEW t, NEW r, NEW next, Notifies(t, r, next), Notify(t, r, next)
    PROVE  /\ r \in Req
           /\ cancelled[r]
           /\ \A q \in Req : slot'[q] = IF q = r /\ slot[q] = "empty" THEN "cancelled" ELSE slot[q]
           /\ UNCHANGED <<source, loaded, reload, process, generation, pending, gen,
                          cancelled, resume, current, snapshot, unread, answers,
                          closing, hand, fromWorker, alive>>
<1>1. r \in Req /\ cancelled[r]
  BY NotifyOnward DEF Notifies, TableInv
<1>2. \A q \in Req : slot'[q] = IF q = r /\ slot[q] = "empty" THEN "cancelled" ELSE slot[q]
  BY DEF Notify, Signalled
<1> QED
  BY <1>1, <1>2 DEF Notify

\* A step that at most takes requests off the table.
Settles(S) ==
    /\ \A q \in S : Registered(q)
    /\ \A k \in Key : pending'[k] = IF pending[k] \in S THEN None ELSE pending[k]
    /\ \A q \in Req : Registered(q)' <=> Registered(q) /\ q \notin S
    /\ \A q \in Req : slot'[q] # slot[q] => q \in S \/ cancelled[q]
    /\ UNCHANGED <<cancelled, unread, current>>
    /\ Onward
    /\ \A q \in Req : pc'[Timer(q)] # "none" => pc[Timer(q)] # "none"
    /\ \A q \in Req : Registered(q) /\ q \notin S /\ ~cancelled[q] /\ Attended(q) => Attended(q)'

LEMMA SettlesTable ==
    ASSUME Inv, ServiceInv, NEW S \in SUBSET Req, Settles(S)
    PROVE  TableInv'
<1>0. TableInv /\ MainAt \in Submitting => current \in Req
  BY DEF ServiceInv, Inv, ControlOK, LineInv, Submitting
<1> USE DEF Settles
<1>1. \A k \in Key : pending'[k] # None => KeyOf[pending'[k]] = k
  BY DEF ServiceInv, TableInv
<1>2. \A r \in Notification : ~Registered(r)' /\ ~cancelled'[r] /\ pc'[Waiter(r)] = "none"
  <2>1. \A r \in Notification : r \in Req
    BY ChannelAssumption
  <2> QED
    BY <2>1 DEF ServiceInv, TableInv, Onward
<1>3. \A r \in unread' : ~Registered(r)' /\ ~cancelled'[r] /\ slot'[r] = "empty"
  <2>1. \A r \in unread : r \in Req
    BY DEF Inv, DataOK, SupDataOK
  <2> QED
    BY <2>1 DEF ServiceInv, TableInv
<1>4. MainAt' \in Submitting => ~cancelled'[current']
  BY DEF ServiceInv, TableInv, Onward
<1>5. MainAt' \in Submitting \ {"write"} => ~Registered(current)'
  <2> SUFFICES ASSUME MainAt' \in Submitting \ {"write"}
               PROVE  ~Registered(current)'
    OBVIOUS
  <2>1. MainAt \in Submitting \ {"write"} /\ current \in Req
    BY DEF Onward, Inv, ControlOK, LineInv, Submitting
  <2>2. ~Registered(current) /\ current' = current
    BY <2>1 DEF ServiceInv, TableInv
  <2>3. \A q \in Req : Registered(q)' => Registered(q)
    OBVIOUS
  <2> QED
    BY <2>1, <2>2, <2>3 DEF Registered
<1>6. MainAt' \in PreAdmit => slot'[current'] = "empty"
  <2> SUFFICES ASSUME MainAt' \in PreAdmit
               PROVE  slot'[current] = "empty"
    OBVIOUS
  <2>1. MainAt \in PreAdmit /\ MainAt \in Submitting \ {"write"} /\ current \in Req
    BY DEF Onward, Inv, ControlOK, LineInv, Submitting, PreAdmit
  <2> QED
    BY <2>1 DEF ServiceInv, TableInv
<1>7. pc'[Main] = "notify" => cancelled'[current']
  BY DEF ServiceInv, TableInv, Onward
<1>8. \A r \in Req : pc'[Waiter(r)] = "notify" \/ pc'[Timer(r)] # "none" => cancelled'[r]
  BY DEF ServiceInv, TableInv, Onward
<1>9. \A r \in Req : Registered(r)' /\ ~cancelled'[r] => Attended(r)'
  BY DEF ServiceInv, TableInv, Attended
<1> QED
  BY <1>1, <1>2, <1>3, <1>4, <1>5, <1>6, <1>7, <1>8, <1>9 DEF TableInv, Attended, Registered

LEMMA MovesSettle ==
    ASSUME Inv, ServiceInv, Moves
    PROVE  Settles({})
<1>1. Onward /\ UNCHANGED <<pending, cancelled, slot, unread, current>>
  BY MovesOnward, MovesFrame DEF tables
<1>2. ASSUME NEW q \in Req, Registered(q), ~cancelled[q], Attended(q)
      PROVE  Attended(q)'
  <2>1. slot[q] = "empty"
    BY <1>2 DEF ServiceInv, SlotInv
  <2> QED
    BY <1>1, <1>2, <2>1, MovesThreads DEF Attended
<1>3. \A q \in Req : pc'[Timer(q)] # "none" => pc[Timer(q)] # "none"
  BY MovesThreads
<1> QED
  BY <1>1, <1>2, <1>3 DEF Settles, Registered

LEMMA StopEndSettle ==
    ASSUME Inv, ServiceInv, NEW t \in Thread, StopEnd(t)
    PROVE  \E S \in SUBSET Req : Settles(S)
<1>0. TableInv
  BY DEF ServiceInv
<1>1. PICK S \in SUBSET Req :
          /\ \A q \in S : Registered(q) /\ gen[q] = generation
          /\ pending' = WithoutPending(S)
          /\ \A q \in Req : slot'[q] = IF q \in S /\ slot[q] = "empty" THEN "error" ELSE slot[q]
          /\ UNCHANGED <<cancelled, unread, current>>
  BY <1>0, StopEndFacts
<1>2. /\ \A k \in Key : pending'[k] = IF pending[k] \in S THEN None ELSE pending[k]
      /\ \A q \in Req : Registered(q)' <=> Registered(q) /\ q \notin S
  BY <1>1, Unregisters
<1>3. Onward /\ pc[t] = "stopping" /\ \A u \in Thread : u # t => pc'[u] \in {pc[u], "done"}
  BY StopEndOnward DEF StopEnd
<1>4. ASSUME NEW q \in Req
      PROVE  /\ pc'[Timer(q)] # "none" => pc[Timer(q)] # "none"
             /\ Registered(q) /\ q \notin S /\ ~cancelled[q] /\ Attended(q) => Attended(q)'
  <2>1. Timer(q) \in Thread /\ Waiter(q) \in Thread /\ Main \in Thread
    BY ThreadsDiffer DEF ThreadNames
  <2>2. PICK R \in SUBSET Req : pc' = WithoutTimers(R, [pc EXCEPT ![t] = resume])
    BY DEF StopEnd, FailGeneration, UnfinishedOf, Unfinished
  <2>3. \A u \in Thread \ {t} : (\A p \in Req : u # Timer(p)) => pc'[u] = pc[u]
    BY <2>2 DEF WithoutTimers, Inv, ControlOK, Places
  <2>4. /\ Main # t => pc'[Main] = pc[Main]
        /\ Waiter(q) # t => pc'[Waiter(q)] = pc[Waiter(q)]
    BY <2>1, <2>3, ThreadsDiffer DEF ThreadNames
  <2>5. pc'[Timer(q)] # "none" => pc[Timer(q)] # "none"
    <3>1. CASE t = Timer(q)
      BY <1>3, <3>1
    <3>2. CASE t # Timer(q)
      BY <2>1, <2>2, <3>2 DEF WithoutTimers, Inv, ControlOK, Places
    <3> QED
      BY <3>1, <3>2
  <2> QED
    BY <1>1, <1>3, <2>4, <2>5 DEF Attended
<1> QED
  BY <1>1, <1>2, <1>3, <1>4 DEF Settles

LEMMA NotifySettle ==
    ASSUME Inv, ServiceInv, NEW t, NEW r, NEW next, Notifies(t, r, next), Notify(t, r, next)
    PROVE  Settles({})
<1>0. TableInv
  BY DEF ServiceInv
<1>1. /\ r \in Req /\ cancelled[r]
      /\ \A q \in Req : slot'[q] = IF q = r /\ slot[q] = "empty" THEN "cancelled" ELSE slot[q]
      /\ UNCHANGED <<pending, cancelled, unread, current>>
  BY <1>0, NotifyFacts
<1>2. Onward /\ t \in Thread /\ pc[t] = "notify" /\ \A u \in Thread : u # t /\ u # Timer(r) => pc'[u] = pc[u]
  BY NotifyOnward
<1>3. ASSUME NEW q \in Req
      PROVE  /\ pc'[Timer(q)] # "none" => pc[Timer(q)] # "none"
             /\ Attended(q) => Attended(q)'
  <2>1. Timer(q) \in Thread /\ Waiter(q) \in Thread /\ Main \in Thread /\ Timer(r) \in Thread
        /\ Main # Timer(r) /\ Waiter(q) # Timer(r)
    BY <1>1, ThreadsDiffer DEF ThreadNames
  <2>2. /\ pc[Main] = "write" => pc'[Main] = "write"
        /\ pc[Waiter(q)] \in {"wait", "late"} => pc'[Waiter(q)] = pc[Waiter(q)]
    BY <1>2, <2>1
  <2>3. pc'[Timer(q)] # "none" => pc[Timer(q)] # "none"
    <3> DEFINE armed == [pc EXCEPT ![Timer(r)] = IF @ = "created" THEN "armed" ELSE @]
    <3>1. PICK l : pc' = [armed EXCEPT ![t] = l]
      BY DEF Notify
    <3>2. t # Timer(q)
      BY <1>1, ThreadsDiffer DEF Notifies, ThreadNames
    <3> QED
      BY <2>1, <3>1, <3>2 DEF Inv, ControlOK, Places
  <2> QED
    BY <1>1, <2>2, <2>3 DEF Attended
<1> QED
  BY <1>1, <1>2, <1>3 DEF Settles, Registered

LEMMA DeliverSettle ==
    ASSUME Inv, ServiceInv, NEW g, NEW S \in SUBSET Req, Delivers(g, S)
    PROVE  Settles(S)
<1>1. /\ \A q \in S : Registered(q)
      /\ pending' = WithoutPending(S) /\ pc' = WithoutTimers(S, pc) /\ resume' = resume
      /\ \A q \in Req \ S : slot'[q] = slot[q]
      /\ UNCHANGED <<cancelled, unread, current>>
  BY DEF Delivers
<1>2. /\ \A k \in Key : pending'[k] = IF pending[k] \in S THEN None ELSE pending[k]
      /\ \A q \in Req : Registered(q)' <=> Registered(q) /\ q \notin S
  BY <1>1, Unregisters
<1>3. /\ Onward /\ pc'[Main] = pc[Main]
      /\ \A r \in Req : pc'[Waiter(r)] = pc[Waiter(r)]
  BY <1>1, SettleOnward
<1>4. \A q \in Req : pc'[Timer(q)] # "none" => pc[Timer(q)] # "none"
  BY <1>1, ThreadsDiffer DEF WithoutTimers, ThreadNames
<1> QED
  BY <1>1, <1>2, <1>3, <1>4 DEF Settles, Attended

LEMMA OthersSettle ==
    ASSUME UNCHANGED <<pending, cancelled, slot, pc, resume, current, unread>>
    PROVE  Settles({})
BY DEF Settles, Onward, Attended, Registered, MainAt

LEMMA SpawnSettle ==
    ASSUME Inv, ServiceInv, Spawn, Aftermath
    PROVE  Settles({})
<1>1. /\ pc[Main] = "spawn" /\ pc'[Main] = "snap" /\ MainAt' = "snap"
      /\ \A r \in Req : pc'[Waiter(r)] = pc[Waiter(r)] /\ pc'[Timer(r)] = pc[Timer(r)]
      /\ UNCHANGED tables
  BY SpawnFacts
<1>2. MainAt = "spawn"
  BY <1>1 DEF MainAt
<1> QED
  BY <1>1, <1>2 DEF Settles, Onward, Attended, Registered, tables, Submitting, PreAdmit

\* The steps, by what they do to the table.
LEMMA TableCases ==
    ASSUME Inv, ServiceInv, [Next]_vars
    PROVE  \/ \E S \in SUBSET Req : Settles(S)
           \/ \E t, r : Marks(t, r)
           \/ Admit \/ Write \/ WriteFails
           \/ \E r \in Req : ReadLine(r)
<1>0. TableInv
  BY DEF ServiceInv
<1>1. CASE SupervisorRuns
  <2>1. ASSUME NEW g \in Generation, ReaderStep(g)
        PROVE  \E S \in SUBSET Req : Settles(S)
    <3>1. CASE TakeLine(g)
      BY <3>1, OthersSettle DEF TakeLine
    <3>2. CASE ~TakeLine(g)
      BY <1>0, <2>1, <3>2, ReaderFacts, DeliverSettle
    <3> QED
      BY <3>1, <3>2
  <2> QED
    BY <1>1, <2>1, SupervisorCases, MovesSettle, StopEndSettle, NotifySettle, SpawnSettle
<1>2. CASE ~SupervisorRuns
  <2>1. UNCHANGED <<pending, cancelled, slot, pc, resume, current, unread>>
    BY <1>2 DEF Next, WorkerRuns, Surroundings, ReplaceSource, Boot, Crash, Babble, Exited, vars, supVars
  <2> QED
    BY <2>1, OthersSettle
<1> QED
  BY <1>1, <1>2

LEMMA TableStep ==
    ASSUME Inv, ServiceInv, [Next]_vars
    PROVE  TableInv'
<1>0. TableInv /\ Places(pc) /\ KeyOf \in [Req -> Key] /\ None \notin Req /\ Notification \subseteq Req
      /\ unread \subseteq Req
  BY ChannelAssumption DEF ServiceInv, Inv, ControlOK, DataOK, SupDataOK
<1> USE DEF Attended
<1>1. ASSUME NEW t, NEW r, Marks(t, r)
      PROVE  TableInv'
  <2>1. /\ t \in Thread /\ r \in Req
        /\ Registered(r) /\ ~cancelled[r]
        /\ \A q \in Req : cancelled'[q] <=> q = r \/ cancelled[q]
        /\ \/ t = Main /\ pc[Main] = "read" /\ current' = r
           \/ t = Waiter(r) /\ pc[t] = "late" /\ current' = current
        /\ pc'[t] = "notify" /\ resume' = resume
        /\ \A u \in Thread : u # t /\ u # Timer(r) => pc'[u] = pc[u]
        /\ UNCHANGED <<pending, slot, unread>>
    <3>1. cancelled \in [Req -> BOOLEAN] /\ cancelled' = [cancelled EXCEPT ![r] = TRUE]
      BY <1>0, <1>1, MarkFacts, PipeTypes
    <3>2. \A q \in Req : cancelled'[q] <=> q = r \/ cancelled[q]
      BY <3>1
    <3> QED
      BY <1>0, <1>1, <3>2, MarkFacts
  <2>2. r \notin Notification /\ r \notin unread
    BY <1>0, <2>1 DEF TableInv
  <2>3. \A q \in Req : Registered(q)' <=> Registered(q)
    BY <2>1 DEF Registered
  <2>4. /\ \A q \in Req : q # r => pc'[Timer(q)] = pc[Timer(q)]
        /\ \A q \in Req : q # r => pc'[Waiter(q)] = pc[Waiter(q)]
        /\ t = Main => pc'[Waiter(r)] = pc[Waiter(r)] /\ MainAt' = "notify"
        /\ t # Main => pc'[Main] = pc[Main] /\ MainAt' = MainAt
    BY <2>1, ThreadsDiffer DEF ThreadNames, MainAt
  <2>5. \A k \in Key : pending'[k] # None => KeyOf[pending'[k]] = k
    BY <1>0, <2>1 DEF TableInv
  <2>6. \A q \in Notification : ~Registered(q)' /\ ~cancelled'[q] /\ pc'[Waiter(q)] = "none"
    <3>1. ASSUME NEW q \in Notification
          PROVE  ~Registered(q)' /\ ~cancelled'[q] /\ pc'[Waiter(q)] = "none"
      <4>1. q \in Req /\ q # r /\ ~Registered(q) /\ ~cancelled[q] /\ pc[Waiter(q)] = "none"
        BY <1>0, <2>2 DEF TableInv
      <4> QED
        BY <2>1, <2>3, <2>4, <4>1
    <3> QED
      BY <3>1
  <2>7. \A q \in unread' : ~Registered(q)' /\ ~cancelled'[q] /\ slot'[q] = "empty"
    <3>1. ASSUME NEW q \in unread
          PROVE  ~Registered(q)' /\ ~cancelled'[q] /\ slot'[q] = "empty"
      <4>1. q \in Req /\ q # r /\ ~Registered(q) /\ ~cancelled[q] /\ slot[q] = "empty"
        BY <1>0, <2>2 DEF TableInv
      <4> QED
        BY <2>1, <2>3, <4>1
    <3> QED
      BY <2>1, <3>1
  <2>8. /\ MainAt' \in Submitting => ~cancelled'[current']
        /\ MainAt' \in Submitting \ {"write"} => ~Registered(current)'
        /\ MainAt' \in PreAdmit => slot'[current'] = "empty"
    <3>1. CASE t = Main
      BY <2>4, <3>1 DEF Submitting, PreAdmit
    <3>2. CASE t # Main
      <4>1. current' = current /\ MainAt' = MainAt /\ t = Waiter(r) /\ pc[t] = "late"
        BY <2>1, <2>4, <3>2
      <4>2. MainAt \in Submitting => current # r /\ current \in Req
        BY <4>1 DEF Inv, AnswerInv, ControlOK, LineInv, Submitting
      <4>3. MainAt \in PreAdmit => MainAt \in Submitting
        BY DEF PreAdmit, Submitting
      <4>4. MainAt \in Submitting => ~cancelled'[current]
        BY <1>0, <2>1, <4>2 DEF TableInv
      <4>5. MainAt \in Submitting \ {"write"} => ~(pending'[KeyOf[current]] = current)
        BY <1>0, <2>1, <4>2 DEF TableInv, Registered
      <4>6. MainAt \in PreAdmit => slot'[current] = "empty"
        BY <1>0, <2>1 DEF TableInv
      <4> QED
        BY <4>1, <4>4, <4>5, <4>6 DEF Registered
    <3> QED
      BY <3>1, <3>2
  <2>9. pc'[Main] = "notify" => cancelled'[current']
    <3>1. CASE t = Main
      BY <2>1, <3>1, ThreadsDiffer DEF ThreadNames
    <3>2. CASE t # Main
      <4>1. pc[Main] = "notify" => current \in Req /\ cancelled[current]
        BY <1>0 DEF Inv, ControlOK, LineInv, MainAt, TableInv
      <4> QED
        BY <2>1, <2>4, <3>2, <4>1
    <3> QED
      BY <3>1, <3>2
  <2>10. \A q \in Req : pc'[Waiter(q)] = "notify" \/ pc'[Timer(q)] # "none" => cancelled'[q]
    BY <1>0, <2>1, <2>4 DEF TableInv
  <2>11. \A q \in Req : Registered(q)' /\ ~cancelled'[q] => Attended(q)'
    <3> SUFFICES ASSUME NEW q \in Req, Registered(q)', ~cancelled'[q]
                 PROVE  Attended(q)'
      OBVIOUS
    <3>1. q # r /\ Attended(q)
      BY <1>0, <2>1, <2>3 DEF TableInv
    <3>2. t = Main => pc[Main] = "read"
      BY <2>1, ThreadsDiffer DEF ThreadNames
    <3> QED
      BY <2>1, <2>4, <3>1, <3>2
  <2> QED
    BY <2>5, <2>6, <2>7, <2>8, <2>9, <2>10, <2>11 DEF TableInv, Registered
<1>2. CASE Admit
  BY <1>0, <1>2, AdmitFacts DEF TableInv, Registered, Submitting, PreAdmit
<1>3. CASE Write
  <2>1. /\ current \in Req /\ pc[Main] = "write"
        /\ pc'[Main] = "read" /\ MainAt' = "read"
        /\ \A r \in Req : pc'[Timer(r)] = pc[Timer(r)]
        /\ \A r \in Req : pc'[Waiter(r)] = IF r = current /\ r \notin Notification THEN "wait" ELSE pc[Waiter(r)]
        /\ UNCHANGED tables
    BY <1>3, WriteFacts
  <2>2. \A r \in Req : Registered(r)' <=> Registered(r)
    BY <2>1 DEF Registered, tables
  <2> QED
    BY <1>0, <2>1, <2>2 DEF TableInv, Registered, Submitting, PreAdmit, tables
<1>4. CASE WriteFails
  <2>1. MainAt = "write"
    BY <1>4, WriteFailsFacts DEF MainAt
  <2> QED
    BY <1>0, <1>4, <2>1, WriteFailsFacts DEF TableInv, Registered, Submitting, PreAdmit
<1>5. ASSUME NEW r \in Req, ReadLine(r)
      PROVE  TableInv'
  <2>1. UNCHANGED <<pending, cancelled, slot>>
    BY <1>5 DEF ReadLine
  <2>2. \A q \in Req : Registered(q)' <=> Registered(q)
    BY <2>1 DEF Registered
  <2> QED
    BY <1>0, <1>5, <2>1, <2>2, ReadLineFacts DEF TableInv, Registered, Submitting, PreAdmit
<1> QED
  BY <1>1, <1>2, <1>3, <1>4, <1>5, TableCases, SettlesTable

\* No more than the worker admits.
LEMMA RoomStep ==
    ASSUME Inv, ServiceInv, [Next]_vars
    PROVE  RoomInv'
<1>0. IsFiniteSet(Unfinished) /\ Cardinality(Unfinished) <= MaxInFlight /\ TableInv
      /\ Cardinality(Unfinished) \in Nat /\ MaxInFlight \in Nat
  BY FS_CardinalityType, ChannelAssumption DEF ServiceInv, RoomInv
<1>1. ASSUME Unfinished' \subseteq Unfinished
      PROVE  RoomInv'
  <2>1. IsFiniteSet(Unfinished') /\ Cardinality(Unfinished') <= Cardinality(Unfinished)
    BY <1>0, <1>1, FS_Subset
  <2>2. Cardinality(Unfinished') \in Nat
    BY <2>1, FS_CardinalityType
  <2> QED
    BY <1>0, <2>1, <2>2 DEF RoomInv
<1>2. CASE Admit
  <2>1. Unfinished' = Unfinished \cup {current} /\ current \notin Unfinished
        /\ Cardinality(Unfinished) < MaxInFlight
    BY <1>2, AdmitFacts
  <2>2. IsFiniteSet(Unfinished') /\ Cardinality(Unfinished') = Cardinality(Unfinished) + 1
    BY <1>0, <2>1, FS_AddElement
  <2> QED
    BY <1>0, <2>1, <2>2 DEF RoomInv
<1>3. ASSUME \A r \in Req : Registered(r)' => Registered(r)
      PROVE  Unfinished' \subseteq Unfinished
  BY <1>3 DEF Unfinished
<1>4. ASSUME UNCHANGED pending
      PROVE  \A r \in Req : Registered(r)' => Registered(r)
  BY <1>4 DEF Registered
<1>5. ASSUME NEW t, NEW r, Marks(t, r)
      PROVE  UNCHANGED pending
  BY <1>0, <1>5, MarkFacts
<1>6. CASE Write
  BY <1>1, <1>3, <1>4, <1>6, WriteFacts DEF tables
<1>7. CASE WriteFails
  BY <1>1, <1>3, <1>7, WriteFailsFacts
<1>8. ASSUME NEW r \in Req, ReadLine(r)
      PROVE  UNCHANGED pending
  BY <1>8 DEF ReadLine
<1>9. ASSUME NEW S \in SUBSET Req, Settles(S)
      PROVE  RoomInv'
  BY <1>1, <1>3, <1>9 DEF Settles
<1> QED
  BY <1>1, <1>2, <1>3, <1>4, <1>5, <1>6, <1>7, <1>8, <1>9, TableCases

-----------------------------------------------------------------------------
(* The rest of the invariant.                                              *)

\* A process begins with Spawn only.
LEMMA LifeCases ==
    ASSUME Inv, ServiceInv, [Next]_vars
    PROVE  \/ Spawn /\ Aftermath
           \/ generation' = generation /\ (alive' => alive)
<1>0. TableInv
  BY DEF ServiceInv
<1>1. CASE SupervisorRuns
  <2>1. CASE Moves
    BY <2>1, MovesFrame DEF channelVars
  <2>2. ASSUME NEW t \in Thread, StopEnd(t)
        PROVE  generation' = generation /\ (alive' => alive)
    BY <2>2 DEF StopEnd
  <2>3. ASSUME NEW t, NEW r, NEW next, Notify(t, r, next)
        PROVE  generation' = generation /\ (alive' => alive)
    BY <2>3 DEF Notify
  <2>4. ASSUME NEW t, NEW r, Marks(t, r)
        PROVE  generation' = generation /\ (alive' => alive)
    BY <1>0, <2>4, MarkFacts DEF channelVars
  <2>5. CASE Admit \/ Write \/ WriteFails
    BY <2>5 DEF Admit, Write, WriteFails, channelVars
  <2>6. ASSUME NEW r \in Req, ReadLine(r)
        PROVE  generation' = generation /\ (alive' => alive)
    BY <2>6 DEF ReadLine, channelVars
  <2>7. ASSUME NEW g \in Generation, ReaderStep(g)
        PROVE  generation' = generation /\ (alive' => alive)
    <3>1. CASE TakeLine(g)
      BY <3>1 DEF TakeLine
    <3>2. CASE ~TakeLine(g)
      BY <1>0, <2>7, <3>2, ReaderFacts DEF Delivers
    <3> QED
      BY <3>1, <3>2
  <2> QED
    BY <1>1, <2>1, <2>2, <2>3, <2>4, <2>5, <2>6, <2>7, SupervisorCases
<1>2. CASE WorkerRuns
  BY <1>2, WorkerCases DEF supVars
<1>3. CASE Boot \/ Crash \/ Babble
  BY <1>3, SurroundingFacts DEF supVars
<1>4. CASE ReplaceSource \/ UNCHANGED vars
  BY <1>4 DEF ReplaceSource, vars, supVars, channelVars
<1> QED
  BY <1>1, <1>2, <1>3, <1>4 DEF Next, Surroundings, Exited

LEMMA NoteStep ==
    ASSUME Inv, ServiceInv, [Next]_vars
    PROVE  NoteInv'
<1> SUFFICES ASSUME NEW r \in Notification
             PROVE  ~InWork(r)' /\ ~Returning(r)'
  BY DEF NoteInv
<1>1. r \in Req /\ ~InWork(r) /\ ~Returning(r)
  BY ChannelAssumption DEF ServiceInv, NoteInv
<1> QED
  BY <1>1, FlowStep DEF Returning

LEMMA QueueStep ==
    ASSUME Inv, ServiceInv, [Next]_vars
    PROVE  QueueInv'
<1>0. queue \in Seq(Req) /\ work \in [Req -> WorkState] /\ toWorker \in Seq(LinesToWorker)
      /\ QueueInv /\ alive \in BOOLEAN
  BY PipeTypes DEF ServiceInv
<1>1. CASE UNCHANGED <<queue, work>>
  BY <1>0, <1>1 DEF QueueInv
<1>2. CASE queue' = <<>>
  BY <1>2, EmptyHolds DEF QueueInv
<1>3. CASE SupervisorRuns
  BY <1>0, <1>1, <1>2, <1>3, SupervisorCases, WorkStaysOrIsLost DEF workerVars
<1>4. CASE WorkerRuns
  <2>1. PICK q \in Req : WorksOn(q) \/ Ignore(q) \/ Cancel(q) \/ SendResult(q) \/ SendFinished(q)
    BY <1>4, WorkerCases
  <2>2. CASE Dispatch(q)
    <3>1. queue' = Append(queue, q) /\ work' = [work EXCEPT ![q] = "queued"]
      BY <2>2 DEF Dispatch
    <3>2. ~Holds(queue, {q})
      <4>1. InStdin(q)
        <5>1. toWorker # <<>> /\ Head(toWorker) \in {RequestLine(q)}
          BY <2>2 DEF Dispatch, NextLineIs
        <5> QED
          BY <1>0, <5>1, TailHolds DEF InStdin
      <4>2. work[q] = "idle"
        BY <4>1 DEF ServiceInv, OnceInv, InWork
      <4> QED
        BY <1>0, <4>2 DEF QueueInv
    <3>3. ASSUME NEW r \in Req
          PROVE  /\ Holds(queue', {r}) => work'[r] = "queued"
                 /\ Single(queue', {r})
      <4>1. /\ Holds(queue', {r}) <=> Holds(queue, {r}) \/ q \in {r}
            /\ Single(queue, {r}) /\ (q \in {r} => ~Holds(queue, {r})) => Single(queue', {r})
        BY <1>0, <3>1, AppendHolds
      <4> QED
        BY <1>0, <3>1, <3>2, <4>1 DEF QueueInv
    <3> QED
      BY <3>3 DEF QueueInv
  <2>3. CASE Take(q)
    <3>1. queue # <<>> /\ Head(queue) = q /\ queue' = Tail(queue)
          /\ \A r \in Req \ {q} : work'[r] = work[r]
      BY <1>0, <2>3 DEF Take, MoveOn
    <3>2. ASSUME NEW r \in Req
          PROVE  /\ Holds(queue', {r}) => work'[r] = "queued"
                 /\ Single(queue', {r})
      <4>1. /\ Holds(queue, {r}) <=> Head(queue) \in {r} \/ Holds(queue', {r})
            /\ Single(queue, {r}) => Single(queue', {r})
            /\ Single(queue, {r}) /\ Head(queue) \in {r} => ~Holds(queue', {r})
        BY <1>0, <3>1, TailHolds
      <4> QED
        BY <1>0, <3>1, <4>1 DEF QueueInv
    <3> QED
      BY <3>2 DEF QueueInv
  <2>4. CASE Lock(q) \/ Return(q) \/ Pop(q) \/ SendResult(q) \/ SendFinished(q)
    <3>1. /\ queue' = queue /\ work[q] # "queued" /\ \A r \in Req \ {q} : work'[r] = work[r]
      BY <1>0, <2>4 DEF Lock, Return, Pop, SendResult, SendFinished, MoveOn
    <3> QED
      BY <1>0, <3>1 DEF QueueInv
  <2>5. CASE Ignore(q) \/ Cancel(q)
    BY <1>1, <2>5 DEF Ignore, Cancel
  <2> QED
    BY <2>1, <2>2, <2>3, <2>4, <2>5 DEF WorksOn
<1>5. CASE Boot \/ Crash \/ Babble
  BY <1>1, <1>2, <1>5, SurroundingFacts DEF workerVars
<1>6. CASE ReplaceSource /\ UNCHANGED <<workerVars, code, faults>>
  BY <1>1, <1>6 DEF workerVars
<1>7. CASE UNCHANGED vars
  BY <1>1, <1>7 DEF vars, workerVars
<1> QED
  BY <1>3, <1>4, <1>5, <1>6, <1>7 DEF Next, Surroundings, Exited

\* What of ProcessInv is about the process and the threads.
HeldInv ==
    /\ process \in {0, generation}
    /\ process # 0 => loaded # 0
    /\ pc[Main] = "spawn" => process = 0
    /\ (\E t \in Thread : pc[t] = "stopping") => process = 0
    /\ alive /\ process = 0 => \E t \in Thread : pc[t] = "stopping"
    /\ pc[Main] \in {"admit", "write"} => snapshot # 0
    /\ pc[Main] = "admit" => current \notin Notification

LEMMA HeldStep ==
    ASSUME Inv, ServiceInv, [Next]_vars
    PROVE  HeldInv'
<1>0. HeldInv /\ TableInv
  BY DEF ServiceInv, ProcessInv, HeldInv
<1>a. ThreadNames
  BY ThreadsDiffer
<1>1. CASE UNCHANGED <<process, generation, loaded, pc, current, snapshot>> /\ (alive' => alive)
  BY <1>0, <1>1 DEF HeldInv
<1>2. CASE Moves
  BY <1>0, <1>2, MovesThreads, MovesFrame DEF HeldInv, tables, channelVars
<1>3. ASSUME NEW t \in Thread, StopEnd(t)
      PROVE  HeldInv'
  <2>1. /\ \A u \in Thread : pc'[u] # "stopping" /\ (u # t => pc'[u] \in {pc[u], "done"})
        /\ ~alive' /\ pc[t] = "stopping" /\ Onward
        /\ UNCHANGED <<process, generation, loaded, current, snapshot>>
    BY <1>3, StopEndOnward DEF StopEnd
  <2>2. process = 0
    BY <1>0, <2>1 DEF HeldInv
  <2>3. pc'[Main] \in {"admit", "write"} => pc'[Main] = pc[Main]
    <3>1. CASE t = Main
      <4>1. resume \notin {"admit", "write"}
        BY <2>1, <3>1 DEF Inv, ControlOK, LockInv
      <4>2. PICK R \in SUBSET Req : pc' = WithoutTimers(R, [pc EXCEPT ![t] = resume])
        BY <1>3 DEF StopEnd, FailGeneration, UnfinishedOf, Unfinished
      <4>3. pc'[Main] = resume
        BY <1>a, <3>1, <4>2 DEF WithoutTimers, ThreadNames, Inv, ControlOK, Places
      <4> QED
        BY <4>1, <4>3
    <3>2. CASE t # Main
      BY <1>a, <2>1, <3>2 DEF ThreadNames
    <3> QED
      BY <3>1, <3>2
  <2> QED
    BY <1>0, <2>1, <2>2, <2>3 DEF HeldInv
<1>4. ASSUME NEW t, NEW r, NEW next, Notifies(t, r, next), Notify(t, r, next)
      PROVE  HeldInv'
  <2>1. /\ t \in Thread /\ r \in Req /\ pc'[t] \in {next, "expire"} /\ next \in {"read", "giveup"}
        /\ \A u \in Thread : u # t /\ u # Timer(r) => pc'[u] = pc[u]
        /\ \A u \in Thread : pc'[u] = "stopping" <=> pc[u] = "stopping"
        /\ UNCHANGED <<process, generation, loaded, current, snapshot, alive>>
    BY <1>0, <1>4, NotifyOnward, NotifyFacts DEF Notifies
  <2>2. pc'[Main] \in {"spawn", "admit", "write"} => pc'[Main] = pc[Main]
    BY <1>a, <2>1 DEF ThreadNames
  <2> QED
    BY <1>0, <2>1, <2>2 DEF HeldInv
<1>5. ASSUME NEW t, NEW r, Marks(t, r)
      PROVE  HeldInv'
  <2>1. /\ t \in Thread /\ r \in Req /\ pc'[t] = "notify"
        /\ t = Main \/ current' = current
        /\ \A u \in Thread : u # t /\ u # Timer(r) => pc'[u] = pc[u]
        /\ \A u \in Thread : pc'[u] = "stopping" <=> pc[u] = "stopping"
        /\ UNCHANGED <<process, generation, loaded, snapshot, alive>>
    BY <1>0, <1>5, MarkFacts DEF channelVars
  <2>2. pc'[Main] \in {"spawn", "admit", "write"} => pc'[Main] = pc[Main] /\ current' = current
    BY <1>a, <2>1 DEF ThreadNames
  <2> QED
    BY <1>0, <2>1, <2>2 DEF HeldInv
<1>6. CASE Spawn /\ Aftermath
  <2>1. generation \in Nat /\ process' # 0
    BY <1>6, SpawnFacts, PipeTypes DEF Generation
  <2> QED
    BY <1>6, <2>1, SpawnFacts DEF HeldInv
<1>7. CASE Admit
  <2>1. \A t \in Thread : pc'[t] = "stopping" <=> pc[t] = "stopping"
    BY <1>7, <1>a, AdmitFacts DEF ThreadNames
  <2> QED
    BY <1>0, <1>7, <2>1, AdmitFacts DEF HeldInv, channelVars
<1>8. CASE Write
  <2>1. UNCHANGED <<snapshot, current>>
    BY <1>8 DEF Write
  <2> QED
    BY <1>0, <1>8, <2>1, WriteFacts DEF HeldInv
<1>9. CASE WriteFails
  <2>1. \A t \in Thread : pc'[t] = "stopping" <=> pc[t] = "stopping"
    BY <1>9, <1>a, WriteFailsFacts DEF ThreadNames
  <2> QED
    BY <1>0, <1>9, <2>1, WriteFailsFacts DEF HeldInv, channelVars
<1>10. ASSUME NEW r \in Req, ReadLine(r)
       PROVE  HeldInv'
  <2>1. \A t \in Thread : pc'[t] = "stopping" <=> pc[t] = "stopping"
    BY <1>10, <1>a, ReadLineFacts DEF ThreadNames
  <2>2. UNCHANGED <<process, generation, loaded, alive>>
    BY <1>10 DEF ReadLine, channelVars
  <2> QED
    BY <1>0, <1>10, <2>1, <2>2, ReadLineFacts DEF HeldInv
<1>11. ASSUME NEW g \in Generation, ReaderStep(g)
       PROVE  HeldInv'
  <2>1. CASE TakeLine(g)
    BY <1>1, <2>1 DEF TakeLine
  <2>2. CASE ~TakeLine(g)
    <3>1. PICK S \in SUBSET Req : Delivers(g, S)
      BY <1>0, <1>11, <2>2, ReaderFacts
    <3>2. /\ pc'[Main] = pc[Main]
          /\ \A t \in Thread : pc'[t] = "stopping" <=> pc[t] = "stopping"
      BY <3>1, SettleOnward DEF Delivers
    <3>3. UNCHANGED <<process, generation, loaded, current, snapshot>> /\ (alive' => alive)
      BY <3>1 DEF Delivers
    <3> QED
      BY <1>0, <3>2, <3>3 DEF HeldInv
  <2> QED
    BY <2>1, <2>2
<1>12. CASE ~SupervisorRuns
  <2>1. UNCHANGED <<process, generation, loaded, pc, current, snapshot>>
    BY <1>12 DEF Next, WorkerRuns, Surroundings, ReplaceSource, Boot, Crash, Babble, Exited, vars, supVars
  <2>2. alive' => alive
    BY <1>12, LifeCases DEF SupervisorRuns, MainRuns, MainStep, Spawn, Next, WorkerRuns, Surroundings, ReplaceSource, Boot, Crash, Babble, Exited, vars, supVars, channelVars
  <2> QED
    BY <1>1, <2>1, <2>2
<1> QED
  BY <1>2, <1>3, <1>4, <1>5, <1>6, <1>7, <1>8, <1>9, <1>10, <1>11, <1>12, SupervisorCases

LEMMA HandStep ==
    ASSUME Inv, ServiceInv, [Next]_vars, NEW g \in Generation
    PROVE  hand'[g] \in {hand[g], None} \/ g = generation
<1>0. TableInv
  BY DEF ServiceInv
<1>1. ASSUME NEW h \in Generation, ReaderStep(h)
      PROVE  hand'[g] \in {hand[g], None} \/ g = generation
  <2>1. CASE TakeLine(h)
    BY <2>1 DEF TakeLine, Inv, DataOK, SupDataOK
  <2>2. CASE ~TakeLine(h)
    BY <1>0, <1>1, <2>2, ReaderFacts DEF Delivers
  <2> QED
    BY <2>1, <2>2
<1>2. CASE SupervisorRuns
  <2>1. CASE Moves
    BY <2>1, MovesFrame
  <2>2. ASSUME NEW t, StopEnd(t)
        PROVE  UNCHANGED hand
    BY <2>2 DEF StopEnd
  <2>3. ASSUME NEW t, NEW r, NEW next, Notify(t, r, next)
        PROVE  UNCHANGED hand
    BY <2>3 DEF Notify
  <2>4. ASSUME NEW t, NEW r, Marks(t, r)
        PROVE  UNCHANGED hand
    BY <1>0, <2>4, MarkFacts
  <2>5. CASE Spawn \/ Admit \/ Write \/ WriteFails \/ \E r \in Req : ReadLine(r)
    BY <2>5 DEF Spawn, Admit, Write, WriteFails, ReadLine
  <2> QED
    BY <1>1, <1>2, <2>1, <2>2, <2>3, <2>4, <2>5, SupervisorCases
<1>3. CASE ~SupervisorRuns
  BY <1>3 DEF Next, WorkerRuns, Surroundings, ReplaceSource, Boot, Crash, Babble, Exited, vars, supVars
<1> QED
  BY <1>2, <1>3

LEMMA ProcessStep ==
    ASSUME Inv, ServiceInv, [Next]_vars
    PROVE  ProcessInv'
<1>0. ProcessInv /\ HeldInv' /\ alive \in BOOLEAN
  BY HeldStep, PipeTypes DEF ServiceInv
<1>1. (code' # 0 => alive') /\ (code' = 0 => queue' = <<>> /\ \A r \in Req : ~InWork(r)')
  <2>1. CASE SupervisorRuns
    <3>1. Aftermath
      BY <2>1, SupervisorCases
    <3>2. CASE alive /\ ~alive'
      BY <3>1, <3>2 DEF Aftermath, WorkLost, InWork
    <3>3. CASE ~(alive /\ ~alive')
      <4>1. UNCHANGED <<workerVars, code>>
        BY <3>1, <3>3 DEF Aftermath
      <4> QED
        BY <1>0, <3>3, <4>1 DEF ProcessInv, workerVars, InWork
    <3> QED
      BY <3>2, <3>3
  <2>2. CASE WorkerRuns
    BY <2>2, WorkerCases
  <2>3. CASE Boot \/ Crash \/ Babble
    <3>1. CASE Boot
      BY <1>0, <3>1 DEF Boot, channelVars, workerVars, ProcessInv, InWork
    <3>2. CASE Crash
      BY <3>2 DEF Crash, WorkLost, InWork
    <3>3. CASE Babble
      BY <1>0, <3>3 DEF Babble, workerVars, ProcessInv, InWork
    <3> QED
      BY <2>3, <3>1, <3>2, <3>3
  <2>4. CASE ReplaceSource /\ UNCHANGED <<workerVars, code, faults>>
    BY <1>0, <2>4 DEF ReplaceSource, workerVars, channelVars, ProcessInv, InWork
  <2>5. CASE UNCHANGED vars
    BY <1>0, <2>5 DEF vars, workerVars, channelVars, ProcessInv, InWork
  <2> QED
    BY <2>1, <2>2, <2>3, <2>4, <2>5 DEF Next, Surroundings, Exited
<1>2. \A g \in Generation : g > generation' => hand'[g] = None
  <2> SUFFICES ASSUME NEW g \in Generation, g > generation'
               PROVE  hand'[g] = None
    OBVIOUS
  <2>1. generation \in Nat /\ g \in Nat /\ hand \in [Generation -> LinesFromWorker \cup {None}]
        /\ Main \in Thread
    BY PipeTypes, SupervisorAssumption, ThreadsDiffer DEF Generation, ThreadNames
  <2>2. generation' \in {generation, generation + 1}
    BY LifeCases, SpawnFacts
  <2>3. g > generation
    BY <2>1, <2>2
  <2>4. hand[g] = None
    BY <1>0, <2>3 DEF ProcessInv
  <2>5. g # generation
    BY <2>1, <2>3
  <2> QED
    BY <2>4, <2>5, HandStep
<1> QED
  BY <1>0, <1>1, <1>2 DEF ProcessInv, HeldInv, InWork

\* How a request gets into the table, and what it is for a process that lives
\* on to leave it.
LEMMA EntersTable ==
    ASSUME Inv, ServiceInv, [Next]_vars, NEW r \in Req
    PROVE  /\ Registered(r)' => Registered(r) \/ (Admit /\ r = current)
           /\ gen'[r] = gen[r] \/ (Admit /\ r = current)
<1>0. TableInv
  BY DEF ServiceInv
<1>1. Registered(r)' => Registered(r) \/ (Admit /\ r = current)
  <2>1. ASSUME UNCHANGED pending
        PROVE  Registered(r)' <=> Registered(r)
    BY <2>1 DEF Registered
  <2>2. ASSUME NEW t, NEW q, Marks(t, q)
        PROVE  UNCHANGED pending
    BY <1>0, <2>2, MarkFacts
  <2>3. ASSUME NEW q \in Req, ReadLine(q)
        PROVE  UNCHANGED pending
    BY <2>3 DEF ReadLine
  <2>4. CASE Write
    BY <2>4, <2>1, WriteFacts DEF tables
  <2> QED
    BY <2>1, <2>2, <2>3, <2>4, TableCases, AdmitFacts, WriteFailsFacts DEF Settles
<1>2. gen'[r] = gen[r] \/ (Admit /\ r = current)
  <2>1. ASSUME NEW g \in Generation, ReaderStep(g)
        PROVE  UNCHANGED gen
    <3>1. CASE TakeLine(g)
      BY <3>1 DEF TakeLine
    <3>2. CASE ~TakeLine(g)
      BY <1>0, <2>1, <3>2, ReaderFacts DEF Delivers
    <3> QED
      BY <3>1, <3>2
  <2>2. ASSUME NEW t, StopEnd(t)
        PROVE  UNCHANGED gen
    BY <2>2 DEF StopEnd
  <2>3. ASSUME NEW t, NEW q, NEW next, Notify(t, q, next)
        PROVE  UNCHANGED gen
    BY <2>3 DEF Notify
  <2>4. ASSUME NEW t, NEW q, Marks(t, q)
        PROVE  UNCHANGED gen
    BY <1>0, <2>4, MarkFacts
  <2>5. CASE Spawn \/ Write \/ WriteFails \/ \E q \in Req : ReadLine(q)
    BY <2>5 DEF Spawn, Write, WriteFails, ReadLine
  <2>6. CASE Moves
    BY <2>6, MovesFrame DEF tables
  <2>7. CASE ~SupervisorRuns
    BY <2>7 DEF Next, WorkerRuns, Surroundings, ReplaceSource, Boot, Crash, Babble, Exited, vars, supVars
  <2> QED
    BY <2>1, <2>2, <2>3, <2>4, <2>5, <2>6, <2>7, SupervisorCases, AdmitFacts
<1> QED
  BY <1>1, <1>2

LEMMA LeavesTable ==
    ASSUME Inv, ServiceInv, [Next]_vars, NEW r \in Req, Registered(r), ~Registered(r)',
           alive', gen[r] = generation
    PROVE  \/ WriteFails /\ r = current
           \/ \E q \in Req : /\ generation \in Generation /\ InHand(q, generation)
                             /\ KeyOf[q] = KeyOf[r] /\ hand'[generation] = None /\ alive
                             /\ UNCHANGED <<toWorker, fromWorker, work, generation>>
<1>0. TableInv
  BY DEF ServiceInv
<1>1. SupervisorRuns /\ ~UNCHANGED pending
  <2>1. ~UNCHANGED pending
    BY DEF Registered
  <2> QED
    BY <2>1 DEF Next, WorkerRuns, Surroundings, ReplaceSource, Boot, Crash, Babble, Exited, vars, supVars
<1>2. ~Moves /\ ~Spawn /\ ~Write /\ ~Admit
  BY <1>1, MovesFrame, AdmitFacts DEF tables, Spawn, Write
<1>3. ASSUME NEW t, StopEnd(t)
      PROVE  FALSE
  BY <1>3 DEF StopEnd
<1>4. ASSUME NEW t, NEW q, NEW next, Notify(t, q, next)
      PROVE  FALSE
  BY <1>1, <1>4 DEF Notify
<1>5. ASSUME NEW t, NEW q, Marks(t, q)
      PROVE  FALSE
  BY <1>0, <1>1, <1>5, MarkFacts
<1>6. ASSUME NEW q \in Req, ReadLine(q)
      PROVE  FALSE
  BY <1>1, <1>6 DEF ReadLine
<1>7. ASSUME NEW g \in Generation, ReaderStep(g)
      PROVE  \E q \in Req : /\ generation \in Generation /\ InHand(q, generation)
                            /\ KeyOf[q] = KeyOf[r] /\ hand'[generation] = None /\ alive
                            /\ UNCHANGED <<toWorker, fromWorker, work, generation>>
  <2>1. ~TakeLine(g)
    BY <1>1 DEF TakeLine
  <2>2. PICK S \in SUBSET Req : /\ Delivers(g, S)
                                /\ \/ \E q \in Req : Responds(g, S, q) \/ Acknowledges(g, S, q)
                                   \/ FailsAll(g, S)
    BY <1>0, <1>7, <2>1, ReaderFacts
  <2>3. r \in S
    BY <2>2, Unregisters DEF Delivers
  <2>4. g = generation
    BY <2>2, <2>3 DEF Delivers
  <2>5. PICK q \in Req : Responds(g, S, q) \/ Acknowledges(g, S, q)
    BY <2>2, <2>4 DEF FailsAll
  <2>6. UNCHANGED <<toWorker, fromWorker, generation>> /\ alive /\ alive' = alive
        /\ hand'[generation] = None /\ InHand(q, generation) /\ KeyOf[q] = KeyOf[r]
    BY <2>2, <2>3, <2>4, <2>5 DEF Delivers, Responds, Acknowledges
  <2>7. UNCHANGED work
    BY <1>1, <2>6, SupervisorCases, WorkStays DEF workerVars
  <2> QED
    BY <2>4, <2>6, <2>7
<1> QED
  BY <1>1, <1>2, <1>3, <1>4, <1>5, <1>6, <1>7, WriteFailsFacts, SupervisorCases

LEMMA WriteIsOwn ==
    ASSUME Inv, ServiceInv, Write, current \notin Notification
    PROVE  /\ current \in Req /\ Registered(current) /\ gen[current] = generation
           /\ slot[current] = "empty" /\ alive /\ generation # 0
           /\ \A q \in Req : Registered(q)' <=> Registered(q)
           /\ UNCHANGED <<gen, generation, fromWorker, hand, alive>>
<1>1. /\ current \in Req /\ pc[Main] = "write" /\ process = snapshot /\ alive
      /\ UNCHANGED <<gen, generation, fromWorker, hand, alive, pending>>
  BY WriteFacts DEF tables
<1>2. Registered(current) /\ gen[current] = snapshot /\ slot[current] = "empty"
  BY <1>1 DEF ServiceInv, WriteInv
<1>3. snapshot # 0 /\ process \in {0, generation}
  BY <1>1 DEF ServiceInv, ProcessInv
<1> QED
  BY <1>1, <1>2, <1>3 DEF Registered

\* A request is with the running process, on its way there or back.
Here(r) ==
    InStdin(r) \/ InWork(r) \/ InStdout(r) \/ (generation # 0 /\ InHand(r, generation))

LEMMA HereStep ==
    ASSUME Inv, ServiceInv, [Next]_vars, NEW r \in Req, alive', Here(r)'
    PROVE  /\ alive /\ generation' = generation
           /\ Here(r) \/ (Write /\ r = current)
<1>0. generation \in 0 .. MaxGen /\ MaxGen \in Nat /\ (generation # 0 => generation \in Generation)
  BY PipeTypes DEF Generation
<1>1. CASE Spawn /\ Aftermath
  <2>1. generation' = generation + 1 /\ generation' \in Generation /\ UNCHANGED hand
        /\ ~InStdin(r)' /\ ~InStdout(r)' /\ ~InWork(r)'
    BY <1>1, SpawnFacts
  <2>2. hand[generation'] = None
    BY <1>0, <2>1 DEF ServiceInv, ProcessInv
  <2>3. ~InHand(r, generation)'
    BY <2>1, <2>2 DEF InHand
  <2> QED
    BY <2>1, <2>3 DEF Here
<1>2. CASE generation' = generation /\ (alive' => alive)
  <2>1. /\ InStdin(r)' => InStdin(r) \/ (Write /\ r = current)
        /\ InWork(r)' => InWork(r) \/ InStdin(r)
        /\ InStdout(r)' => InStdout(r) \/ InWork(r)
        /\ \A g \in Generation : InHand(r, g)' => InHand(r, g) \/ (g = generation /\ InStdout(r))
    BY FlowStep
  <2>2. InHand(r, generation)' /\ generation # 0 => InHand(r, generation) \/ InStdout(r)
    <3>1. CASE generation = 0
      BY <3>1
    <3>2. CASE generation # 0
      <4>1. InHand(r, generation)' <=> (hand'[generation] # None /\ hand'[generation] \in Lines(r))
        BY <1>2 DEF InHand
      <4> QED
        BY <1>0, <2>1, <3>2, <4>1 DEF InHand
    <3> QED
      BY <3>1, <3>2
  <2> QED
    BY <1>2, <2>1, <2>2 DEF Here
<1> QED
  BY <1>1, <1>2, LifeCases

LEMMA AccountStep ==
    ASSUME Inv, ServiceInv, [Next]_vars
    PROVE  AccountInv'
<1> SUFFICES ASSUME alive', NEW r \in Req, r \notin Notification, Here(r)'
             PROVE  Registered(r)' /\ gen'[r] = generation'
  BY DEF AccountInv, Here, Registered
<1>1. alive /\ generation' = generation /\ (Here(r) \/ (Write /\ r = current))
  BY HereStep
<1>2. Registered(r) /\ gen[r] = generation
  BY <1>1, WriteIsOwn DEF ServiceInv, AccountInv, Here
<1>3. gen'[r] = gen[r]
  <2>1. ~(Admit /\ r = current)
    BY <1>2, AdmitFacts
  <2> QED
    BY <2>1, EntersTable
<1>4. Registered(r)'
  <2> SUFFICES ASSUME ~Registered(r)'
               PROVE  FALSE
    OBVIOUS
  <2>1. Here(r) /\ ~Write
    <3>1. Write => UNCHANGED pending
      BY DEF Write
    <3> QED
      BY <1>1, <1>2, <3>1 DEF Registered
  <2>2. ~(WriteFails /\ r = current)
    <3>1. generation # 0 => generation \in Generation
      BY PipeTypes DEF Generation
    <3>2. ~Unsent(r)
      BY <2>1, <3>1 DEF ServiceInv, OnceInv, Here, Returning
    <3> QED
      BY <3>2, WriteFailsFacts
  <2>3. PICK q \in Req : /\ generation \in Generation /\ InHand(q, generation)
                         /\ KeyOf[q] = KeyOf[r] /\ hand'[generation] = None
                         /\ UNCHANGED <<toWorker, fromWorker, work, generation>>
    BY <1>1, <1>2, <2>2, LeavesTable
  <2>4. q \notin Notification /\ generation # 0
    BY <2>3, PipeTypes DEF ServiceInv, NoteInv, Returning, Generation
  <2>5. Registered(q)
    BY <1>1, <2>3, <2>4 DEF ServiceInv, AccountInv
  <2>6. q = r
    BY <1>2, <2>3, <2>5 DEF Registered
  <2>7. ~InStdin(r) /\ ~InWork(r) /\ ~InStdout(r)
    BY <2>3, <2>6 DEF ServiceInv, OnceInv, Returning
  <2> QED
    BY <2>3, <2>7 DEF Here, InStdin, InWork, InStdout, InHand
<1> QED
  BY <1>1, <1>2, <1>3, <1>4

\* A request gets a waiter once its line is written.
LEMMA WaiterBegins ==
    ASSUME Inv, ServiceInv, [Next]_vars, NEW r \in Req, pc'[Waiter(r)] # "none"
    PROVE  pc[Waiter(r)] # "none" \/ (Write /\ r = current /\ r \notin Notification)
<1>0. TableInv
  BY DEF ServiceInv
<1>1. ASSUME NEW t, NEW q, Marks(t, q)
      PROVE  pc[Waiter(r)] # "none"
  BY <1>0, <1>1, MarkFacts, ThreadsDiffer DEF ThreadNames
<1>2. ASSUME NEW q \in Req, ReadLine(q)
      PROVE  pc[Waiter(r)] # "none"
  BY <1>2, ReadLineFacts
<1> QED
  BY <1>1, <1>2, TableCases, AdmitFacts, WriteFacts, WriteFailsFacts DEF Settles, Onward

CameBack(r, g) == InHand(r, g) \/ (g = generation /\ InStdout(r))

LEMMA CorrelationStep ==
    ASSUME Inv, ServiceInv, [Next]_vars
    PROVE  CorrelationInv'
<1> SUFFICES ASSUME NEW g \in Generation, NEW q \in Req, NEW r \in Req,
                    Registered(q)', gen'[q] = g, pc'[Waiter(q)] # "none",
                    KeyOf[r] = KeyOf[q], CameBack(r, g)'
             PROVE  r = q
  BY DEF CorrelationInv, CameBack, Registered
<1>1. CameBack(r, g) \/ (InWork(r) /\ UNCHANGED supVars /\ g = generation)
  <2>1. /\ InStdout(r)' => InStdout(r) \/ (InWork(r) /\ UNCHANGED supVars)
        /\ InHand(r, g)' => InHand(r, g) \/ (g = generation /\ InStdout(r))
    BY FlowStep
  <2>2. \/ generation' = generation
        \/ ~InStdout(r)'
    BY LifeCases, SpawnFacts
  <2> QED
    BY <2>1, <2>2 DEF CameBack, InHand
<1>2. r \notin Notification
  BY <1>1 DEF ServiceInv, NoteInv, Returning, CameBack
<1>3. ~(Admit /\ q = current)
  BY AdmitFacts
<1>4. Registered(q) /\ gen[q] = g
  BY <1>3, EntersTable
<1>5. CASE pc[Waiter(q)] # "none"
  <2>1. CASE CameBack(r, g)
    BY <1>4, <1>5, <2>1 DEF ServiceInv, CorrelationInv, CameBack
  <2>2. CASE InWork(r) /\ g = generation
    <3>1. alive
      <4>1. code # 0
        BY <2>2 DEF ServiceInv, ProcessInv
      <4> QED
        BY <4>1 DEF ServiceInv, ProcessInv
    <3>2. Registered(r)
      BY <1>2, <2>2, <3>1 DEF ServiceInv, AccountInv
    <3> QED
      BY <1>4, <3>2 DEF Registered
  <2> QED
    BY <1>1, <2>1, <2>2
<1>6. CASE Write /\ q = current /\ q \notin Notification
  <2>1. alive /\ gen[q] = generation /\ generation # 0 /\ ~UNCHANGED supVars
    <3>1. pc'[Waiter(q)] # pc[Waiter(q)] \/ pc[Waiter(q)] # "none"
      OBVIOUS
    <3>2. pc[Waiter(q)] = "none"
      BY <1>6, WriteFacts DEF Inv, AnswerInv, Submitting
    <3> QED
      BY <1>6, <3>1, <3>2, WriteIsOwn DEF supVars
  <2>2. Registered(r)
    BY <1>1, <1>2, <1>4, <2>1 DEF CameBack, ServiceInv, AccountInv
  <2> QED
    BY <1>4, <2>2 DEF Registered
<1> QED
  BY <1>5, <1>6, WaiterBegins

\* What happens to the response slots.
LEMMA SlotCases ==
    ASSUME Inv, ServiceInv, [Next]_vars, NEW r \in Req, slot'[r] # slot[r]
    PROVE  /\ slot[r] = "empty" /\ ~Admit /\ ~Write
           /\ \/ slot'[r] = "error" /\ ~Registered(r)'
              \/ slot'[r] = "cancelled" /\ cancelled[r] /\ cancelled'[r]
              \/ \E g \in Generation, q \in Req :
                    /\ Registered(r) /\ gen[r] = g /\ ~Registered(r)' /\ ~cancelled[r] /\ ~cancelled'[r]
                    /\ InHand(q, g) /\ hand[g] # FinishedLine(q) /\ KeyOf[q] = KeyOf[r]
                    /\ slot'[r] = "result" => r = q
                    /\ slot'[r] = "wrong" => r # q
                    /\ slot'[r] \in {"result", "wrong"}
<1>0. TableInv
  BY DEF ServiceInv
<1>1. SupervisorRuns /\ ~UNCHANGED slot
  BY DEF Next, WorkerRuns, Surroundings, ReplaceSource, Boot, Crash, Babble, Exited, vars, supVars
<1>2. ~Moves /\ ~Spawn /\ ~Write /\ ~Admit /\ ~WriteFails
  BY <1>1, MovesFrame, AdmitFacts DEF tables, Spawn, Write, WriteFails
<1>3. ASSUME NEW t \in Thread, StopEnd(t)
      PROVE  slot[r] = "empty" /\ slot'[r] = "error" /\ ~Registered(r)'
  <2>1. PICK S \in SUBSET Req :
            /\ pending' = WithoutPending(S)
            /\ \A q \in Req : slot'[q] = IF q \in S /\ slot[q] = "empty" THEN "error" ELSE slot[q]
    BY <1>0, <1>3, StopEndFacts
  <2> QED
    BY <2>1, Unregisters
<1>4. ASSUME NEW t, NEW q, NEW next, Notifies(t, q, next), Notify(t, q, next)
      PROVE  slot[r] = "empty" /\ slot'[r] = "cancelled" /\ cancelled[r] /\ cancelled'[r]
  BY <1>0, <1>4, NotifyFacts
<1>5. ASSUME NEW t, NEW q, Marks(t, q)
      PROVE  FALSE
  BY <1>0, <1>1, <1>5, MarkFacts
<1>6. ASSUME NEW q \in Req, ReadLine(q)
      PROVE  FALSE
  BY <1>1, <1>6 DEF ReadLine
<1>7. ASSUME NEW g \in Generation, ReaderStep(g)
      PROVE  /\ slot[r] = "empty"
             /\ \/ slot'[r] = "error" /\ ~Registered(r)'
                \/ \E q \in Req :
                    /\ Registered(r) /\ gen[r] = g /\ ~Registered(r)' /\ ~cancelled[r] /\ ~cancelled'[r]
                    /\ InHand(q, g) /\ hand[g] # FinishedLine(q) /\ KeyOf[q] = KeyOf[r]
                    /\ slot'[r] = "result" => r = q
                    /\ slot'[r] = "wrong" => r # q
                    /\ slot'[r] \in {"result", "wrong"}
  <2>1. ~TakeLine(g)
    BY <1>1 DEF TakeLine
  <2>2. PICK S \in SUBSET Req : /\ Delivers(g, S)
                                /\ \/ \E q \in Req : Responds(g, S, q) \/ Acknowledges(g, S, q)
                                   \/ FailsAll(g, S)
    BY <1>0, <1>7, <2>1, ReaderFacts
  <2>3. r \in S /\ ~Registered(r)' /\ Registered(r) /\ gen[r] = g /\ UNCHANGED cancelled
    BY <2>2, Unregisters DEF Delivers
  <2>4. CASE FailsAll(g, S)
    BY <2>3, <2>4 DEF FailsAll
  <2>5. ASSUME NEW q \in Req, Acknowledges(g, S, q)
        PROVE  FALSE
    BY <2>3, <2>5 DEF Acknowledges
  <2>6. ASSUME NEW q \in Req, Responds(g, S, q)
        PROVE  /\ slot[r] = "empty" /\ ~cancelled[r]
               /\ InHand(q, g) /\ hand[g] # FinishedLine(q) /\ KeyOf[q] = KeyOf[r]
               /\ slot'[r] = "result" => r = q
               /\ slot'[r] = "wrong" => r # q
               /\ slot'[r] \in {"result", "wrong"}
    <3>1. /\ slot[r] = "empty" /\ ~cancelled[r] /\ slot'[r] = (IF S = {q} THEN "result" ELSE "wrong")
          /\ InHand(q, g) /\ hand[g] # FinishedLine(q) /\ KeyOf[q] = KeyOf[r]
          /\ \A p \in S : KeyOf[p] = KeyOf[q]
      BY <2>3, <2>6 DEF Responds
    <3>2. \A p \in S : p = r
      BY <2>2, <2>3, <3>1 DEF Delivers, Registered
    <3>3. S = {r}
      BY <2>3, <3>2
    <3> QED
      BY <3>1, <3>3
  <2> QED
    BY <2>2, <2>3, <2>4, <2>5, <2>6
<1>8. ~Write /\ ~Admit
  BY <1>2
<1> QED
  BY <1>1, <1>2, <1>3, <1>4, <1>5, <1>6, <1>7, <1>8, SupervisorCases

\* Only a request in the table is marked, and only by a thread that notifies.
LEMMA CancelCases ==
    ASSUME Inv, ServiceInv, [Next]_vars, NEW r \in Req, cancelled'[r] # cancelled[r]
    PROVE  Registered(r) /\ ~cancelled[r] /\ cancelled'[r] /\ \E t : Marks(t, r)
<1>0. TableInv /\ cancelled \in [Req -> BOOLEAN]
  BY PipeTypes DEF ServiceInv
<1>1. ASSUME NEW t, NEW q, Marks(t, q)
      PROVE  Registered(r) /\ ~cancelled[r] /\ cancelled'[r] /\ q = r
  BY <1>0, <1>1, MarkFacts
<1>2. ASSUME NEW q \in Req, ReadLine(q)
      PROVE  FALSE
  BY <1>2 DEF ReadLine
<1> QED
  BY <1>1, <1>2, TableCases, AdmitFacts, WriteFacts, WriteFailsFacts DEF Settles, tables

LEMMA SlotStep ==
    ASSUME Inv, ServiceInv, [Next]_vars, NEW r \in Req
    PROVE  SlotInv(r)'
<1>0. SlotInv(r) /\ StartInv(r)
  BY DEF ServiceInv
<1>1. slot'[r] # "empty" => ~Registered(r)' \/ cancelled'[r]
  <2>1. CASE slot'[r] = slot[r]
    <3>1. ~(Admit /\ r = current) \/ slot[r] = "empty"
      BY AdmitFacts
    <3> QED
      BY <1>0, <2>1, <3>1, EntersTable, CancelCases DEF SlotInv
  <2>2. CASE slot'[r] # slot[r]
    BY <2>2, SlotCases
  <2> QED
    BY <2>1, <2>2
<1>2. slot'[r] = "result" => ~Registered(r)' /\ ~cancelled'[r] /\ started'[r] = 1
  <2> SUFFICES ASSUME slot'[r] = "result"
               PROVE  ~Registered(r)' /\ ~cancelled'[r] /\ started'[r] = 1
    OBVIOUS
  <2>1. CASE slot'[r] = slot[r]
    <3>1. ~Registered(r) /\ ~cancelled[r] /\ started[r] = 1
      BY <1>0, <2>1 DEF SlotInv
    <3>2. ~(Admit /\ r = current)
      BY <2>1, AdmitFacts
    <3> QED
      BY <3>1, <3>2, EntersTable, CancelCases, FlowStep
  <2>2. CASE slot'[r] # slot[r]
    <3>1. PICK g \in Generation : /\ ~Registered(r)' /\ ~cancelled'[r]
                                  /\ InHand(r, g) /\ hand[g] # FinishedLine(r)
      BY <2>2, SlotCases
    <3>2. hand[g] = ResultLine(r)
      BY <1>0, <3>1 DEF StartInv, InHand, Lines
    <3>3. started[r] = 1
      BY <1>0, <3>1, <3>2 DEF StartInv
    <3> QED
      BY <3>1, <3>3, FlowStep
  <2> QED
    BY <2>1, <2>2
<1>3. pc'[Waiter(r)] # "none" => slot'[r] # "wrong"
  <2> SUFFICES ASSUME pc'[Waiter(r)] # "none", slot'[r] = "wrong"
               PROVE  FALSE
    OBVIOUS
  <2>1. CASE slot'[r] = slot[r]
    BY <1>0, <2>1, WaiterBegins, WriteIsOwn DEF SlotInv
  <2>2. CASE slot'[r] # slot[r]
    <3>1. /\ ~Write
          /\ \E g \in Generation, q \in Req :
                Registered(r) /\ gen[r] = g /\ InHand(q, g) /\ KeyOf[q] = KeyOf[r] /\ r # q
      BY <2>2, SlotCases
    <3>2. pc[Waiter(r)] # "none"
      BY <3>1, WaiterBegins
    <3> QED
      BY <3>1, <3>2 DEF ServiceInv, CorrelationInv
  <2> QED
    BY <2>1, <2>2
<1> QED
  BY <1>1, <1>2, <1>3 DEF SlotInv, Registered

\* The process the supervisor holds is taken away only.
LEMMA HeldCases ==
    ASSUME Inv, ServiceInv, [Next]_vars
    PROVE  process' \in {process, 0} \/ (Spawn /\ Aftermath)
<1>0. TableInv
  BY DEF ServiceInv
<1>1. CASE Moves
  BY <1>1, MovesThreads
<1>2. ASSUME NEW t, StopEnd(t)
      PROVE  process' = process
  BY <1>2 DEF StopEnd
<1>3. ASSUME NEW t, NEW r, NEW next, Notify(t, r, next)
      PROVE  process' = process
  BY <1>3 DEF Notify
<1>4. ASSUME NEW t, NEW r, Marks(t, r)
      PROVE  process' = process
  BY <1>0, <1>4, MarkFacts
<1>5. CASE Admit \/ Write \/ WriteFails \/ \E r \in Req : ReadLine(r)
  BY <1>5 DEF Admit, Write, WriteFails, ReadLine
<1>6. ASSUME NEW g \in Generation, ReaderStep(g)
      PROVE  process' = process
  <2>1. CASE TakeLine(g)
    BY <2>1 DEF TakeLine
  <2>2. CASE ~TakeLine(g)
    BY <1>0, <1>6, <2>2, ReaderFacts DEF Delivers
  <2> QED
    BY <2>1, <2>2
<1>7. CASE ~SupervisorRuns
  BY <1>7 DEF Next, WorkerRuns, Surroundings, ReplaceSource, Boot, Crash, Babble, Exited, vars, supVars
<1> QED
  BY <1>1, <1>2, <1>3, <1>4, <1>5, <1>6, <1>7, SupervisorCases

LEMMA WriteStays ==
    ASSUME Inv, ServiceInv, [Next]_vars, pc'[Main] = "write", current' \notin Notification
    PROVE  Admit \/ (pc[Main] = "write" /\ UNCHANGED <<current, snapshot>> /\ ~Spawn /\ ~WriteFails /\ ~Write)
<1>0. TableInv
  BY DEF ServiceInv
<1>1. CASE Moves
  <2>1. pc[Main] = "write" /\ UNCHANGED current
    BY <1>1, MovesOnward, MovesFrame DEF Onward, tables
  <2>2. UNCHANGED snapshot
    BY <1>1, <2>1, MovesThreads
  <2>3. ~Spawn /\ ~WriteFails /\ ~Write
    BY <2>1, WriteFacts, WriteFailsFacts DEF Spawn
  <2> QED
    BY <2>1, <2>2, <2>3
<1>2. ASSUME NEW t \in Thread, StopEnd(t)
      PROVE  pc[Main] = "write" /\ UNCHANGED <<current, snapshot>>
  BY <1>2, StopEndOnward DEF Onward, StopEnd, ServiceInv
<1>3. ASSUME NEW t, NEW r, NEW next, Notifies(t, r, next), Notify(t, r, next)
      PROVE  pc[Main] = "write" /\ UNCHANGED <<current, snapshot>>
  BY <1>3, NotifyOnward DEF Onward, Notify
<1>4. ASSUME NEW t, NEW r, Marks(t, r)
      PROVE  pc[Main] = "write" /\ UNCHANGED <<current, snapshot>>
  <2>1. /\ pc'[t] = "notify" /\ UNCHANGED snapshot /\ t \in Thread /\ r \in Req
        /\ t = Main \/ (t = Waiter(r) /\ current' = current)
        /\ \A u \in Thread : u # t /\ u # Timer(r) => pc'[u] = pc[u]
    BY <1>0, <1>4, MarkFacts
  <2> QED
    BY <2>1, ThreadsDiffer DEF ThreadNames
<1>5. CASE Spawn /\ Aftermath
  BY <1>5, SpawnFacts
<1>6. CASE Write \/ WriteFails
  BY <1>6, WriteFacts, WriteFailsFacts
<1>7. ASSUME NEW r \in Req, ReadLine(r)
      PROVE  FALSE
  BY <1>7, ReadLineFacts
<1>8. ASSUME NEW g \in Generation, ReaderStep(g)
      PROVE  pc[Main] = "write" /\ UNCHANGED <<current, snapshot>>
  <2>1. CASE TakeLine(g)
    BY <2>1 DEF TakeLine
  <2>2. CASE ~TakeLine(g)
    BY <1>0, <1>8, <2>2, ReaderFacts, SettleOnward DEF Delivers
  <2> QED
    BY <2>1, <2>2
<1>10. pc[Main] = "write" => ~Spawn /\ ~WriteFails /\ ~Write
  BY WriteFacts, WriteFailsFacts DEF Spawn
<1>9. CASE ~SupervisorRuns
  BY <1>9, <1>10 DEF Next, WorkerRuns, Surroundings, ReplaceSource, Boot, Crash, Babble, Exited, vars, supVars
<1>11. CASE SupervisorRuns
  <2>1. CASE Moves \/ Admit \/ Spawn \/ Write \/ WriteFails
    BY <1>1, <1>5, <1>6, <1>11, <2>1, SupervisorCases
  <2>2. CASE ~(Moves \/ Admit \/ Spawn \/ Write \/ WriteFails)
    <3>1. pc[Main] = "write" /\ UNCHANGED <<current, snapshot>>
      BY <1>2, <1>3, <1>4, <1>7, <1>8, <1>11, <2>2, SupervisorCases
    <3> QED
      BY <1>10, <3>1
  <2> QED
    BY <2>1, <2>2
<1> QED
  BY <1>9, <1>11

LEMMA WriteStep ==
    ASSUME Inv, ServiceInv, [Next]_vars
    PROVE  WriteInv'
<1> SUFFICES ASSUME pc'[Main] = "write", current' \notin Notification, process' = snapshot', alive'
             PROVE  Registered(current)' /\ gen'[current'] = snapshot' /\ slot'[current'] = "empty"
  BY DEF WriteInv, Registered
<1>1. CASE Admit
  <2>1. Registered(current)' /\ current' = current
    BY <1>1, AdmitFacts DEF Registered
  <2> QED
    BY <1>1, <2>1, AdmitFacts
<1>2. CASE pc[Main] = "write" /\ UNCHANGED <<current, snapshot>> /\ ~Spawn /\ ~WriteFails /\ ~Write
  <2>0. /\ generation' = generation /\ alive
        /\ current \in Req /\ snapshot # 0 /\ Unsent(current)
    <3>1. MainAt = "write"
      BY <1>2 DEF MainAt
    <3> QED
      BY <1>2, <3>1, LifeCases DEF ServiceInv, ProcessInv, Inv, ControlOK, LineInv, Unsent, Submitting
  <2>1. process = snapshot
    BY <1>2, <2>0, HeldCases
  <2>2. snapshot = generation
    BY <2>0, <2>1 DEF ServiceInv, ProcessInv
  <2>3. /\ Registered(current) /\ gen[current] = generation /\ slot[current] = "empty"
        /\ current \notin Notification /\ generation # 0
    BY <1>2, <2>0, <2>1, <2>2 DEF ServiceInv, WriteInv
  <2>4. ASSUME NEW q \in Req, NEW g \in Generation, g = generation, InHand(q, g), KeyOf[q] = KeyOf[current]
        PROVE  FALSE
    <3>1. q \notin Notification
      BY <2>4 DEF ServiceInv, NoteInv, Returning
    <3>2. Registered(q)
      BY <2>0, <2>3, <2>4, <3>1 DEF ServiceInv, AccountInv
    <3>3. q = current
      BY <2>3, <2>4, <3>2 DEF Registered
    <3> QED
      BY <2>0, <2>4, <3>3 DEF ServiceInv, OnceInv, Returning
  <2>5. Registered(current)'
    <3>1. pending'[KeyOf[current]] = current
      <4>1. CASE ~Registered(current)'
        BY <1>2, <2>0, <2>3, <2>4, <4>1, LeavesTable
      <4>2. CASE Registered(current)'
        BY <1>2, <4>2 DEF Registered
      <4> QED
        BY <4>1, <4>2
    <3> QED
      BY <1>2, <3>1 DEF Registered
  <2>6. gen'[current] = generation
    BY <1>2, <2>0, <2>3, EntersTable, AdmitFacts
  <2>7. slot'[current] = "empty"
    <3>1. ~cancelled[current]
      BY <1>2 DEF ServiceInv, TableInv, MainAt, Submitting
    <3>2. CASE slot'[current] # slot[current]
      <4>1. ~Registered(current)' \/ cancelled[current] \/
               \E g \in Generation, q \in Req : gen[current] = g /\ InHand(q, g) /\ KeyOf[q] = KeyOf[current]
        <5>1. \A r \in Req : slot'[r] # slot[r] =>
                  \/ ~(pending'[KeyOf[r]] = r) \/ cancelled[r]
                  \/ \E g \in Generation, q \in Req : gen[r] = g /\ InHand(q, g) /\ KeyOf[q] = KeyOf[r]
          BY SlotCases DEF Registered
        <5> QED
          BY <1>2, <2>0, <3>2, <5>1 DEF Registered
      <4> QED
        BY <2>3, <2>4, <2>5, <3>1, <4>1
    <3> QED
      BY <2>3, <3>2
  <2> QED
    BY <1>2, <2>2, <2>5, <2>6, <2>7
<1> QED
  BY <1>1, <1>2, WriteStays

\* Who answers a request, and with what.
Answers(r, value) ==
    \/ Reject /\ r = current /\ value = "rejected"
    \/ Fail /\ r = current /\ r \notin Notification /\ value = "uncertain"
    \/ Receive(r) /\ value \in {"result", "wrong", "uncertain"} /\ (value # "uncertain" => slot[r] = value)
    \/ GiveUp(r) /\ value = "uncertain"

LEMMA AnswerCases ==
    ASSUME Inv, ServiceInv, [Next]_vars, NEW r \in Req, answers'[r] # answers[r]
    PROVE  /\ answers[r] = <<>>
           /\ \E value : answers'[r] = <<value>> /\ Answers(r, value)
           /\ \A q \in Req \ {r} : answers'[q] = answers[q]
           /\ UNCHANGED <<channelVars, hand, workerVars, unread, cancelled>>
<1>0. TableInv /\ answers \in [Req -> Seq(Answer)] /\ AnswerInv /\ slot \in [Req -> Slot]
  BY PipeTypes DEF ServiceInv, Inv, DataOK, SupDataOK
<1>1. ASSUME UNCHANGED answers PROVE FALSE
  BY <1>1
<1>2. ASSUME NEW g \in Generation, ReaderStep(g)
      PROVE  FALSE
  <2>1. CASE TakeLine(g)
    BY <1>1, <2>1 DEF TakeLine
  <2>2. CASE ~TakeLine(g)
    BY <1>0, <1>1, <1>2, <2>2, ReaderFacts DEF Delivers
  <2> QED
    BY <2>1, <2>2
<1>3. ASSUME NEW t, StopEnd(t)
      PROVE  FALSE
  BY <1>1, <1>3 DEF StopEnd
<1>4. ASSUME NEW t, NEW q, NEW next, Notify(t, q, next)
      PROVE  FALSE
  BY <1>1, <1>4 DEF Notify
<1>5. ASSUME NEW t, NEW q, Marks(t, q)
      PROVE  FALSE
  BY <1>0, <1>1, <1>5, MarkFacts
<1>6. ~Spawn /\ ~Admit /\ ~Write /\ ~WriteFails /\ ~ \E q \in Req : ReadLine(q)
  BY <1>1 DEF Spawn, Admit, Write, WriteFails, ReadLine
<1>7. SupervisorRuns
  BY <1>1 DEF Next, WorkerRuns, Surroundings, ReplaceSource, Boot, Crash, Babble, Exited, vars, supVars
<1>8. Moves /\ Aftermath
  BY <1>2, <1>3, <1>4, <1>5, <1>6, <1>7, SupervisorCases
<1>9. UNCHANGED <<channelVars, hand, workerVars, unread, cancelled>>
  BY <1>8, MovesFrame, WorkStays DEF channelVars, tables
<1>10. ASSUME NEW q \in Req, NEW value, answers[q] = <<>>, answers' = answers \/ answers' = [answers EXCEPT ![q] = Append(@, value)]
       PROVE  /\ q = r /\ answers'[r] = <<value>> /\ answers[r] = <<>>
              /\ \A p \in Req \ {r} : answers'[p] = answers[p]
  <2>1. answers' = [answers EXCEPT ![q] = Append(@, value)]
    BY <1>1, <1>10
  <2>2. \A p \in Req \ {q} : answers'[p] = answers[p]
    BY <1>0, <2>1
  <2>3. q = r
    BY <2>2
  <2>4. answers'[q] = Append(<<>>, value)
    BY <1>0, <1>10, <2>1
  <2>5. Append(<<>>, value) = <<value>>
    OBVIOUS
  <2> QED
    BY <1>10, <2>2, <2>3, <2>4, <2>5
<1>11. ASSUME NEW q \in Req, NEW value, Emit(q, value)
       PROVE  answers' = answers \/ answers' = [answers EXCEPT ![q] = Append(@, value)]
  BY <1>11 DEF Emit
<1> DEFINE Goal == \E value : answers'[r] = <<value>> /\ Answers(r, value)
           Rest == /\ answers[r] = <<>>
                   /\ \A q \in Req \ {r} : answers'[q] = answers[q]
<1>12. CASE Reject \/ Fail
  <2>1. current \in Req /\ answers[current] = <<>>
    <3>1. pc[Main] \in {"admit", "fail"}
      BY <1>12 DEF Reject, Fail
    <3> QED
      BY <1>0, <3>1 DEF Inv, ControlOK, LineInv, AnswerInv, MainAt, Submitting
  <2>2. PICK value \in {"rejected", "uncertain"} :
            /\ answers' = answers \/ answers' = [answers EXCEPT ![current] = Append(@, value)]
            /\ \/ value = "rejected" /\ Reject
               \/ value = "uncertain" /\ Fail /\ current \notin Notification
    <3>1. CASE Reject
      BY <1>11, <2>1, <3>1 DEF Reject
    <3>2. CASE Fail
      BY <1>1, <1>11, <2>1, <3>2 DEF Fail
    <3> QED
      BY <1>12, <3>1, <3>2
  <2>3. current = r /\ answers'[r] = <<value>> /\ Rest
    BY <1>10, <2>1, <2>2
  <2> QED
    BY <1>9, <2>2, <2>3 DEF Answers
<1>13. ASSUME NEW q \in Req, Receive(q) \/ GiveUp(q)
       PROVE  Goal /\ Rest
  <2>1. answers[q] = <<>>
    BY <1>0, <1>13 DEF AnswerInv, Receive, GiveUp
  <2>2. PICK value : /\ answers' = answers \/ answers' = [answers EXCEPT ![q] = Append(@, value)]
                     /\ Answers(q, value)
    <3>1. CASE Receive(q)
      <4>1. slot[q] # "cancelled" /\ slot[q] # "empty" /\ Emit(q, AnswerFor(slot[q]))
        BY <1>1, <3>1 DEF Receive, IsSilent
      <4>2. Answers(q, AnswerFor(slot[q]))
        BY <1>0, <3>1, <4>1 DEF Answers, AnswerFor, Slot
      <4> QED
        BY <1>11, <4>1, <4>2
    <3>2. CASE GiveUp(q)
      BY <1>11, <3>2 DEF GiveUp, Answers
    <3> QED
      BY <1>13, <3>1, <3>2
  <2>3. q = r /\ answers'[r] = <<value>> /\ Rest
    BY <1>10, <2>1, <2>2
  <2> QED
    BY <2>2, <2>3
<1>14. ASSUME NEW q \in Req, \/ TimeOut(q) \/ TimerFires(q) \/ CancelLate(q)
                             \/ Expire(Waiter(q), q, "giveup") \/ Expire(Timer(q), q, "done")
       PROVE  FALSE
  BY <1>1, <1>14 DEF TimeOut, TimerFires, CancelLate, Expire
<1>15. CASE EnsureCurrent \/ SpawnFails \/ Snapshot \/ Unwind \/ Exit \/ ReadEOF \/ Expire(Main, current, "read")
  BY <1>1, <1>15 DEF EnsureCurrent, SpawnFails, Snapshot, Unwind, Exit, ReadEOF, Expire
<1> QED
  BY <1>8, <1>9, <1>12, <1>13, <1>14, <1>15 DEF Moves

LEMMA ReplyStep ==
    ASSUME Inv, ServiceInv, [Next]_vars, NEW r \in Req
    PROVE  ReplyInv(r)'
<1>0. ReplyInv(r) /\ StartInv(r) /\ OnceInv(r) /\ SlotInv(r)
  BY DEF ServiceInv
<1>1. CASE answers'[r] = answers[r]
  <2> SUFFICES ASSUME answers[r] = <<"rejected">>
               PROVE  started'[r] = 0 /\ ~InStdin(r)' /\ ~InWork(r)'
    BY <1>0, <1>1 DEF ReplyInv, InStdin, InWork
  <2>1. started[r] = 0 /\ ~InStdin(r) /\ ~InWork(r)
    BY <1>0 DEF ReplyInv
  <2>2. ~(Write /\ r = current)
    <3>1. Write => answers[current] = <<>>
      BY WriteFacts DEF Inv, AnswerInv, Submitting
    <3> QED
      BY <3>1
  <2> QED
    BY <2>1, <2>2, FlowStep
<1>2. CASE answers'[r] # answers[r]
  <2>1. PICK value : answers'[r] = <<value>> /\ Answers(r, value)
    BY <1>2, AnswerCases
  <2>2. UNCHANGED <<toWorker, work, started>>
    BY <1>2, AnswerCases DEF channelVars, workerVars
  <2>3. value # "wrong"
    BY <1>0, <2>1 DEF Answers, Receive, SlotInv
  <2>4. value = "rejected" => started[r] = 0 /\ ~InStdin(r) /\ ~InWork(r)
    <3>1. value = "rejected" => r = current /\ MainAt = "admit"
      BY <2>1 DEF Answers, Reject, MainAt
    <3>2. value = "rejected" => Unsent(r)
      BY <3>1 DEF Unsent, Submitting
    <3> QED
      BY <1>0, <3>2 DEF OnceInv, StartInv
  <2> QED
    BY <2>1, <2>2, <2>3, <2>4 DEF ReplyInv, InStdin, InWork
<1> QED
  BY <1>1, <1>2

LEMMA InitService == Init => ServiceInv
<1> SUFFICES ASSUME Init
             PROVE  ServiceInv
  OBVIOUS
<1>0. Inv
  BY InitInv
<1>1. /\ toWorker = <<>> /\ fromWorker = <<>> /\ alive = FALSE /\ code = 0 /\ queue = <<>>
      /\ work = [r \in Req |-> "idle"] /\ started = [r \in Req |-> 0] /\ flagged = {}
      /\ process = 0 /\ generation = 0 /\ loaded = 0 /\ current = None /\ unread = Req
      /\ pending = [k \in Key |-> None] /\ gen = [r \in Req |-> 0]
      /\ cancelled = [r \in Req |-> FALSE] /\ slot = [r \in Req |-> "empty"]
      /\ answers = [r \in Req |-> <<>>] /\ hand = [g \in Generation |-> None]
      /\ pc = [t \in Thread |-> IF t = Main THEN "read" ELSE "none"]
  BY DEF Init, SupInit, WorkerInit, FreshWork
<1>2. KeyOf \in [Req -> Key] /\ None \notin Req /\ Notification \subseteq Req /\ MaxInFlight \in Nat \ {0}
  BY ChannelAssumption
<1>3. \A r \in Req : /\ ~Registered(r) /\ ~InStdin(r) /\ ~InWork(r) /\ ~InStdout(r)
                     /\ \A g \in Generation : ~InHand(r, g)
  BY <1>1, <1>2, EmptyHolds DEF Registered, InStdin, InWork, InStdout, InHand
<1>4. /\ pc[Main] = "read" /\ MainAt = "read" /\ \A t \in Thread : pc[t] # "stopping"
      /\ \A r \in Req : pc[Waiter(r)] = "none" /\ pc[Timer(r)] = "none"
  BY <1>1, ThreadsDiffer DEF ThreadNames, MainAt
<1>5. ASSUME NEW r \in Req
      PROVE  OnceInv(r) /\ StartInv(r) /\ SlotInv(r) /\ ReplyInv(r)
  BY <1>1, <1>3, <1>4, EmptyHolds DEF OnceInv, StartInv, SlotInv, ReplyInv, Returning
<1>6. NoteInv /\ QueueInv /\ AccountInv /\ CorrelationInv /\ WriteInv
  BY <1>1, <1>2, <1>3, <1>4, EmptyHolds DEF NoteInv, QueueInv, AccountInv, CorrelationInv, WriteInv, Returning
<1>7. ProcessInv
  BY <1>1, <1>3, <1>4 DEF ProcessInv
<1>8. TableInv
  BY <1>1, <1>2, <1>3, <1>4 DEF TableInv, Submitting, PreAdmit
<1>9. RoomInv
  <2>1. Unfinished = {}
    BY <1>3 DEF Unfinished
  <2> QED
    BY <1>2, <2>1, FS_EmptySet DEF RoomInv
<1> QED
  BY <1>5, <1>6, <1>7, <1>8, <1>9 DEF ServiceInv

LEMMA NextService ==
    ASSUME Inv, ServiceInv, [Next]_vars
    PROVE  ServiceInv'
<1>1. ASSUME NEW r \in Req
      PROVE  OnceInv(r)' /\ StartInv(r)' /\ SlotInv(r)' /\ ReplyInv(r)'
  BY PlaceStep, SlotStep, ReplyStep
<1>2. NoteInv' /\ QueueInv' /\ ProcessInv' /\ TableInv' /\ RoomInv' /\ AccountInv' /\ CorrelationInv' /\ WriteInv'
  BY NoteStep, QueueStep, ProcessStep, TableStep, RoomStep, AccountStep, CorrelationStep, WriteStep
<1> QED
  BY <1>1, <1>2 DEF ServiceInv

LEMMA SpecService == Spec => [](Inv /\ ServiceInv)
<1>1. Init => Inv /\ ServiceInv
  BY InitInv, InitService
<1>2. Inv /\ ServiceInv /\ [Next]_vars => (Inv /\ ServiceInv)'
  BY NextInv, NextService
<1> QED
  BY <1>1, <1>2, PTL DEF Spec

-----------------------------------------------------------------------------
(* What the runs check of the service.                                     *)

\* A response never reaches another request than the one it was written for,
\* whatever ids the client uses again and however late a line comes back:
\* _deliver_response() compares the id and the generation, and the worker
\* never has two requests with one id.
THEOREM SpecAnswersCorrelated == Spec => []AnswersCorrelated
<1>1. Inv /\ ServiceInv => AnswersCorrelated
  <2> SUFFICES ASSUME Inv, ServiceInv, NEW r \in Req, NEW i \in DOMAIN answers[r], answers[r][i] = "wrong"
               PROVE  FALSE
    BY DEF AnswersCorrelated
  <2>1. answers[r] \in Seq(Answer) /\ Len(answers[r]) <= 1 /\ answers[r] # <<"wrong">>
    BY DEF Inv, DataOK, SupDataOK, AnswerInv, ServiceInv, ReplyInv
  <2>2. answers[r] = <<"wrong">>
    <3>1. DOMAIN answers[r] = 1 .. Len(answers[r])
      BY <2>1
    <3>2. i = 1 /\ Len(answers[r]) = 1
      BY <2>1, <3>1
    <3> QED
      BY <2>1, <3>2
  <2> QED
    BY <2>1, <2>2
<1> QED
  BY <1>1, SpecService, PTL

\* Everything a living worker has in its pipe or still works on, cancelled or
\* not, is registered with the supervisor under its id and generation: no id
\* or slot is given away while its work goes on.
THEOREM SpecWorkIsAccounted == Spec => []WorkIsAccounted
<1>1. Inv /\ ServiceInv => WorkIsAccounted
  <2> SUFFICES ASSUME Inv, ServiceInv, alive, NEW r \in Req \ Notification,
                      r \in Admitted \/ \E i \in DOMAIN toWorker : toWorker[i] = RequestLine(r)
               PROVE  Registered(r) /\ gen[r] = generation
    BY DEF WorkIsAccounted
  <2>1. InWork(r) \/ InStdin(r)
    BY DEF InWork, InStdin, Holds, Admitted
  <2> QED
    BY <2>1 DEF ServiceInv, AccountInv
<1> QED
  BY <1>1, SpecService, PTL

\* README: -32097 is sent only for a request that has not been executed, and
\* it never will be.
THEOREM SpecRejectedNeverStarts == Spec => []RejectedNeverStarts
<1>1. Inv /\ ServiceInv => RejectedNeverStarts
  BY DEF RejectedNeverStarts, ServiceInv, ReplyInv
<1> QED
  BY <1>1, SpecService, PTL

\* A tool starts at most once for a request, over all worker processes.
THEOREM SpecStartedAtMostOnce == Spec => []StartedAtMostOnce
<1>1. Inv /\ ServiceInv => StartedAtMostOnce
  BY DEF StartedAtMostOnce, ServiceInv, StartInv
<1> QED
  BY <1>1, SpecService, PTL

\* How the steps of the supervisor change the identities it holds.
LEMMA ReloadCases ==
    ASSUME Inv, ServiceInv, [Next]_vars
    PROVE  \/ UNCHANGED <<process, loaded, reload>>
           \/ process' = 0 /\ ~reload'
           \/ process # 0 /\ loaded # 0 /\ loaded # source /\ UNCHANGED <<process, loaded, source>>
           \/ Spawn /\ Aftermath /\ reload' = reload
<1> DEFINE Goal == \/ UNCHANGED <<process, loaded, reload>>
                   \/ process' = 0 /\ ~reload'
                   \/ process # 0 /\ loaded # 0 /\ loaded # source /\ UNCHANGED <<process, loaded, source>>
<1>0. TableInv
  BY DEF ServiceInv
<1>1. ASSUME NEW t, NEW next, StopBegin(t, next)
      PROVE  process' = 0 /\ ~reload'
  BY <1>1 DEF StopBegin
<1>2. CASE Moves
  <2>1. CASE EnsureCurrent
    BY <1>1, <2>1 DEF EnsureCurrent, Defer
  <2>2. ASSUME NEW t, NEW r, NEW next, Expire(t, r, next)
        PROVE  Goal
    BY <1>1, <2>2 DEF Expire
  <2>3. CASE Unwind \/ ReadEOF
    BY <1>1, <2>3 DEF Unwind, ReadEOF
  <2>4. CASE SpawnFails \/ Snapshot \/ Reject \/ Fail \/ Exit
    BY <2>4 DEF SpawnFails, Snapshot, Reject, Fail, Exit
  <2>5. ASSUME NEW r \in Req, Receive(r) \/ TimeOut(r) \/ GiveUp(r) \/ TimerFires(r) \/ CancelLate(r)
        PROVE  Goal
    BY <2>5 DEF Receive, TimeOut, GiveUp, TimerFires, CancelLate
  <2> QED
    BY <1>2, <2>1, <2>2, <2>3, <2>4, <2>5 DEF Moves
<1>3. ASSUME NEW t, StopEnd(t)
      PROVE  Goal
  BY <1>3 DEF StopEnd
<1>4. ASSUME NEW t, NEW r, NEW next, Notify(t, r, next)
      PROVE  Goal
  BY <1>4 DEF Notify
<1>5. ASSUME NEW t, NEW r, Marks(t, r)
      PROVE  Goal
  BY <1>0, <1>5, MarkFacts
<1>6. CASE Admit \/ Write \/ WriteFails \/ \E r \in Req : ReadLine(r)
  BY <1>6 DEF Admit, Write, WriteFails, ReadLine
<1>7. CASE Spawn /\ Aftermath
  BY <1>7 DEF Spawn
<1>8. ASSUME NEW g \in Generation, ReaderStep(g)
      PROVE  Goal
  <2>1. CASE TakeLine(g)
    BY <2>1 DEF TakeLine
  <2>2. CASE ~TakeLine(g)
    BY <1>0, <1>8, <2>2, ReaderFacts DEF Delivers
  <2> QED
    BY <2>1, <2>2
<1>9. CASE ~SupervisorRuns
  BY <1>9 DEF Next, WorkerRuns, Surroundings, ReplaceSource, Boot, Crash, Babble, Exited, vars, supVars
<1> QED
  BY <1>2, <1>3, <1>4, <1>5, <1>6, <1>7, <1>8, <1>9, SupervisorCases

LEMMA CodeCases ==
    ASSUME Inv, ServiceInv, [Next]_vars
    PROVE  /\ code' \in {code, 0} \/ (code' = source /\ UNCHANGED <<source, process, loaded, reload>>)
           /\ source' = source \/ (ReplaceSource /\ UNCHANGED code)
<1>0. TableInv
  BY DEF ServiceInv
<1>1. CASE SupervisorRuns
  <2>1. source' = source
    <3>1. ASSUME NEW g \in Generation, ReaderStep(g)
          PROVE  source' = source
      <4>1. CASE TakeLine(g)
        BY <4>1 DEF TakeLine
      <4>2. CASE ~TakeLine(g)
        BY <1>0, <3>1, <4>2, ReaderFacts DEF Delivers
      <4> QED
        BY <4>1, <4>2
    <3>2. CASE Moves
      BY <3>2, MovesFrame
    <3>3. ASSUME NEW t, StopEnd(t)
          PROVE  source' = source
      BY <3>3 DEF StopEnd
    <3>4. ASSUME NEW t, NEW r, NEW next, Notify(t, r, next)
          PROVE  source' = source
      BY <3>4 DEF Notify
    <3>5. ASSUME NEW t, NEW r, Marks(t, r)
          PROVE  source' = source
      BY <1>0, <3>5, MarkFacts
    <3>6. CASE Spawn \/ Admit \/ Write \/ WriteFails \/ \E r \in Req : ReadLine(r)
      BY <3>6 DEF Spawn, Admit, Write, WriteFails, ReadLine
    <3> QED
      BY <1>1, <3>1, <3>2, <3>3, <3>4, <3>5, <3>6, SupervisorCases
  <2>2. code' \in {code, 0}
    BY <1>1, SupervisorCases DEF Aftermath
  <2> QED
    BY <2>1, <2>2
<1>2. CASE ~SupervisorRuns
  BY <1>2 DEF Next, WorkerRuns, Surroundings, ReplaceSource, Boot, Crash, Babble, Exited, vars, supVars
<1> QED
  BY <1>1, <1>2

LEMMA NextVersion ==
    ASSUME Inv, ServiceInv, VersionInv, ~Rollback, [Next]_vars
    PROVE  VersionInv'
<1>0. /\ source \in Nat /\ loaded \in Nat /\ code \in Nat /\ source' \in Nat
      /\ process # 0 => loaded # 0
  <2>1. Inv'
    BY NextInv
  <2>2. source' \in Version
    BY <2>1 DEF Inv, DataOK, SupDataOK
  <2>3. source \in Version /\ loaded \in Version \cup {0}
    BY DEF Inv, DataOK, SupDataOK
  <2>4. code \in Version \cup {0}
    BY DEF Inv, DataOK, RestOK
  <2>5. process # 0 => loaded # 0
    BY DEF ServiceInv, ProcessInv
  <2>6. Version \subseteq Nat
    BY SupervisorAssumption
  <2> QED
    BY <2>2, <2>3, <2>4, <2>5, <2>6
<1>1. source' >= source
  BY <1>0, CodeCases DEF ReplaceSource
<1>2. CASE Spawn /\ Aftermath /\ reload' = reload
  <2>1. process = 0 /\ loaded' = source /\ code' = 0 /\ source' = source
    BY <1>2, SpawnFacts
  <2> QED
    BY <1>0, <1>2, <2>1 DEF VersionInv
<1>3. CASE process' = 0 /\ ~reload'
  BY <1>3 DEF VersionInv
<1>4. CASE process # 0 /\ loaded # 0 /\ loaded # source /\ UNCHANGED <<process, loaded, source>>
  BY <1>0, <1>4, CodeCases DEF VersionInv
<1>5. CASE UNCHANGED <<process, loaded, reload>>
  BY <1>0, <1>1, <1>5, CodeCases DEF VersionInv
<1> QED
  BY <1>2, <1>3, <1>4, <1>5, ReloadCases

LEMMA SpecVersion == ~Rollback => (Spec => [](Inv /\ ServiceInv /\ VersionInv))
<1> SUFFICES ASSUME ~Rollback
             PROVE  Spec => [](Inv /\ ServiceInv /\ VersionInv)
  OBVIOUS
<1>1. Init => Inv /\ ServiceInv /\ VersionInv
  BY InitInv, InitService DEF Init, SupInit, VersionInv
<1>2. Inv /\ ServiceInv /\ VersionInv /\ [Next]_vars => (Inv /\ ServiceInv /\ VersionInv)'
  BY NextInv, NextService, NextVersion
<1> QED
  BY <1>1, <1>2, PTL DEF Spec

\* When no source is ever put back, a worker that is held under the identity
\* now on disk runs that source, though it read it some time after start()
\* took the identity.
THEOREM SpecCurrentIdentityCurrentCode == ~Rollback => (Spec => []CurrentIdentityCurrentCode)
<1> SUFFICES ASSUME ~Rollback
             PROVE  Spec => []CurrentIdentityCurrentCode
  OBVIOUS
<1>1. Inv /\ VersionInv => CurrentIdentityCurrentCode
  <2> SUFFICES ASSUME Inv, VersionInv, process # 0, code # 0, loaded = source
               PROVE  code = source
    BY DEF CurrentIdentityCurrentCode
  <2>1. source \in Nat /\ code \in Nat /\ loaded <= code /\ code <= source
    BY SupervisorAssumption DEF Inv, DataOK, SupDataOK, RestOK, VersionInv
  <2> QED
    BY <2>1
<1> QED
  BY <1>1, SpecVersion, PTL

\* When no source is ever put back, ensure_current() ends a running worker for
\* a changed source only when the worker has no request left, cancelled ones
\* included.
THEOREM SpecReloadWaitsForWork == ~Rollback => (Spec => ReloadWaitsForWork)
<1> SUFFICES ASSUME ~Rollback
             PROVE  Spec => ReloadWaitsForWork
  OBVIOUS
<1>1. ASSUME Inv, ServiceInv, VersionInv, [Next]_vars,
             pc[Main] = "ensure", pc'[Main] = "stopping", alive, source \notin Missing
      PROVE  Admitted = {}
  <2>1. EnsureCurrent
    <3>0. TableInv /\ Places(pc) /\ ThreadNames
      BY <1>1, ThreadsDiffer DEF ServiceInv, Inv, ControlOK
    <3>1. ASSUME NEW t \in Thread, NEW l, t # Main, GoTo(t, l) \/ StopBegin(t, l)
          PROVE  FALSE
      BY <1>1, <3>0, <3>1, GoFacts, StopBeginFacts DEF ThreadNames
    <3>2. CASE Moves
      <4>1. ASSUME NEW r \in Req, \/ Receive(r) \/ TimeOut(r) \/ GiveUp(r) \/ TimerFires(r)
                                  \/ CancelLate(r) /\ UNCHANGED cancelled
                                  \/ Expire(Waiter(r), r, "giveup") \/ Expire(Timer(r), r, "done")
            PROVE  FALSE
        <5>1. Waiter(r) \in Thread /\ Timer(r) \in Thread /\ Waiter(r) # Main /\ Timer(r) # Main
          BY <3>0 DEF ThreadNames
        <5>2. CASE CancelLate(r) /\ UNCHANGED cancelled
          <6>1. UNCHANGED cancelled /\ cancelled \in [Req -> BOOLEAN]
            BY <1>1, <5>2, PipeTypes
          <6>2. GoTo(Waiter(r), "giveup")
            BY <5>2, <6>1 DEF CancelLate, Mark
          <6> QED
            BY <3>1, <5>1, <6>2
        <5>3. CASE Receive(r) \/ TimeOut(r) \/ GiveUp(r) \/ TimerFires(r)
          BY <3>1, <5>1, <5>3 DEF Receive, TimeOut, GiveUp, TimerFires
        <5>4. CASE Expire(Waiter(r), r, "giveup") \/ Expire(Timer(r), r, "done")
          BY <3>1, <5>1, <5>4 DEF Expire
        <5> QED
          BY <4>1, <5>2, <5>3, <5>4
      <4>2. ~SpawnFails /\ ~Snapshot /\ ~Reject /\ ~Unwind /\ ~Fail /\ ~Exit /\ ~ReadEOF
            /\ ~Expire(Main, current, "read")
        BY <1>1 DEF SpawnFails, Snapshot, Reject, Unwind, Fail, Exit, ReadEOF, Expire
      <4> QED
        BY <3>2, <4>1, <4>2 DEF Moves
    <3>3. ASSUME NEW t \in Thread, StopEnd(t)
          PROVE  FALSE
      BY <1>1, <3>0, <3>3, StopEndOnward DEF ThreadNames
    <3>4. ASSUME NEW t, NEW r, NEW next, Notifies(t, r, next), Notify(t, r, next)
          PROVE  FALSE
      BY <1>1, <3>0, <3>4, NotifyOnward DEF ThreadNames
    <3>5. ASSUME NEW t, NEW r, Marks(t, r)
          PROVE  FALSE
      BY <1>1, <3>0, <3>5, MarkFacts DEF ThreadNames
    <3>6. ~Spawn /\ ~Admit /\ ~Write /\ ~WriteFails /\ \A r \in Req : ~ReadLine(r)
      BY <1>1 DEF Spawn, Admit, Write, WriteFails, ReadLine
    <3>7. ASSUME NEW g \in Generation, ReaderStep(g)
          PROVE  FALSE
      <4>1. CASE TakeLine(g)
        BY <1>1, <4>1 DEF TakeLine
      <4>2. CASE ~TakeLine(g)
        BY <1>1, <3>0, <3>7, <4>2, ReaderFacts, SettleOnward DEF Delivers
      <4> QED
        BY <4>1, <4>2
    <3>8. SupervisorRuns
      BY <1>1 DEF Next, WorkerRuns, Surroundings, ReplaceSource, Boot, Crash, Babble, Exited, vars, supVars
    <3> QED
      BY <3>2, <3>3, <3>4, <3>5, <3>6, <3>7, <3>8, SupervisorCases
  <2>2. process # 0 /\ ~WorkLeft
    <3>1. pc'[Main] = "stopping" /\ (GoTo(Main, "snap") \/ StopBegin(Main, "spawn"))
      BY <1>1, <2>1 DEF EnsureCurrent
    <3>0. Places(pc) /\ Main \in Thread
      BY <1>1, ThreadsDiffer DEF ThreadNames, Inv, ControlOK
    <3>3. ~GoTo(Main, "snap")
      BY <3>0, <3>1, GoFacts
    <3>2. StopBegin(Main, "spawn") /\ process # 0
      <4>1. StopBegin(Main, "spawn")
        BY <3>1, <3>3
      <4>2. process = 0 => pc'[Main] = "spawn"
        BY <3>0, <4>1, StopBeginFacts
      <4> QED
        BY <3>1, <4>1, <4>2
    <3>4. /\ loaded # 0
          /\ reload => loaded # source
      <4>1. loaded \in Nat /\ source \in Nat
        BY <1>1, SupervisorAssumption DEF Inv, DataOK, SupDataOK
      <4> QED
        BY <1>1, <3>2, <4>1 DEF ServiceInv, ProcessInv, VersionInv
    <3> QED
      BY <1>1, <2>1, <3>2, <3>3, <3>4 DEF EnsureCurrent
  <2>3. ASSUME NEW r \in Admitted
        PROVE  r \in UnfinishedOf(generation)
    <3>1. r \in Req /\ InWork(r)
      BY DEF Admitted, InWork
    <3>2. r \notin Notification
      BY <1>1, <3>1 DEF ServiceInv, NoteInv
    <3>3. Registered(r) /\ gen[r] = generation
      BY <1>1, <3>1, <3>2 DEF ServiceInv, AccountInv
    <3> QED
      BY <3>1, <3>3 DEF UnfinishedOf, Unfinished
  <2> QED
    BY <2>2, <2>3 DEF WorkLeft
<1> DEFINE Step == (/\ pc[Main] = "ensure" /\ pc'[Main] = "stopping"
                    /\ alive /\ source \notin Missing) => Admitted = {}
<1>2. Inv /\ ServiceInv /\ VersionInv /\ [Next]_vars => [Step]_vars
  BY <1>1
<1>3. (Spec => [](Inv /\ ServiceInv /\ VersionInv))
  BY SpecVersion
<1>4. Spec => [][Step]_vars
  BY <1>2, <1>3, PTL DEF Spec
<1> QED
  BY <1>4 DEF ReloadWaitsForWork

-----------------------------------------------------------------------------
(* The system implements the request service.                              *)

\* A tool starts by a step of its worker, which the supervisor does not see.
LEMMA StartCases ==
    ASSUME Inv, ServiceInv, [Next]_vars, NEW r \in Req, started'[r] # started[r]
    PROVE  /\ UNCHANGED supVars
           /\ InWork(r) /\ started[r] = 0 /\ started'[r] = 1
           /\ \A q \in Req \ {r} : started'[q] = started[q]
<1>0. started \in [Req -> Nat] /\ started'[r] \in Nat /\ alive \in BOOLEAN
  BY PipeTypes, NextInv DEF Inv, RestOK, WorkerTypeOK
<1>1. started[r] = 0 /\ started'[r] = 1 /\ InWork(r)
  <2>1. started[r] \in Nat /\ started[r] <= 1 /\ started'[r] <= 1
    BY <1>0, NextService DEF ServiceInv, StartInv
  <2>2. started[r] = 1 => started'[r] = 1
    BY FlowStep
  <2>3. InWork(r)
    BY FlowStep
  <2> QED
    BY <1>0, <2>1, <2>2, <2>3
<1>2. ASSUME Aftermath
      PROVE  FALSE
  BY <1>0, <1>2, WorkStaysOrIsLost
<1>3. UNCHANGED supVars /\ \E q \in Req : WorksOn(q) \/ SendResult(q) \/ SendFinished(q)
  BY <1>2, PlaceCases DEF Shrinks
<1>4. PICK q \in Req : WorksOn(q) \/ SendResult(q) \/ SendFinished(q)
  BY <1>3
<1>5. started' \in {started, [started EXCEPT ![q] = @ + 1]}
  BY <1>4 DEF WorksOn, Dispatch, Take, Lock, Pop, Return, Refuse, MoveOn, SendResult, SendFinished
<1> QED
  BY <1>0, <1>1, <1>3, <1>5

\* Lines are read by ReadLine alone.
LEMMA UnreadCases ==
    ASSUME Inv, ServiceInv, [Next]_vars, unread' # unread
    PROVE  \E r \in Req : ReadLine(r)
<1>0. TableInv
  BY DEF ServiceInv
<1>1. ASSUME NEW t, NEW r, Marks(t, r)
      PROVE  unread' = unread
  BY <1>0, <1>1, MarkFacts
<1>2. CASE Admit \/ Write \/ WriteFails
  BY <1>2 DEF Admit, Write, WriteFails
<1> QED
  BY <1>1, <1>2, TableCases DEF Settles

\* Answers are emitted as the service replies.
LEMMA AnswerImplements ==
    ASSUME Inv, ServiceInv, [Next]_vars, NEW r \in Requests, answers'[r] # answers[r],
           started' = started
    PROVE  Promise!Result(r) \/ Promise!Reject(r) \/ Promise!Uncertain(r)
<1>0. r \in Req /\ r \notin Notification
  BY DEF Requests
<1>1. /\ answers[r] = <<>>
      /\ \A q \in Req \ {r} : answers'[q] = answers[q]
      /\ UNCHANGED <<started, unread, cancelled>>
  BY <1>0, AnswerCases
<1>2. PICK value : answers'[r] = <<value>> /\ Answers(r, value)
  BY <1>0, AnswerCases
<1>6. r \notin unread => Promise!Reply(r, value)
  <2>1. ReplyOf(r) = "none" /\ ReplyOf(r)' = value
    BY <1>1, <1>2 DEF ReplyOf
  <2>2. \A q \in Requests \ {r} : ReplyOf(q)' = ReplyOf(q)
    BY <1>1 DEF ReplyOf, Requests
  <2>3. [q \in Requests |-> ReplyOf(q)]' = [[q \in Requests |-> ReplyOf(q)] EXCEPT ![r] = value]
    BY <2>1, <2>2
  <2> QED
    BY <1>0, <1>1, <2>1, <2>3 DEF Promise!Reply
<1>3. CASE Reject /\ r = current /\ value = "rejected"
  <2>1. Unsent(r) /\ MainAt \in Submitting
    BY <1>3 DEF Unsent, MainAt, Submitting, Reject
  <2>2. started[r] = 0 /\ ~cancelled[r] /\ r \notin unread
    BY <1>0, <1>3, <2>1 DEF ServiceInv, StartInv, TableInv, Inv, AnswerInv
  <2> QED
    BY <1>1, <1>6, <1>3, <2>2 DEF Promise!Reject
<1>4. CASE value = "uncertain"
  <2>1. r \notin unread
    BY <1>0, <1>2, <1>4 DEF Answers, Fail, Receive, GiveUp, Reject, Inv, AnswerInv, MainAt, Submitting
  <2> QED
    BY <1>1, <1>6, <1>4, <2>1 DEF Promise!Uncertain
<1>5. CASE Receive(r) /\ value \in {"result", "wrong"} /\ slot[r] = value
  <2>1. pc[Waiter(r)] = "wait"
    BY <1>5 DEF Receive
  <2>2. r \notin unread
    BY <2>1 DEF Inv, AnswerInv
  <2>3. value = "result" /\ started[r] = 1 /\ ~cancelled[r]
    BY <1>0, <1>5, <2>1 DEF ServiceInv, SlotInv
  <2> QED
    BY <1>1, <1>6, <2>2, <2>3 DEF Promise!Result
<1> QED
  BY <1>2, <1>3, <1>4, <1>5 DEF Answers

\* A request that is marked as cancelled is still open.
LEMMA CancelImplements ==
    ASSUME Inv, ServiceInv, [Next]_vars, NEW r \in Req, cancelled'[r] # cancelled[r],
           started' = started
    PROVE  r \in Requests /\ Promise!Withdraw(r)
<1>0. TableInv
  BY DEF ServiceInv
<1>1. PICK t : Marks(t, r)
  BY CancelCases
<1>2. /\ Registered(r) /\ ~cancelled[r]
      /\ cancelled' = [cancelled EXCEPT ![r] = TRUE] /\ cancelled \in [Req -> BOOLEAN]
      /\ UNCHANGED <<unread, answers>>
      /\ \/ t = Main /\ pc[Main] = "read" /\ r \notin Initialize
         \/ t = Waiter(r) /\ pc[t] = "late"
  BY <1>0, <1>1, MarkFacts, PipeTypes
<1>3. r \notin Notification /\ r \notin unread
  BY <1>0, <1>2 DEF TableInv
<1>4. pc[Waiter(r)] \in {"wait", "late"}
  BY <1>0, <1>2 DEF TableInv
<1>5. answers[r] = <<>>
  BY <1>4 DEF Inv, AnswerInv
<1>6. {q \in Requests : cancelled'[q]} = {q \in Requests : cancelled[q]} \cup {r}
  BY <1>2, <1>3 DEF Requests
<1> QED
  BY <1>2, <1>3, <1>5, <1>6 DEF Promise!Withdraw, ReplyOf, Requests

\* Every step is a step of the service or invisible to it.
LEMMA ServiceStep ==
    ASSUME Inv, ServiceInv, [Next]_vars
    PROVE  [Promise!ServiceNext]_(Promise!serviceVars)
<1>0. /\ started \in [Req -> Nat] /\ started' \in [Req -> Nat]
      /\ answers \in [Req -> Seq(Answer)] /\ answers' \in [Req -> Seq(Answer)]
      /\ cancelled \in [Req -> BOOLEAN] /\ cancelled' \in [Req -> BOOLEAN]
  BY NextInv DEF Inv, DataOK, SupDataOK, RestOK, WorkerTypeOK
<1>1. CASE started' # started
  <2>1. PICK r \in Req : started'[r] # started[r]
    BY <1>0, <1>1
  <2>2. /\ UNCHANGED supVars
        /\ InWork(r) /\ started[r] = 0 /\ started'[r] = 1
        /\ \A q \in Req \ {r} : started'[q] = started[q]
    BY <2>1, StartCases
  <2>3. r \in Requests
    BY <2>2 DEF ServiceInv, NoteInv, Requests
  <2>4. r \notin unread
    BY <2>2 DEF ServiceInv, OnceInv, Unsent
  <2>5. ReplyOf(r) # "rejected"
    <3>1. answers[r] # <<"rejected">>
      BY <2>2 DEF ServiceInv, ReplyInv
    <3>2. answers[r] \in Seq(Answer) /\ Len(answers[r]) <= 1
      BY <1>0 DEF Inv, AnswerInv
    <3> QED
      BY <3>1, <3>2 DEF ReplyOf
  <2>6. Promise!Run(r)
    <3>1. [q \in Requests |-> started'[q]] = [[q \in Requests |-> started[q]] EXCEPT ![r] = 1]
      BY <1>0, <2>2, <2>3 DEF Requests
    <3>2. UNCHANGED <<unread, answers, cancelled>>
      BY <2>2 DEF supVars
    <3> QED
      BY <2>2, <2>3, <2>4, <2>5, <3>1, <3>2 DEF Promise!Run, ReplyOf
  <2> QED
    BY <2>3, <2>6 DEF Promise!ServiceNext
<1>2. CASE started' = started /\ \E r \in Requests : answers'[r] # answers[r]
  BY <1>2, AnswerImplements DEF Promise!ServiceNext
<1>3. CASE started' = started /\ cancelled' # cancelled
  <2>1. PICK r \in Req : cancelled'[r] # cancelled[r]
    BY <1>0, <1>3
  <2> QED
    BY <1>3, <2>1, CancelImplements DEF Promise!ServiceNext
<1>4. CASE /\ UNCHANGED <<started, cancelled>>
           /\ \A r \in Requests : answers'[r] = answers[r]
  <2>1. CASE unread' = unread
    BY <1>4, <2>1 DEF Promise!serviceVars, ReplyOf
  <2>2. ASSUME NEW r \in Req, ReadLine(r)
        PROVE  [Promise!ServiceNext]_(Promise!serviceVars)
    <3>1. r \in unread /\ unread' = unread \ {r}
      BY <2>2 DEF ReadLine
    <3>2. CASE r \in Notification
      BY <1>4, <3>1, <3>2 DEF Promise!serviceVars, ReplyOf, Requests
    <3>3. CASE r \notin Notification
      <4>1. Promise!Ask(r)
        BY <1>4, <3>1, <3>3 DEF Promise!Ask, ReplyOf, Requests
      <4> QED
        BY <3>3, <4>1 DEF Promise!ServiceNext, Requests
    <3> QED
      BY <3>2, <3>3
  <2> QED
    BY <2>1, <2>2, UnreadCases
<1> QED
  BY <1>1, <1>2, <1>3, <1>4

\* The supervisor, its workers and their surroundings implement the request
\* service: a request is answered at most once, its tool starts at most once
\* and never after a rejection, a result means that it ran, and no result
\* reaches a request that is cancelled.
THEOREM SpecImplementsService == Spec => ImplementsService
<1>1. Init => Promise!ServiceInit
  BY DEF Init, SupInit, WorkerInit, FreshWork, Promise!ServiceInit, ReplyOf, Requests
<1>2. Inv /\ ServiceInv /\ [Next]_vars => [Promise!ServiceNext]_(Promise!serviceVars)
  BY ServiceStep
<1> QED
  BY <1>1, <1>2, SpecService, PTL DEF Spec, ImplementsService, Promise!Service
=============================================================================
