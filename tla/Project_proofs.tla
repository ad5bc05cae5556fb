--------------------------- MODULE Project_proofs ---------------------------
(***************************************************************************)
(* What the processes that work on one project promise, for every set of   *)
(* calls, nodes and outcomes, every assignment of work and any number of   *)
(* lost answers: the calls that change nodes, then, of the project's       *)
(* folder, the logins in the credential store, the project the folder      *)
(* gets, the memory secret of that project and the registration of its     *)
(* gateway.                                                                *)
(***************************************************************************)
EXTENDS ProjectNodes, CredentialStore, ProjectBootstrap, ProjectSecrets, GatewayRegistration,
        FiniteSetTheorems, TLAPS

-----------------------------------------------------------------------------
(* The nodes.  Four arguments rest on the same two facts, how far a call   *)
(* has got with its locked writes (TodoInv) and that leases never meet     *)
(* (LeaseInv):                                                             *)
(*   - outside its locked writes a call has a lease only when an answer    *)
(*     about it was lost;                                                  *)
(*   - the lease of a bulk call or a folder move is the whole project, and *)
(*     once it is gone the call has no other (BulkInv);                    *)
(*   - what a guarded patch names is fixed before the call writes, and the *)
(*     server compares it with what the log has (PatchInv);                *)
(*   - a call gets to the archiving of the plan it closes only past a look *)
(*     or a write of its own after which the plan has the outcome, and has *)
(*     it until another call writes another (CloseInv).                    *)

Locked == {"ask", "asked", "hold", "written", "release"}

Choosing == {"upsert", "create", "agent"}

\* The locked writes a call of a kind may have left.
Shapes(kind) ==
    CASE kind = "close"    -> {<<"record", "archive">>, <<"archive">>}
      [] kind = "complete" -> {<<"card", "card">>, <<"card">>}
      [] kind = "bundle"   -> {<<"upsert", "link">>, <<"edit", "link">>, <<"create", "link">>, <<"link">>}
      [] kind \in Choosing -> {<<kind>>, <<"edit">>, <<"create">>}
      [] OTHER             -> {<<kind>>}

\* What a call finds decides which write it makes.
Turns(step, op) == op = step \/ (step \in Choosing /\ op \in {"edit", "create"})

TodoInv ==
    \A c \in Call : /\ todo[c] \in Shapes(work[c].kind)
                    /\ at[c] \in Locked => Step(c) \in Writes

\* Leases do not meet, and a call without a locked write has none.
LeaseInv ==
    /\ \A c, d \in Call : c # d => lease[c] \cap lease[d] = {}
    /\ \A c \in Call : at[c] \in {"new", "start", "ask", "done", "failed"} /\ c \notin strays => lease[c] = {}

Sweeping(c) == work[c].kind \in {"bulk", "folder"}

\* A call that sweeps the project has it to itself from its first write on, or
\* has lost its lease.
BulkInv ==
    /\ \A i \in DOMAIN log : log[i].op \in {"bulk", "folder"} => Sweeping(log[i].call)
    /\ \A c \in Call : Sweeping(c) =>
          /\ lease[c] \in {{}, Node}
          /\ \A i \in DOMAIN log : log[i].call = c =>
                /\ at[c] \notin {"new", "start", "ask", "asked"}
                /\ lease[c] # {} => \A j \in DOMAIN log : i < j => log[j].call = c

PatchInv == \A i \in DOMAIN log : at[log[i].call] # "new"

LeftInv == \A c \in Call : left[c] \subseteq work[c].nodes

\* The plan of call c has its outcome, or another call has taken it away since.
Recorded(c) ==
    \/ status[Target(c)] = work[c].outcome
    \/ \E i \in looked[c]+1 .. Len(log) : /\ log[i].call # c /\ log[i].node = Target(c)
                                         /\ log[i].status # work[c].outcome

\* A call that closes a plan has found, or recorded, its outcome when it is
\* done with the first of its two writes.
CloseInv ==
    \A c \in Call :
        /\ at[c] = "release" /\ ok[c] => left[c] = {}
        /\ work[c].kind = "close" =>
              /\ at[c] \in Locked /\ Len(todo[c]) = 2 /\ left[c] = {} => Recorded(c)
              /\ Len(todo[c]) = 1 => Recorded(c)

\* What a call has looked at is in the log.
LookedInv == \A c \in Call : looked[c] <= Len(log)

\* A call that has archived a plan to close it has nothing left, and looks no
\* more at its outcome.
ArchiveInv ==
    \A k \in DOMAIN log : LET c == log[k].call IN
        log[k].op = "archive" /\ work[c].kind = "close" =>
            /\ Len(todo[c]) = 1
            /\ log[k].status = work[c].outcome \/ Intruded(c, log[k].node, k)

NodesInv ==
    /\ NodesTypeOK
    /\ TodoInv
    /\ LeaseInv
    /\ BulkInv /\ BulkIsNotInterleaved
    /\ PatchInv /\ PatchOverwritesNothingUnseen
    /\ LeftInv /\ LookedInv /\ CloseInv /\ ArchiveInv

-----------------------------------------------------------------------------
(* The locked writes a call has left.                                      *)

LEMMA SeqEqual ==
    ASSUME NEW S, NEW s \in Seq(S), NEW t \in Seq(S), Len(s) = Len(t),
           \A i \in 1 .. Len(s) : s[i] = t[i]
    PROVE  s = t
OBVIOUS

LEMMA OneStep ==
    ASSUME NEW x \in Steps
    PROVE  /\ <<x>> \in Seq(Steps) /\ Len(<<x>>) = 1 /\ Head(<<x>>) = x /\ Tail(<<x>>) = <<>>
           /\ \A o \in Steps : <<o>> \o Tail(<<x>>) = <<o>>
OBVIOUS

LEMMA TwoSteps ==
    ASSUME NEW x \in Steps, NEW y \in Steps
    PROVE  /\ <<x, y>> \in Seq(Steps) /\ Len(<<x, y>>) = 2 /\ Head(<<x, y>>) = x /\ Tail(<<x, y>>) = <<y>>
           /\ \A o \in Steps : <<o>> \o Tail(<<x, y>>) = <<o, y>>
<1>1. Tail(<<x, y>>) = <<y>>
  OBVIOUS
<1>2. ASSUME NEW o \in Steps PROVE <<o>> \o <<y>> = <<o, y>>
  <2>1. <<o>> \in Seq(Steps) /\ <<y>> \in Seq(Steps) /\ <<o, y>> \in Seq(Steps)
    OBVIOUS
  <2>2. <<o>> \o <<y>> \in Seq(Steps) /\ Len(<<o>> \o <<y>>) = 2 /\ Len(<<o, y>>) = 2
    BY <2>1
  <2>3. \A i \in 1 .. 2 : (<<o>> \o <<y>>)[i] = <<o, y>>[i]
    BY <2>1
  <2> QED
    BY <2>1, <2>2, <2>3, SeqEqual
<1> QED
  BY <1>1, <1>2

LEMMA ShapeFacts ==
    ASSUME NEW kind \in WorkKinds, NEW s \in Shapes(kind)
    PROVE  /\ s \in Seq(Steps) /\ Len(s) \in {1, 2}
           /\ Len(s) > 1 => Tail(s) \in Shapes(kind) /\ Len(Tail(s)) = 1
           /\ \A op \in Writes : Turns(Head(s), op)
                 => LET t == <<op>> \o Tail(s) IN t \in Shapes(kind) /\ Head(t) = op /\ Len(t) = Len(s)
           /\ kind = "close" => Head(s) = IF Len(s) = 2 THEN "record" ELSE "archive"
           /\ kind \notin {"close", "complete", "bundle"} \cup Choosing => s = <<kind>>
           /\ Head(s) \in {"record", "archive"} /\ kind # "archive" => kind = "close"
           /\ Head(s) = "patch" => kind = "patch"
           /\ Head(s) \in {"bulk", "folder"} => kind = Head(s)
           /\ Head(s) = "card" => kind \in {"card", "complete"}
<1> USE DEF Shapes, Turns, Choosing
<1>0. /\ Writes \subseteq Steps
      /\ WorkKinds \ {"close", "complete", "bundle"} \subseteq Steps
      /\ {"record", "archive", "card", "upsert", "edit", "create", "agent", "link"} \subseteq Steps
      /\ "upsert" \notin Writes
  BY DEF Steps, Writes, WorkKinds
<1>1. CASE kind = "close"
  <2>1. CASE s = <<"record", "archive">>
    BY <1>0, <1>1, <2>1, OneStep, TwoSteps
  <2>2. CASE s = <<"archive">>
    BY <1>0, <1>1, <2>2, OneStep
  <2> QED
    BY <1>1, <2>1, <2>2
<1>2. CASE kind = "complete"
  <2>1. CASE s = <<"card", "card">>
    BY <1>0, <1>2, <2>1, OneStep, TwoSteps
  <2>2. CASE s = <<"card">>
    BY <1>0, <1>2, <2>2, OneStep
  <2> QED
    BY <1>2, <2>1, <2>2
<1>3. CASE kind = "bundle"
  <2>1. ASSUME NEW f \in {"upsert", "edit", "create"}, s = <<f, "link">>
        PROVE  /\ s \in Seq(Steps) /\ Len(s) = 2 /\ Head(s) = f /\ Tail(s) = <<"link">>
               /\ Len(Tail(s)) = 1
               /\ \A o \in Steps : <<o>> \o Tail(s) = <<o, "link">>
    BY <1>0, <2>1, TwoSteps, OneStep
  <2>2. ASSUME NEW f \in {"upsert", "edit", "create"}, s = <<f, "link">>, NEW op \in Writes,
               Turns(f, op)
        PROVE  LET t == <<op>> \o Tail(s) IN t \in Shapes(kind) /\ Head(t) = op /\ Len(t) = 2
    <3>1. <<op>> \o Tail(s) = <<op, "link">> /\ op \in {"edit", "create"}
      BY <1>0, <2>1, <2>2
    <3> QED
      BY <1>0, <1>3, <3>1, TwoSteps
  <2>3. CASE s = <<"link">>
    BY <1>0, <1>3, <2>3, OneStep
  <2>4. CASE \E f \in {"upsert", "edit", "create"} : s = <<f, "link">>
    <3>1. PICK f \in {"upsert", "edit", "create"} : s = <<f, "link">>
      BY <2>4
    <3> QED
      BY <1>3, <2>1, <2>2, <3>1
  <2> QED
    BY <1>3, <2>3, <2>4
<1>4. CASE kind \in Choosing
  <2>0. Shapes(kind) = {<<kind>>, <<"edit">>, <<"create">>} /\ kind \in Steps
    BY <1>0, <1>4
  <2>1. PICK f \in {kind, "edit", "create"} : s = <<f>>
    BY <2>0
  <2>2. /\ f \in Steps /\ s \in Seq(Steps) /\ Len(s) = 1 /\ Head(s) = f
        /\ \A o \in Steps : <<o>> \o Tail(s) = <<o>>
    BY <1>0, <2>0, <2>1, OneStep
  <2>3. ASSUME NEW op \in Writes, Turns(f, op)
        PROVE  LET t == <<op>> \o Tail(s) IN t \in Shapes(kind) /\ Head(t) = op /\ Len(t) = 1
    <3>1. <<op>> \o Tail(s) = <<op>> /\ op \in {kind, "edit", "create"}
      BY <1>0, <2>1, <2>2, <2>3
    <3>2. <<op>> \in Shapes(kind) /\ Head(<<op>>) = op /\ Len(<<op>>) = 1
      BY <1>0, <2>0, <2>3, <3>1, OneStep
    <3> QED
      BY <3>1, <3>2
  <2>4. f \notin {"bulk", "folder", "record", "archive", "card", "patch"}
    BY <1>4, <2>1
  <2> HIDE DEF Shapes, Turns
  <2> QED
    BY <1>4, <2>2, <2>3, <2>4
<1>5. CASE kind \notin {"close", "complete", "bundle"} \cup Choosing
  <2>1. s = <<kind>> /\ kind \in Steps /\ Shapes(kind) = {<<kind>>} /\ kind # "record"
    BY <1>0, <1>5 DEF WorkKinds
  <2>2. /\ s \in Seq(Steps) /\ Len(s) = 1 /\ Head(s) = kind
        /\ \A o \in Steps : <<o>> \o Tail(s) = <<o>>
    BY <2>1, OneStep
  <2>3. ASSUME NEW op \in Writes, Turns(kind, op)
        PROVE  LET t == <<op>> \o Tail(s) IN t \in Shapes(kind) /\ Head(t) = op /\ Len(t) = 1
    BY <2>1, <2>2, <2>3, OneStep
  <2> HIDE DEF Shapes
  <2> QED
    BY <1>5, <2>1, <2>2, <2>3
<1> QED
  BY <1>1, <1>2, <1>3, <1>4, <1>5

LEMMA SectionsShape == \A kind \in WorkKinds : Sections(kind) \in Shapes(kind)
BY DEF Sections, Shapes, Choosing, WorkKinds, Steps, Writes

LEMMA WorkFacts ==
    ASSUME work \in Works, NEW c \in Call
    PROVE  /\ work[c].kind \in WorkKinds /\ work[c].nodes \in SUBSET Node
           /\ work[c].outcome \in Outcome \cup {None}
           /\ Target(c) \in Node /\ Target(c) \in work[c].nodes
           /\ ~Sweeping(c) => work[c].nodes = {Target(c)}
           /\ work[c].kind = "close" => work[c].outcome # None
<1>1. /\ work[c].kind \in WorkKinds /\ work[c].nodes \in SUBSET Node
      /\ work[c].outcome \in Outcome \cup {None} /\ work[c].nodes # {}
  BY WorksAssumption
<1>2. Target(c) \in work[c].nodes
  BY <1>1 DEF Target
<1>3. ~Sweeping(c) => work[c].nodes = {Target(c)}
  BY <1>2, WorksAssumption DEF Sweeping
<1>4. work[c].kind = "close" => work[c].outcome # None
  BY WorksAssumption
<1> QED
  BY <1>1, <1>2, <1>3, <1>4

Places == {"new", "start", "ask", "asked", "hold", "written", "release", "done", "failed"}

\* What a call does when a locked write of it is over.
LEMMA ContinueFacts ==
    ASSUME NodesTypeOK, TodoInv, NEW c \in Call, NEW good, Continue(c, good)
    PROVE  \E place \in {"start", "done", "failed"} :
               /\ at' = [at EXCEPT ![c] = place]
               /\ \/ todo' = todo
                  \/ /\ todo' = [todo EXCEPT ![c] = Tail(@)]
                     /\ Len(todo[c]) = 2
                     /\ good \/ work[c].kind = "bundle"
               /\ todo' \in [Call -> Seq(Steps)]
               /\ \A d \in Call : todo'[d] \in Shapes(work[d].kind)
               /\ place = "start" => todo' # todo
<1>1. /\ todo \in [Call -> Seq(Steps)] /\ todo[c] \in Shapes(work[c].kind)
      /\ \A d \in Call : todo[d] \in Shapes(work[d].kind)
      /\ work[c].kind \in WorkKinds
  BY WorkFacts DEF NodesTypeOK, TodoInv
<1>2. CASE (good \/ work[c].kind = "bundle") /\ Len(todo[c]) > 1
  <2>1. at' = [at EXCEPT ![c] = "start"] /\ todo' = [todo EXCEPT ![c] = Tail(@)]
    BY <1>2 DEF Continue, Go
  <2>2. Len(todo[c]) = 2 /\ Tail(todo[c]) \in Shapes(work[c].kind) /\ Tail(todo[c]) \in Seq(Steps)
        /\ Len(Tail(todo[c])) = 1
    BY <1>1, <1>2, ShapeFacts
  <2>3. todo' # todo
    <3>1. todo'[c] = Tail(todo[c])
      BY <1>1, <2>1
    <3>2. Len(todo'[c]) = 1
      BY <2>2, <3>1, Zenon
    <3>3. Len(todo[c]) = 2
      BY <2>2
    <3> QED
      BY <3>2, <3>3
  <2> QED
    BY <1>1, <1>2, <2>1, <2>2, <2>3
<1>3. CASE ~((good \/ work[c].kind = "bundle") /\ Len(todo[c]) > 1)
  <2>1. todo' = todo /\ at' = [at EXCEPT ![c] = IF good THEN "done" ELSE "failed"]
    BY <1>3 DEF Continue, Go
  <2> QED
    BY <1>1, <2>1
<1> QED
  BY <1>2, <1>3

\* How a call gets from "start" to the lease it needs, or past it.
Begins(c, op, nodes) ==
    /\ Begin(c, op, nodes)
    /\ op \in Writes /\ nodes \in SUBSET Node /\ nodes \subseteq work[c].nodes
    /\ Turns(Step(c), op)
    /\ work[c].kind = "close" => nodes = work[c].nodes

Skips(c, good) ==
    /\ Skip(c, good)
    /\ good \in BOOLEAN
    /\ work[c].kind = "close" /\ good /\ Len(todo[c]) = 2 => Matches(c)

\* How far the log is when a call that closes a plan reads or records its outcome.
Looks(c, n) == looked' = IF Step(c) = "record" THEN [looked EXCEPT ![c] = n] ELSE looked

Ends(c) == Go(c, "done") /\ UNCHANGED <<todo, left, seen, ok>>

LEMMA ReadCases ==
    ASSUME NodesTypeOK, TodoInv, NEW c \in Call, Read(c)
    PROVE  /\ at[c] = "start"
           /\ UNCHANGED <<work, got, server, lease, cancelled, lost, strays>>
           /\ Looks(c, Len(log))
           /\ \/ \E op \in Writes : \E nodes \in SUBSET Node : Begins(c, op, nodes)
              \/ \E good \in BOOLEAN : Skips(c, good)
              \/ Ends(c)
<1>1. at[c] = "start" /\ UNCHANGED <<work, got, server, lease, cancelled, lost, strays>> /\ Looks(c, Len(log))
  BY DEF Read, Looks
<1>2. /\ todo[c] \in Shapes(work[c].kind) /\ work[c].kind \in WorkKinds /\ work[c].nodes \in SUBSET Node
      /\ work \in Works
  BY WorkFacts DEF NodesTypeOK, TodoInv
<1>3. Len(todo[c]) = 2 /\ work[c].kind = "close" => Step(c) = "record"
  BY <1>2, ShapeFacts DEF Step
<1>4. ASSUME NEW op \in Writes, Turns(Step(c), op),
             Begin(c, op, work[c].nodes)
      PROVE  \E o \in Writes : \E nodes \in SUBSET Node : Begins(c, o, nodes)
  BY <1>2, <1>4 DEF Begins
<1>5. ASSUME NEW good \in BOOLEAN, Skip(c, good), Step(c) # "record" \/ ~good \/ Matches(c)
      PROVE  \E g \in BOOLEAN : Skips(c, g)
  BY <1>3, <1>5 DEF Skips
<1>6. CASE c \in cancelled /\ Skip(c, FALSE)
  BY <1>1, <1>5, <1>6
<1> USE DEF Writes, Turns, Choosing
<1>12. ASSUME Step(c) = "patch", Begin(c, "patch", {})
       PROVE  \E o \in Writes : \E nodes \in SUBSET Node : Begins(c, o, nodes)
  <2>1. work[c].kind # "close"
    BY <1>2, <1>12, ShapeFacts DEF Step
  <2> QED
    BY <1>12, <2>1 DEF Begins
<1>7. CASE \/ GuardedNodePatch(c) \/ UpdateNodeByPath(c) \/ UpdateKanbanCard(c) \/ LinkNodes(c)
           \/ MoveNode(c) \/ ArchiveNodeByPath(c)
  BY <1>1, <1>4, <1>5, <1>7, <1>12
     DEF GuardedNodePatch, UpdateNodeByPath, UpdateKanbanCard, LinkNodes, MoveNode, ArchiveNodeByPath, OnFound, DryRun
<1>8. CASE \/ UpsertNode(c) \/ CreateKanbanCard(c) \/ UpsertAgentNode(c) \/ RestoreNode(c) \/ DeleteArchivedNode(c)
  BY <1>1, <1>4, <1>5, <1>8
     DEF UpsertNode, CreateKanbanCard, UpsertAgentNode, RestoreNode, DeleteArchivedNode
<1>9. CASE PlanLifecycleUpdate(c)
  BY <1>1, <1>4, <1>5, <1>9 DEF PlanLifecycleUpdate, Ends
<1>10. CASE MoveFolder(c)
  <2>1. CASE Step(c) = "folder" /\ Begin(c, "folder", {n \in work[c].nodes : state[n] = "active"})
    <3>1. work[c].kind # "close" /\ {n \in work[c].nodes : state[n] = "active"} \in SUBSET Node
      BY <1>2, <2>1, ShapeFacts DEF Step
    <3> QED
      BY <1>1, <2>1, <3>1 DEF Begins
  <2> QED
    BY <1>1, <1>5, <1>10, <2>1 DEF MoveFolder, DryRun
<1>11. CASE BulkUpsertNodes(c)
  BY <1>1, <1>4, <1>5, <1>11 DEF BulkUpsertNodes, DryRun
<1> QED
  BY <1>6, <1>7, <1>8, <1>9, <1>10, <1>11 DEF Read

LEMMA BeginFacts ==
    ASSUME NodesTypeOK, TodoInv, NEW c \in Call, NEW op, NEW nodes, Begins(c, op, nodes)
    PROVE  /\ at' = [at EXCEPT ![c] = "ask"]
           /\ todo' \in [Call -> Seq(Steps)]
           /\ \A d \in Call : todo'[d] \in Shapes(work[d].kind) /\ Len(todo'[d]) = Len(todo[d])
           /\ \A d \in Call \ {c} : todo'[d] = todo[d]
           /\ Head(todo'[c]) = op /\ op \in Writes
           /\ left' = [left EXCEPT ![c] = nodes] /\ nodes \in SUBSET Node /\ nodes \subseteq work[c].nodes
           /\ work[c].kind = "close" => nodes = work[c].nodes
           /\ seen' = [seen EXCEPT ![c] = [rev |-> Rev(Target(c)), status |-> status[Target(c)]]]
           /\ ok' = [ok EXCEPT ![c] = TRUE]
<1>1. /\ todo \in [Call -> Seq(Steps)] /\ work[c].kind \in WorkKinds
      /\ \A d \in Call : todo[d] \in Shapes(work[d].kind)
  BY WorkFacts DEF NodesTypeOK, TodoInv
<1>2. /\ op \in Writes /\ Turns(Head(todo[c]), op)
      /\ todo' = [todo EXCEPT ![c] = <<op>> \o Tail(todo[c])]
  BY DEF Begins, Begin, Step
<1>3. LET t == <<op>> \o Tail(todo[c]) IN t \in Shapes(work[c].kind) /\ Head(t) = op /\ Len(t) = Len(todo[c])
  BY <1>1, <1>2, ShapeFacts
<1>4. todo'[c] = <<op>> \o Tail(todo[c]) /\ \A d \in Call \ {c} : todo'[d] = todo[d]
  BY <1>1, <1>2
<1>5. todo' \in [Call -> Seq(Steps)]
  <2>1. <<op>> \o Tail(todo[c]) \in Seq(Steps)
    BY <1>1, <1>3, ShapeFacts
  <2> QED
    BY <1>1, <1>2, <2>1
<1>6. todo'[c] \in Shapes(work[c].kind) /\ Head(todo'[c]) = op /\ Len(todo'[c]) = Len(todo[c])
  BY <1>3, <1>4
<1> QED
  BY <1>1, <1>2, <1>4, <1>5, <1>6 DEF Begins, Begin, Go

\* A call that is still at the locked write it is at goes on with it.
Stays(c) ==
    /\ UNCHANGED <<work, todo>>
    /\ \/ \E place \in Locked \ {"ask"} : at[c] \in Locked /\ at' = [at EXCEPT ![c] = place]
       \/ at' = at
       \/ at[c] = "new" /\ at' = [at EXCEPT ![c] = "start"]

LEMMA StaysTodo ==
    ASSUME NodesTypeOK, TodoInv, NEW c \in Call, Stays(c)
    PROVE  TodoInv' /\ at' \in [Call -> Places] /\ todo' \in [Call -> Seq(Steps)]
BY DEF NodesTypeOK, TodoInv, Stays, Step, Locked, Places

LEMMA ContinueTodo ==
    ASSUME NodesTypeOK, TodoInv, NEW c \in Call, NEW good, Continue(c, good), work' = work
    PROVE  TodoInv' /\ at' \in [Call -> Places] /\ todo' \in [Call -> Seq(Steps)]
<1>1. PICK place \in {"start", "done", "failed"} :
          /\ at' = [at EXCEPT ![c] = place]
          /\ todo' = todo \/ todo' = [todo EXCEPT ![c] = Tail(@)]
          /\ todo' \in [Call -> Seq(Steps)]
          /\ \A d \in Call : todo'[d] \in Shapes(work[d].kind)
  BY ContinueFacts
<1> QED
  BY <1>1 DEF NodesTypeOK, TodoInv, Step, Locked, Places

LEMMA AcceptedFacts ==
    ASSUME NodesTypeOK, TodoInv, NEW c \in Call, at[c] = "hold", NEW n \in left[c]
    PROVE  /\ n \in Node /\ Step(c) \in Writes
           /\ StatusAfter(c, n) \subseteq Outcome \cup {None}
           /\ \A s \in StatusAfter(c, n) : [call |-> c, node |-> n, op |-> Step(c), status |-> s] \in Entry
           /\ After(Step(c)) \in States
<1>1. n \in Node /\ Step(c) \in Writes /\ work[c].outcome \in Outcome \cup {None}
  BY WorkFacts DEF NodesTypeOK, TodoInv, Locked
<1>2. StatusAfter(c, n) \subseteq Outcome \cup {None}
  BY <1>1 DEF NodesTypeOK, StatusAfter
<1> QED
  BY <1>1, <1>2 DEF Entry, After, States

\* A write of call c to node n that the server makes.
Makes(c, n) ==
    /\ at[c] = "hold" /\ n \in left[c] /\ c \notin cancelled
    /\ Accepts(c, n)
    /\ state' = [state EXCEPT ![n] = After(Step(c))]
    /\ \E s \in StatusAfter(c, n) :
          /\ status' = [status EXCEPT ![n] = s]
          /\ log' = Append(log, [call |-> c, node |-> n, op |-> Step(c), status |-> s])
    /\ left' = [left EXCEPT ![c] = @ \ {n}]
    /\ \/ Go(c, "written") /\ UNCHANGED <<ok, lost>>
       \/ /\ lost < MaxLost
          /\ lost' = lost + 1
          /\ ok' = [ok EXCEPT ![c] = FALSE]
          /\ Go(c, "release")
    /\ Looks(c, Len(log'))
    /\ UNCHANGED <<work, got, lease, todo, seen, cancelled, strays>>

\* The end of a locked write, or one the server refuses.
Quits(c) ==
    /\ at[c] = "hold"
    /\ Go(c, "release")
    /\ ok' \in {[ok EXCEPT ![c] = FALSE], [ok EXCEPT ![c] = TRUE]}
    /\ ok'[c] => left[c] = {}
    /\ UNCHANGED <<work, server, got, lease, left, lost, todo, seen, cancelled, strays, looked>>

LEMMA RevType == ASSUME NodesTypeOK, NEW n PROVE Rev(n) \in Nat
<1>1. DOMAIN log = 1 .. Len(log) /\ Len(log) \in Nat
  BY DEF NodesTypeOK
<1>2. IsFiniteSet(DOMAIN log)
  BY <1>1, FS_Interval
<1>3. IsFiniteSet({i \in DOMAIN log : log[i].node = n})
  BY <1>2, FS_Subset
<1> QED
  BY <1>3, FS_CardinalityType DEF Rev

LEMMA WriteCases ==
    ASSUME NodesTypeOK, NEW c \in Call, Write(c)
    PROVE  Quits(c) \/ \E n \in left[c] : Makes(c, n)
<1>0. ok \in [Call -> BOOLEAN]
  BY DEF NodesTypeOK
<1>1. CASE /\ c \in cancelled \/ left[c] = {}
           /\ ok' = [ok EXCEPT ![c] = c \notin cancelled]
           /\ Go(c, "release")
           /\ UNCHANGED <<server, left, lost, looked>>
  <2>1. ok' = [ok EXCEPT ![c] = FALSE] \/ (ok' = [ok EXCEPT ![c] = TRUE] /\ left[c] = {})
    BY <1>1
  <2> QED
    BY <1>0, <1>1, <2>1 DEF Write, Quits
<1>2. CASE \E n \in left[c] :
           /\ c \notin cancelled
           /\ ~Accepts(c, n)
           /\ ok' = [ok EXCEPT ![c] = FALSE]
           /\ Go(c, "release")
           /\ UNCHANGED <<server, left, lost, looked>>
  BY <1>0, <1>2 DEF Write, Quits
<1> QED
  BY <1>1, <1>2 DEF Write, Makes, Looks

LEMMA LostType ==
    ASSUME NodesTypeOK, lost' = lost \/ (lost < MaxLost /\ lost' = lost + 1)
    PROVE  lost' \in 0 .. MaxLost
<1>1. MaxLost \in Nat /\ lost \in 0 .. MaxLost
  BY WorksAssumption DEF NodesTypeOK
<1> QED
  BY <1>1

LEMMA NextType ==
    ASSUME NodesTypeOK, TodoInv, [NodesNext]_nodesVars
    PROVE  NodesTypeOK' /\ TodoInv'
<1>a. CASE UNCHANGED nodesVars
  BY <1>a DEF nodesVars, NodesTypeOK, TodoInv, Step
<1>b. \A n : Rev(n) \in Nat
  BY RevType
<1>c. ASSUME NEW c \in Call, NEW n \in Nat, Looks(c, n)
      PROVE  looked' \in [Call -> Nat]
  BY <1>c DEF NodesTypeOK, Looks
<1>d. Len(log) \in Nat
  BY DEF NodesTypeOK
<1>1. ASSUME NEW c \in Call, Get(c)
      PROVE  NodesTypeOK' /\ TodoInv'
  <2>1. Stays(c)
    BY <1>1 DEF Get, Stays, Go, Locked
  <2>2. got' \in [Call -> Nat]
    BY <1>1, <1>b DEF Get, NodesTypeOK
  <2> QED
    BY <1>1, <2>1, <2>2, StaysTodo DEF Get, NodesTypeOK, server, Places
<1>2. ASSUME NEW c \in Call, Read(c)
      PROVE  NodesTypeOK' /\ TodoInv'
  <2>1. UNCHANGED <<work, got, state, status, log, lease, cancelled, lost, strays>> /\ looked' \in [Call -> Nat]
    BY <1>2, <1>c, <1>d, ReadCases DEF server
  <2>2. ASSUME NEW op \in Writes, NEW nodes \in SUBSET Node, Begins(c, op, nodes)
        PROVE  NodesTypeOK' /\ TodoInv'
    <3>1. /\ at' = [at EXCEPT ![c] = "ask"]
          /\ todo' \in [Call -> Seq(Steps)]
          /\ \A d \in Call : todo'[d] \in Shapes(work[d].kind)
          /\ \A d \in Call \ {c} : todo'[d] = todo[d]
          /\ Head(todo'[c]) \in Writes
          /\ left' = [left EXCEPT ![c] = nodes]
          /\ seen' = [seen EXCEPT ![c] = [rev |-> Rev(Target(c)), status |-> status[Target(c)]]]
          /\ ok' = [ok EXCEPT ![c] = TRUE]
      BY <2>2, BeginFacts
    <3>2. status[Target(c)] \in Outcome \cup {None}
      BY WorkFacts DEF NodesTypeOK
    <3>3. seen' \in [Call -> [rev : Nat, status : Outcome \cup {None}]]
      BY <1>b, <3>1, <3>2 DEF NodesTypeOK
    <3>4. TodoInv'
      BY <2>1, <3>1 DEF TodoInv, NodesTypeOK, Step, Locked
    <3> QED
      BY <2>1, <3>1, <3>3, <3>4 DEF NodesTypeOK
  <2>3. ASSUME NEW good \in BOOLEAN, Skips(c, good)
        PROVE  NodesTypeOK' /\ TodoInv'
    <3>1. Continue(c, good) /\ UNCHANGED <<left, seen, ok>>
      BY <2>3 DEF Skips, Skip
    <3> QED
      BY <2>1, <3>1, ContinueTodo DEF NodesTypeOK, Places
  <2>4. CASE Ends(c)
    BY <2>1, <2>4 DEF Ends, Go, NodesTypeOK, TodoInv, Step, Locked
  <2> QED
    BY <1>2, <2>2, <2>3, <2>4, ReadCases
<1>3. ASSUME NEW c \in Call, Ask(c)
      PROVE  NodesTypeOK' /\ TodoInv'
  <2>1. Scope(c) \in SUBSET Node
    BY WorkFacts DEF Scope, NodesTypeOK
  <2>2. /\ at[c] = "ask"
        /\ UNCHANGED <<work, got, state, status, log, left, seen, ok, cancelled, looked>>
        /\ lease' \in [Call -> SUBSET Node] /\ lost' \in 0 .. MaxLost /\ strays' \subseteq Call
    <3>1. lease' = lease \/ lease' = [lease EXCEPT ![c] = Scope(c)]
      BY <1>3 DEF Ask
    <3>2. lost' = lost \/ (lost < MaxLost /\ lost' = lost + 1)
      BY <1>3 DEF Ask
    <3>3. strays' = strays \/ strays' = strays \cup {c}
      BY <1>3 DEF Ask
    <3>4. lease' \in [Call -> SUBSET Node] /\ strays' \subseteq Call
      BY <2>1, <3>1, <3>3 DEF NodesTypeOK
    <3> QED
      BY <1>3, <3>2, <3>4, LostType DEF Ask, server
  <2>3. TodoInv' /\ at' \in [Call -> Places] /\ todo' \in [Call -> Seq(Steps)]
    <3>1. Continue(c, FALSE) \/ Stays(c)
      BY <1>3, <2>2 DEF Ask, Stays, Go, Locked
    <3> QED
      BY <2>2, <3>1, ContinueTodo, StaysTodo
  <2> QED
    BY <2>2, <2>3 DEF NodesTypeOK, Places
<1>4. ASSUME NEW c \in Call, Asked(c) \/ Written(c)
      PROVE  NodesTypeOK' /\ TodoInv'
  <2>1. Stays(c)
    BY <1>4 DEF Asked, Written, Keeps, Onward, Stays, Go, Locked
  <2> QED
    BY <1>4, <2>1, StaysTodo DEF Asked, Written, NodesTypeOK, server, Places
<1>5. ASSUME NEW c \in Call, Write(c)
      PROVE  NodesTypeOK' /\ TodoInv'
  <2>1. CASE Quits(c)
    <3>1. Stays(c)
      BY <2>1 DEF Quits, Stays, Go, Locked
    <3> QED
      BY <2>1, <3>1, StaysTodo DEF Quits, NodesTypeOK, server, Places
  <2>2. ASSUME NEW n \in left[c], Makes(c, n)
        PROVE  NodesTypeOK' /\ TodoInv'
    <3>1. Stays(c)
      BY <2>2 DEF Makes, Stays, Go, Locked
    <3>2. /\ n \in Node /\ StatusAfter(c, n) \subseteq Outcome \cup {None}
          /\ \A s \in StatusAfter(c, n) : [call |-> c, node |-> n, op |-> Step(c), status |-> s] \in Entry
          /\ After(Step(c)) \in States
      BY <2>2, AcceptedFacts DEF Makes
    <3>3. /\ state' \in [Node -> States] /\ status' \in [Node -> Outcome \cup {None}]
          /\ log' \in Seq(Entry) /\ looked' \in [Call -> Nat]
      <4>1. PICK s \in StatusAfter(c, n) :
                /\ status' = [status EXCEPT ![n] = s]
                /\ log' = Append(log, [call |-> c, node |-> n, op |-> Step(c), status |-> s])
        BY <2>2 DEF Makes
      <4>2. log' \in Seq(Entry)
        BY <3>2, <4>1 DEF NodesTypeOK
      <4>3. looked' \in [Call -> Nat]
        BY <1>c, <2>2, <4>2 DEF Makes
      <4>4. state' \in [Node -> States] /\ status' \in [Node -> Outcome \cup {None}]
        BY <2>2, <3>2, <4>1 DEF Makes, NodesTypeOK
      <4> QED
        BY <4>2, <4>3, <4>4
    <3>4. /\ left' \in [Call -> SUBSET Node] /\ ok' \in [Call -> BOOLEAN] /\ lost' \in 0 .. MaxLost
          /\ UNCHANGED <<work, got, lease, seen, cancelled, strays>>
      <4>1. lost' = lost \/ (lost < MaxLost /\ lost' = lost + 1)
        BY <2>2 DEF Makes
      <4>2. left' = [left EXCEPT ![c] = @ \ {n}] /\ (ok' = ok \/ ok' = [ok EXCEPT ![c] = FALSE])
        BY <2>2 DEF Makes
      <4>3. left' \in [Call -> SUBSET Node] /\ ok' \in [Call -> BOOLEAN]
        BY <4>2 DEF NodesTypeOK
      <4> QED
        BY <2>2, <4>1, <4>3, LostType DEF Makes
    <3> QED
      BY <3>1, <3>3, <3>4, StaysTodo DEF NodesTypeOK, Places
  <2> QED
    BY <1>5, <2>1, <2>2, WriteCases
<1>6. ASSUME NEW c \in Call, Release(c)
      PROVE  NodesTypeOK' /\ TodoInv'
  <2>1. /\ lease' \in [Call -> SUBSET Node] /\ lost' \in 0 .. MaxLost /\ strays' \subseteq Call
        /\ Continue(c, ok[c])
        /\ UNCHANGED <<work, got, state, status, log, left, seen, ok, cancelled, looked>>
    <3>1. lost' = lost \/ (lost < MaxLost /\ lost' = lost + 1)
      BY <1>6 DEF Release
    <3>2. (lease' = lease \/ lease' = [lease EXCEPT ![c] = {}]) /\ (strays' = strays \/ strays' = strays \cup {c})
      BY <1>6 DEF Release, Releases
    <3>3. lease' \in [Call -> SUBSET Node] /\ strays' \subseteq Call
      BY <3>2 DEF NodesTypeOK
    <3> QED
      BY <1>6, <3>1, <3>3, LostType DEF Release, server
  <2> QED
    BY <2>1, ContinueTodo DEF NodesTypeOK, Places
<1>7. ASSUME NEW c \in Call, Cancel(c) \/ Expire(c)
      PROVE  NodesTypeOK' /\ TodoInv'
  <2>1. Stays(c)
    BY <1>7 DEF Cancel, Expire, Stays
  <2> QED
    BY <1>7, <2>1, StaysTodo DEF Cancel, Expire, server, NodesTypeOK, Places
<1> QED
  BY <1>1, <1>2, <1>3, <1>4, <1>5, <1>6, <1>7, <1>a DEF NodesNext

-----------------------------------------------------------------------------
(* How calls move on, and who changes what.                                *)

Early == {"new", "start", "ask", "asked"}

LEMMA WorkStays ==
    ASSUME [NodesNext]_nodesVars
    PROVE  work' = work
BY DEF NodesNext, nodesVars, Get, Read, Ask, Asked, Write, Written, Release, Cancel, Expire

LEMMA EntryFacts ==
    ASSUME NodesTypeOK, NEW i \in DOMAIN log
    PROVE  log[i] \in Entry /\ log[i].call \in Call /\ log[i].node \in Node
<1>1. log[i] \in Entry
  BY DEF NodesTypeOK
<1> QED
  BY <1>1 DEF Entry

LEMMA AtStep ==
    ASSUME NodesTypeOK, TodoInv, [NodesNext]_nodesVars, NEW d \in Call
    PROVE  /\ at'[d] = "new" => at[d] = "new"
           /\ at'[d] \in Early => at[d] \in Early \/ Len(todo[d]) = 2
<1>0. at \in [Call -> Places]
  BY DEF NodesTypeOK, Places
<1>a. CASE UNCHANGED nodesVars
  BY <1>a DEF nodesVars
<1>b. ASSUME NEW c \in Call, NEW place, at' = [at EXCEPT ![c] = place],
             place # "new", place \in Early => at[c] \in Early \/ Len(todo[c]) = 2
      PROVE  /\ at'[d] = "new" => at[d] = "new"
             /\ at'[d] \in Early => at[d] \in Early \/ Len(todo[d]) = 2
  BY <1>0, <1>b
<1>c. ASSUME NEW c \in Call, NEW good, Continue(c, good)
      PROVE  /\ at'[d] = "new" => at[d] = "new"
             /\ at'[d] \in Early => at[d] \in Early \/ Len(todo[d]) = 2
  <2>1. PICK place \in {"start", "done", "failed"} :
            at' = [at EXCEPT ![c] = place] /\ (place = "start" => Len(todo[c]) = 2)
    BY <1>c, ContinueFacts
  <2> QED
    BY <1>b, <2>1 DEF Early
<1>1. ASSUME NEW c \in Call, Get(c) \/ Asked(c) \/ Written(c) \/ Cancel(c) \/ Expire(c)
      PROVE  /\ at'[d] = "new" => at[d] = "new"
             /\ at'[d] \in Early => at[d] \in Early \/ Len(todo[d]) = 2
  BY <1>1, <1>b DEF Get, Asked, Written, Cancel, Expire, Go, Keeps, Onward, Early
<1>2. ASSUME NEW c \in Call, Read(c)
      PROVE  /\ at'[d] = "new" => at[d] = "new"
             /\ at'[d] \in Early => at[d] \in Early \/ Len(todo[d]) = 2
  <2>1. at[c] = "start"
    BY <1>2, ReadCases
  <2>2. ASSUME NEW op \in Writes, NEW nodes \in SUBSET Node, Begins(c, op, nodes)
        PROVE  at' = [at EXCEPT ![c] = "ask"]
    BY <2>2, BeginFacts
  <2> QED
    BY <1>2, <1>b, <1>c, <2>1, <2>2, ReadCases DEF Skips, Skip, Ends, Go, Early
<1>3. ASSUME NEW c \in Call, Ask(c) \/ Release(c)
      PROVE  /\ at'[d] = "new" => at[d] = "new"
             /\ at'[d] \in Early => at[d] \in Early \/ Len(todo[d]) = 2
  BY <1>3, <1>b, <1>c DEF Ask, Release, Go, Early
<1>4. ASSUME NEW c \in Call, Write(c)
      PROVE  /\ at'[d] = "new" => at[d] = "new"
             /\ at'[d] \in Early => at[d] \in Early \/ Len(todo[d]) = 2
  BY <1>4, <1>b, WriteCases DEF Quits, Makes, Go, Early
<1> QED
  BY <1>1, <1>2, <1>3, <1>4, <1>a DEF NodesNext

\* Only a write changes the log and the outcomes, only a read by the client
\* the revision in a call's arguments.
LEMMA LogCases ==
    ASSUME NodesTypeOK, TodoInv, [NodesNext]_nodesVars
    PROVE  /\ \/ log' = log /\ status' = status
              \/ \E c \in Call : \E n \in left[c] : Makes(c, n)
           /\ \/ got' = got
              \/ \E c \in Call : at[c] = "new" /\ got' = [got EXCEPT ![c] = Rev(Target(c))] /\ log' = log
<1>1. ASSUME NEW c \in Call, Write(c)
      PROVE  got' = got /\ (UNCHANGED <<log, status>> \/ \E n \in left[c] : Makes(c, n))
  BY <1>1, WriteCases DEF Quits, Makes, server
<1> QED
  BY <1>1 DEF NodesNext, nodesVars, Get, Read, Ask, Asked, Written, Release, Cancel, Expire, server

-----------------------------------------------------------------------------
(* The leases.                                                             *)

LEMMA LeaseStep ==
    ASSUME NodesTypeOK, TodoInv, LeaseInv, [NodesNext]_nodesVars
    PROVE  LeaseInv'
<1>0. /\ at \in [Call -> Places] /\ lease \in [Call -> SUBSET Node] /\ strays \subseteq Call
  BY DEF NodesTypeOK, Places
<1> DEFINE Idle == {"new", "start", "ask", "done", "failed"}
<1>a. CASE UNCHANGED nodesVars
  BY <1>a DEF nodesVars, LeaseInv
<1>b. ASSUME NEW c \in Call, NEW place, at' = [at EXCEPT ![c] = place], UNCHANGED lease,
             strays \subseteq strays', place \in Idle => at[c] \in Idle \/ c \in strays'
      PROVE  LeaseInv'
  BY <1>0, <1>b DEF LeaseInv
<1>c. ASSUME NEW c \in Call, NEW good, Continue(c, good)
      PROVE  \E place \in Idle : at' = [at EXCEPT ![c] = place]
  BY <1>c, ContinueFacts
<1>1. ASSUME NEW c \in Call, Get(c) \/ Asked(c) \/ Written(c)
      PROVE  LeaseInv'
  BY <1>1, <1>b DEF Get, Asked, Written, Go, Keeps, Onward
<1>2. ASSUME NEW c \in Call, Read(c)
      PROVE  LeaseInv'
  <2>1. at[c] = "start" /\ UNCHANGED <<lease, strays>>
    BY <1>2, ReadCases
  <2>2. ASSUME NEW op \in Writes, NEW nodes \in SUBSET Node, Begins(c, op, nodes)
        PROVE  at' = [at EXCEPT ![c] = "ask"]
    BY <2>2, BeginFacts
  <2> QED
    BY <1>2, <1>b, <1>c, <2>1, <2>2, ReadCases DEF Skips, Skip, Ends, Go
<1>3. ASSUME NEW c \in Call, Ask(c)
      PROVE  LeaseInv'
  <2>0. at[c] = "ask" /\ strays \subseteq strays' /\ Scope(c) \subseteq Node
    BY <1>3, WorkFacts DEF Ask, Scope, NodesTypeOK
  <2>1. CASE Continue(c, FALSE) /\ UNCHANGED lease
    BY <1>b, <1>c, <2>0, <2>1
  <2>2. CASE /\ \A d \in Call : lease[d] \cap Scope(c) = {}
             /\ lease' = [lease EXCEPT ![c] = Scope(c)]
             /\ Go(c, "asked") \/ (Continue(c, FALSE) /\ c \in strays')
    <3>1. \A d, e \in Call : d # e => lease'[d] \cap lease'[e] = {}
      BY <1>0, <2>2 DEF LeaseInv
    <3>2. ASSUME NEW d \in Call, at'[d] \in Idle, d \notin strays'
          PROVE  lease'[d] = {}
      <4>1. d # c
        BY <1>0, <2>2, <3>2 DEF Go
      <4>2. at'[d] = at[d] /\ lease'[d] = lease[d]
        BY <1>0, <1>c, <2>2, <4>1 DEF Go
      <4> QED
        BY <2>0, <3>2, <4>2 DEF LeaseInv
    <3> QED
      BY <3>1, <3>2 DEF LeaseInv
  <2> QED
    BY <1>3, <2>1, <2>2 DEF Ask
<1>4. ASSUME NEW c \in Call, Write(c)
      PROVE  LeaseInv'
  BY <1>4, <1>b, WriteCases DEF Quits, Makes, Go
<1>5. ASSUME NEW c \in Call, Release(c)
      PROVE  LeaseInv'
  <2>1. CASE lease' = [lease EXCEPT ![c] = {}] /\ UNCHANGED strays
    <3>1. \A d \in Call \ {c} : at'[d] = at[d]
      BY <1>0, <1>5, <1>c DEF Release
    <3> QED
      BY <1>0, <2>1, <3>1 DEF LeaseInv
  <2>2. CASE lease' = lease /\ strays' = strays \cup {c}
    BY <1>5, <1>b, <1>c, <2>2 DEF Release
  <2> QED
    BY <1>5, <2>1, <2>2 DEF Release, Releases
<1>6. ASSUME NEW c \in Call, Cancel(c) \/ Expire(c)
      PROVE  LeaseInv'
  BY <1>0, <1>6 DEF Cancel, Expire, LeaseInv
<1> QED
  BY <1>1, <1>2, <1>3, <1>4, <1>5, <1>6, <1>a DEF NodesNext

-----------------------------------------------------------------------------
(* The log.                                                                *)

LEMMA MadeFacts ==
    ASSUME NodesTypeOK, TodoInv, NEW c \in Call, NEW n \in left[c], Makes(c, n)
    PROVE  /\ n \in Node /\ n \in lease[c]
           /\ log \in Seq(Entry) /\ Len(log) \in Nat /\ DOMAIN log = 1 .. Len(log)
           /\ DOMAIN log' = 1 .. Len(log) + 1 /\ Len(log') = Len(log) + 1
           /\ \A i \in DOMAIN log : log'[i] = log[i] /\ i \in DOMAIN log'
           /\ status'[n] \in StatusAfter(c, n) /\ \A m \in Node \ {n} : status'[m] = status[m]
           /\ log'[Len(log) + 1] = [call |-> c, node |-> n, op |-> Step(c), status |-> status'[n]]
           /\ work[c].kind \in WorkKinds /\ todo[c] \in Shapes(work[c].kind)
           /\ UNCHANGED <<work, got, lease, todo, seen, cancelled, strays>>
<1>1. PICK s \in StatusAfter(c, n) :
          /\ status' = [status EXCEPT ![n] = s]
          /\ log' = Append(log, [call |-> c, node |-> n, op |-> Step(c), status |-> s])
  BY DEF Makes
<1>2. /\ n \in Node /\ log \in Seq(Entry)
      /\ [call |-> c, node |-> n, op |-> Step(c), status |-> s] \in Entry
  BY AcceptedFacts DEF Makes, NodesTypeOK
<1>3. /\ Len(log) \in Nat /\ DOMAIN log = 1 .. Len(log)
      /\ DOMAIN log' = 1 .. Len(log) + 1 /\ Len(log') = Len(log) + 1
      /\ \A i \in DOMAIN log : log'[i] = log[i] /\ i \in DOMAIN log'
      /\ log'[Len(log) + 1] = [call |-> c, node |-> n, op |-> Step(c), status |-> s]
  BY <1>1, <1>2
<1>4. status'[n] = s /\ \A m \in Node \ {n} : status'[m] = status[m]
  BY <1>1, <1>2 DEF NodesTypeOK
<1>5. work[c].kind \in WorkKinds /\ todo[c] \in Shapes(work[c].kind)
  BY WorkFacts DEF NodesTypeOK, TodoInv
<1>6. n \in lease[c] /\ UNCHANGED <<work, got, lease, todo, seen, cancelled, strays>>
  BY DEF Makes, Accepts
<1> QED
  BY <1>1, <1>2, <1>3, <1>4, <1>5, <1>6

LEMMA SweepFacts ==
    ASSUME NodesTypeOK, TodoInv, NEW c \in Call
    PROVE  /\ Sweeping(c) => Step(c) \in {"bulk", "folder"} /\ Len(todo[c]) = 1
           /\ Step(c) \in {"bulk", "folder"} => Sweeping(c)
<1>1. work[c].kind \in WorkKinds /\ todo[c] \in Shapes(work[c].kind)
  BY WorkFacts DEF NodesTypeOK, TodoInv
<1>2. Sweeping(c) => todo[c] = <<work[c].kind>>
  BY <1>1, ShapeFacts DEF Sweeping, Choosing
<1> QED
  BY <1>1, <1>2, ShapeFacts DEF Sweeping, Step, Choosing

\* A sweeping call takes its one lease before it has written anything.
LEMMA SweepLease ==
    ASSUME NodesTypeOK, TodoInv, LeaseInv, BulkInv, [NodesNext]_nodesVars, NEW c \in Call, Sweeping(c)
    PROVE  /\ lease'[c] \in {{}, Node}
           /\ lease'[c] # {} => lease[c] # {} \/ at[c] = "ask"
<1>0. lease \in [Call -> SUBSET Node] /\ lease[c] \in {{}, Node}
  BY DEF NodesTypeOK, BulkInv
<1>1. ASSUME NEW d \in Call, Ask(d)
      PROVE  /\ lease'[c] \in {{}, Node}
             /\ lease'[c] # {} => lease[c] # {} \/ at[c] = "ask"
  <2>1. lease' = lease \/ (lease' = [lease EXCEPT ![d] = Scope(d)] /\ at[d] = "ask")
    BY <1>1 DEF Ask
  <2>2. Scope(c) = Node
    BY SweepFacts DEF Scope
  <2> QED
    BY <1>0, <2>1, <2>2
<1> QED
  BY <1>0, <1>1 DEF NodesNext, nodesVars, Get, Read, Asked, Write, Written, Release, Releases, Cancel, Expire

LEMMA BulkStep ==
    ASSUME NodesTypeOK, TodoInv, LeaseInv, BulkInv, BulkIsNotInterleaved, [NodesNext]_nodesVars
    PROVE  BulkInv' /\ BulkIsNotInterleaved'
<1>0. work' = work
  BY WorkStays
<1>1. ASSUME NEW d \in Call, Sweeping(d), NEW i \in DOMAIN log, log[i].call = d
      PROVE  /\ at'[d] \notin Early
             /\ lease'[d] # {} => lease[d] # {} /\ \A j \in DOMAIN log : i < j => log[j].call = d
  <2>1. at[d] \notin Early /\ Len(todo[d]) = 1
    BY <1>1, SweepFacts DEF BulkInv, Early
  <2>2. at'[d] \notin Early
    BY <2>1, AtStep
  <2>3. lease'[d] # {} => lease[d] # {}
    BY <1>1, <2>1, SweepLease DEF Early
  <2> QED
    BY <1>1, <2>2, <2>3 DEF BulkInv
<1>2. CASE log' = log
  <2>1. \A i \in DOMAIN log : log[i].op \in {"bulk", "folder"} => work[log[i].call].kind \in {"bulk", "folder"}
    BY DEF BulkInv, Sweeping
  <2>2. ASSUME NEW c \in Call, Sweeping(c)
        PROVE  /\ lease'[c] \in {{}, Node}
               /\ \A i \in DOMAIN log : log[i].call = c =>
                     /\ at'[c] \notin Early
                     /\ lease'[c] # {} => \A j \in DOMAIN log : i < j => log[j].call = c
    BY <1>1, <2>2, SweepLease
  <2>3. BulkInv'
    BY <1>0, <1>2, <2>1, <2>2 DEF BulkInv, Sweeping, Early
  <2> QED
    BY <1>2, <2>3 DEF BulkIsNotInterleaved
<1>3. ASSUME NEW c \in Call, NEW n \in left[c], Makes(c, n)
      PROVE  BulkInv' /\ BulkIsNotInterleaved'
  <2> DEFINE k == Len(log) + 1
  <2>1. /\ n \in Node /\ n \in lease[c] /\ Len(log) \in Nat
        /\ DOMAIN log = 1 .. Len(log) /\ DOMAIN log' = 1 .. k
        /\ \A i \in DOMAIN log : log'[i] = log[i]
        /\ log'[k] = [call |-> c, node |-> n, op |-> Step(c), status |-> status'[n]]
        /\ lease' = lease
    BY <1>3, MadeFacts
  <2>2. at'[c] \in {"written", "release"}
    BY <1>3 DEF Makes, Go, NodesTypeOK
  <2>3. \A i \in DOMAIN log' :
            log'[i].op \in {"bulk", "folder"} => work[log'[i].call].kind \in {"bulk", "folder"}
    <3>1. \A i \in DOMAIN log : log[i].op \in {"bulk", "folder"} => work[log[i].call].kind \in {"bulk", "folder"}
      BY DEF BulkInv, Sweeping
    <3>2. Step(c) \in {"bulk", "folder"} => work[c].kind \in {"bulk", "folder"}
      BY SweepFacts DEF Sweeping
    <3> QED
      BY <2>1, <3>1, <3>2
  <2>4. ASSUME NEW d \in Call, Sweeping(d), NEW i \in DOMAIN log', log'[i].call = d
        PROVE  /\ at'[d] \notin Early
               /\ lease'[d] # {} => \A j \in DOMAIN log' : i < j => log'[j].call = d
    <3>1. CASE i = k
      BY <2>1, <2>2, <2>4, <3>1 DEF Early
    <3>2. CASE i # k
      <4>1. i \in DOMAIN log /\ log[i].call = d
        BY <2>1, <2>4, <3>2
      <4>2. lease[d] # {} => c = d
        <5>1. lease[d] # {} => lease[d] = Node
          BY <2>4 DEF BulkInv
        <5> QED
          BY <2>1, <5>1 DEF LeaseInv
      <4>3. \A j \in DOMAIN log' : i < j => log'[j].call = IF j = k THEN c ELSE log[j].call
        BY <2>1, <4>1
      <4>4. at'[d] \notin Early /\ (lease'[d] # {} => lease[d] # {} /\ \A j \in DOMAIN log : i < j => log[j].call = d)
        BY <1>1, <2>4, <4>1
      <4> QED
        BY <2>1, <4>2, <4>3, <4>4
    <3> QED
      BY <3>1, <3>2
  <2>5. BulkInv'
    <3>1. ASSUME NEW d \in Call, Sweeping(d)
          PROVE  /\ lease'[d] \in {{}, Node}
                 /\ \A i \in DOMAIN log' : log'[i].call = d =>
                       /\ at'[d] \notin Early
                       /\ lease'[d] # {} => \A j \in DOMAIN log' : i < j => log'[j].call = d
      BY <2>4, <3>1, SweepLease
    <3> QED
      BY <1>0, <2>3, <3>1 DEF BulkInv, Sweeping, Early
  <2>6. ASSUME NEW h \in DOMAIN log', NEW j \in DOMAIN log', NEW m \in DOMAIN log', h < j, j < m,
               log'[h].call = log'[m].call, log'[m].op \in {"bulk", "folder"}
        PROVE  log'[j].call = log'[m].call
    <3>1. h \in DOMAIN log /\ j \in DOMAIN log /\ h \in Int /\ j \in Int
      BY <2>1, <2>6
    <3>2. CASE m = k
      <4>1. Sweeping(c) /\ log[h].call = c
        BY <2>1, <2>6, <3>1, <3>2, SweepFacts
      <4>2. log[j].call = c
        BY <2>1, <2>6, <3>1, <4>1 DEF BulkInv
      <4> QED
        BY <2>1, <3>1, <3>2, <4>2
    <3>3. CASE m # k
      BY <2>1, <2>6, <3>1, <3>3 DEF BulkIsNotInterleaved
    <3> QED
      BY <3>2, <3>3
  <2> QED
    BY <2>5, <2>6 DEF BulkIsNotInterleaved
<1> QED
  BY <1>2, <1>3, LogCases

LEMMA PatchStep ==
    ASSUME NodesTypeOK, TodoInv, PatchInv, PatchOverwritesNothingUnseen, [NodesNext]_nodesVars
    PROVE  PatchInv' /\ PatchOverwritesNothingUnseen'
<1>0. log \in Seq(Entry) /\ got \in [Call -> Nat]
  BY DEF NodesTypeOK
<1>1. \A i \in DOMAIN log : log[i].call \in Call /\ at[log[i].call] # "new" /\ at'[log[i].call] # "new"
  BY EntryFacts, AtStep DEF PatchInv
<1>2. \A i \in DOMAIN log : got'[log[i].call] = got[log[i].call]
  BY <1>0, <1>1, LogCases
<1>3. CASE log' = log
  BY <1>1, <1>2, <1>3 DEF PatchInv, PatchOverwritesNothingUnseen
<1>4. ASSUME NEW c \in Call, NEW n \in left[c], Makes(c, n)
      PROVE  PatchInv' /\ PatchOverwritesNothingUnseen'
  <2> DEFINE k == Len(log) + 1
  <2>1. /\ Len(log) \in Nat
        /\ DOMAIN log = 1 .. Len(log) /\ DOMAIN log' = 1 .. k
        /\ \A i \in DOMAIN log : log'[i] = log[i]
        /\ log'[k] = [call |-> c, node |-> n, op |-> Step(c), status |-> status'[n]]
        /\ got' = got
    BY <1>4, MadeFacts
  <2>2. at'[c] # "new"
    BY <1>4 DEF Makes, Go, NodesTypeOK
  <2>3. PatchInv'
    BY <1>1, <2>1, <2>2 DEF PatchInv
  <2>4. ASSUME NEW m \in DOMAIN log', log'[m].op = "patch"
        PROVE  got'[log'[m].call] = Cardinality({i \in 1 .. m - 1 : log'[i].node = log'[m].node})
    <3>1. CASE m = k
      <4>1. Step(c) = "patch"
        BY <2>1, <2>4, <3>1
      <4>2. got[c] = Rev(n)
        BY <1>4, <4>1 DEF Makes, Accepts, Precondition
      <4>3. {i \in 1 .. m - 1 : log'[i].node = log'[m].node} = {i \in DOMAIN log : log[i].node = n}
        BY <2>1, <3>1
      <4>4. got'[log'[m].call] = got[c]
        BY <2>1, <3>1
      <4>5. Rev(n) = Cardinality({i \in DOMAIN log : log[i].node = n})
        BY DEF Rev
      <4> QED
        BY <4>2, <4>3, <4>4, <4>5
    <3>2. CASE m # k
      <4>1. m \in DOMAIN log /\ log[m].op = "patch" /\ log'[m] = log[m]
        BY <2>1, <2>4, <3>2
      <4>2. {i \in 1 .. m - 1 : log'[i].node = log'[m].node} = {i \in 1 .. m - 1 : log[i].node = log[m].node}
        BY <2>1, <4>1
      <4> QED
        BY <1>2, <4>1, <4>2 DEF PatchOverwritesNothingUnseen
    <3> QED
      BY <3>1, <3>2
  <2> QED
    BY <2>3, <2>4 DEF PatchOverwritesNothingUnseen
<1> QED
  BY <1>3, <1>4, LogCases

-----------------------------------------------------------------------------
(* Outcomes and the closing of plans.                                      *)

LEMMA LeftStep ==
    ASSUME NodesTypeOK, TodoInv, LeftInv, [NodesNext]_nodesVars
    PROVE  LeftInv'
<1>0. left \in [Call -> SUBSET Node] /\ work' = work
  BY WorkStays DEF NodesTypeOK
<1>1. CASE left' = left
  BY <1>0, <1>1 DEF LeftInv
<1>2. ASSUME NEW c \in Call, NEW op \in Writes, NEW nodes \in SUBSET Node, Begins(c, op, nodes)
      PROVE  LeftInv'
  <2>1. left' = [left EXCEPT ![c] = nodes] /\ nodes \subseteq work[c].nodes
    BY <1>2, BeginFacts
  <2> QED
    BY <1>0, <2>1 DEF LeftInv
<1>3. ASSUME NEW c \in Call, NEW n \in left[c], Makes(c, n)
      PROVE  LeftInv'
  <2>1. left' = [left EXCEPT ![c] = @ \ {n}]
    BY <1>3 DEF Makes
  <2> QED
    BY <1>0, <2>1 DEF LeftInv
<1>4. ASSUME NEW c \in Call, Read(c)
      PROVE  left' = left \/ \E op \in Writes : \E nodes \in SUBSET Node : Begins(c, op, nodes)
  BY <1>4, ReadCases DEF Skips, Skip, Ends
<1>5. \/ left' = left
      \/ \E c \in Call : \E op \in Writes : \E nodes \in SUBSET Node : Begins(c, op, nodes)
      \/ \E c \in Call : \E n \in left[c] : Makes(c, n)
  BY <1>4, WriteCases DEF NodesNext, nodesVars, Get, Ask, Asked, Written, Release, Cancel, Expire, Quits
<1> QED
  BY <1>1, <1>2, <1>3, <1>5

\* Only the calls that close a plan look, when they read or record.
LEMMA LookCases ==
    ASSUME NodesTypeOK, TodoInv, [NodesNext]_nodesVars, NEW d \in Call
    PROVE  \/ looked'[d] = looked[d]
           \/ at[d] \in {"start", "hold"} /\ Step(d) = "record" /\ looked'[d] = Len(log')
<1>0. looked \in [Call -> Nat]
  BY DEF NodesTypeOK
<1>1. ASSUME NEW c \in Call, NEW n, Looks(c, n)
      PROVE  looked'[d] = looked[d] \/ (c = d /\ Step(c) = "record" /\ looked'[d] = n)
  BY <1>0, <1>1 DEF Looks
<1>2. ASSUME NEW c \in Call, Read(c)
      PROVE  at[c] = "start" /\ Looks(c, Len(log)) /\ log' = log
  BY <1>2, ReadCases DEF server
<1>3. ASSUME NEW c \in Call, Write(c)
      PROVE  at[c] = "hold" /\ (looked' = looked \/ Looks(c, Len(log')))
  BY <1>3, WriteCases DEF Quits, Makes
<1> QED
  BY <1>1, <1>2, <1>3 DEF NodesNext, nodesVars, Get, Ask, Asked, Written, Release, Cancel, Expire

LEMMA LookedStep ==
    ASSUME NodesTypeOK, TodoInv, LookedInv, [NodesNext]_nodesVars
    PROVE  LookedInv'
<1>1. /\ looked \in [Call -> Nat] /\ log \in Seq(Entry) /\ Len(log) \in Nat
      /\ \A d \in Call : looked[d] <= Len(log)
  BY DEF NodesTypeOK, LookedInv
<1>2. Len(log') \in Nat /\ Len(log) <= Len(log')
  <2>1. CASE log' = log
    BY <1>1, <2>1
  <2>2. ASSUME NEW c \in Call, NEW n \in left[c], Makes(c, n)
        PROVE  Len(log') = Len(log) + 1
    BY <2>2, MadeFacts
  <2> QED
    BY <1>1, <2>1, <2>2, LogCases
<1>3. ASSUME NEW d \in Call
      PROVE  looked'[d] <= Len(log')
  <2>1. looked'[d] = looked[d] \/ looked'[d] = Len(log')
    BY LookCases
  <2> QED
    BY <1>1, <1>2, <2>1
<1> QED
  BY <1>3 DEF LookedInv

\* What a call has found or recorded stays, or another call has taken it away.
LEMMA RecordedStays ==
    ASSUME NodesTypeOK, TodoInv, LookedInv, [NodesNext]_nodesVars, NEW d \in Call, Recorded(d),
           work[d].kind = "close", looked'[d] = looked[d]
    PROVE  Recorded(d)'
<1>0. /\ work' = work /\ work \in Works /\ Target(d)' = Target(d) /\ Target(d) \in Node
      /\ looked[d] \in Nat /\ looked[d] <= Len(log) /\ log \in Seq(Entry) /\ Len(log) \in Nat
  BY WorkStays, WorkFacts DEF NodesTypeOK, LookedInv, Target
<1>1. CASE log' = log /\ status' = status
  BY <1>0, <1>1 DEF Recorded
<1>2. ASSUME NEW c \in Call, NEW n \in left[c], Makes(c, n)
      PROVE  Recorded(d)'
  <2>1. /\ DOMAIN log = 1 .. Len(log) /\ Len(log') = Len(log) + 1
        /\ \A i \in DOMAIN log : log'[i] = log[i]
        /\ status'[n] \in StatusAfter(c, n) /\ \A m \in Node \ {n} : status'[m] = status[m]
        /\ log'[Len(log) + 1] = [call |-> c, node |-> n, op |-> Step(c), status |-> status'[n]]
        /\ work[c].kind \in WorkKinds /\ todo[c] \in Shapes(work[c].kind)
    BY <1>2, MadeFacts
  <2>2. CASE \E i \in looked[d]+1 .. Len(log) : /\ log[i].call # d /\ log[i].node = Target(d)
                                               /\ log[i].status # work[d].outcome
    <3>1. PICK i \in looked[d]+1 .. Len(log) : /\ log[i].call # d /\ log[i].node = Target(d)
                                               /\ log[i].status # work[d].outcome
      BY <2>2
    <3>2. i \in looked[d]+1 .. Len(log') /\ log'[i] = log[i]
      BY <1>0, <2>1, <3>1
    <3> QED
      BY <1>0, <3>1, <3>2 DEF Recorded
  <2>3. CASE status'[Target(d)] = work[d].outcome
    BY <1>0, <2>3 DEF Recorded
  <2>4. CASE status[Target(d)] = work[d].outcome /\ status'[Target(d)] # work[d].outcome
    <3>1. n = Target(d)
      BY <1>0, <2>1, <2>4
    <3>2. c # d
      <4>1. ASSUME c = d
            PROVE  FALSE
        <5>1. Step(c) \in {"record", "archive"}
          BY <2>1, <4>1, ShapeFacts DEF Step
        <5>2. StatusAfter(c, n) \subseteq {work[d].outcome, status[n]}
          BY <4>1, <5>1 DEF StatusAfter
        <5> QED
          BY <2>1, <2>4, <3>1, <5>2
      <4> QED
        BY <4>1
    <3>3. Len(log) + 1 \in looked[d]+1 .. Len(log')
      BY <1>0, <2>1
    <3> QED
      BY <1>0, <2>1, <2>4, <3>1, <3>2, <3>3 DEF Recorded
  <2> QED
    BY <2>2, <2>3, <2>4 DEF Recorded
<1> QED
  BY <1>1, <1>2, LogCases

LEMMA ReleaseStep ==
    ASSUME NodesTypeOK, TodoInv, CloseInv, [NodesNext]_nodesVars, NEW d \in Call,
           at'[d] = "release", ok'[d]
    PROVE  left'[d] = {}
<1>0. /\ at \in [Call -> Places] /\ ok \in [Call -> BOOLEAN] /\ left \in [Call -> SUBSET Node]
      /\ (at[d] = "release" /\ ok[d] => left[d] = {})
  BY DEF NodesTypeOK, Places, CloseInv
<1>a. CASE at'[d] = at[d] /\ ok'[d] = ok[d] /\ left'[d] = left[d]
  BY <1>0, <1>a
<1>b. ASSUME NEW c \in Call, c # d, \E place : at' = [at EXCEPT ![c] = place],
             ok'[d] = ok[d], left'[d] = left[d]
      PROVE  left'[d] = {}
  BY <1>0, <1>b
<1>c. ASSUME NEW c \in Call, NEW place, at' = [at EXCEPT ![c] = place], place # "release"
      PROVE  c # d
  BY <1>0, <1>c
<1>d. ASSUME NEW c \in Call, NEW good, Continue(c, good)
      PROVE  c # d /\ \E place : at' = [at EXCEPT ![c] = place]
  <2>1. PICK place \in {"start", "done", "failed"} : at' = [at EXCEPT ![c] = place]
    BY <1>d, ContinueFacts
  <2> QED
    BY <1>c, <2>1
<1>1. ASSUME NEW c \in Call, Get(c) \/ Cancel(c) \/ Expire(c)
      PROVE  left'[d] = {}
  BY <1>0, <1>1 DEF Get, Cancel, Expire, Go
<1>2. ASSUME NEW c \in Call, Asked(c) \/ Written(c)
      PROVE  left'[d] = {}
  <2>1. left' = left /\ ok' = [ok EXCEPT ![c] = c \notin cancelled]
        /\ \E place : at' = [at EXCEPT ![c] = place]
    BY <1>2 DEF Asked, Written, Go
  <2>2. CASE c = d
    BY <1>0, <1>2, <2>1, <2>2 DEF Asked, Written, Go, Keeps, Onward
  <2>3. CASE c # d
    BY <1>0, <1>b, <2>1, <2>3
  <2> QED
    BY <2>2, <2>3
<1>3. ASSUME NEW c \in Call, Read(c)
      PROVE  left'[d] = {}
  <2>1. ASSUME NEW op \in Writes, NEW nodes \in SUBSET Node, Begins(c, op, nodes)
        PROVE  left'[d] = {}
    <3>1. /\ at' = [at EXCEPT ![c] = "ask"] /\ left' = [left EXCEPT ![c] = nodes]
          /\ ok' = [ok EXCEPT ![c] = TRUE]
      BY <2>1, BeginFacts
    <3>2. c # d
      BY <1>c, <3>1
    <3> QED
      BY <1>0, <1>b, <3>1, <3>2
  <2> QED
    BY <1>3, <1>b, <1>c, <1>d, <2>1, ReadCases DEF Skips, Skip, Ends, Go
<1>4. ASSUME NEW c \in Call, Ask(c)
      PROVE  left'[d] = {}
  <2>1. left' = left /\ ok' = ok
    BY <1>4 DEF Ask
  <2>2. c # d /\ \E place : at' = [at EXCEPT ![c] = place]
    BY <1>4, <1>c, <1>d DEF Ask, Go
  <2> QED
    BY <1>b, <2>1, <2>2
<1>5. ASSUME NEW c \in Call, Write(c)
      PROVE  left'[d] = {}
  <2>1. CASE Quits(c)
    <3>1. CASE c = d
      BY <2>1, <3>1 DEF Quits
    <3>2. CASE c # d
      BY <1>0, <1>b, <2>1, <3>2 DEF Quits, Go
    <3> QED
      BY <3>1, <3>2
  <2>2. ASSUME NEW n \in left[c], Makes(c, n)
        PROVE  left'[d] = {}
    <3>1. CASE c = d
      BY <1>0, <2>2, <3>1 DEF Makes, Go
    <3>2. CASE c # d
      BY <1>0, <1>b, <2>2, <3>2 DEF Makes, Go
    <3> QED
      BY <3>1, <3>2
  <2> QED
    BY <1>5, <2>1, <2>2, WriteCases
<1>6. ASSUME NEW c \in Call, Release(c)
      PROVE  left'[d] = {}
  BY <1>6, <1>b, <1>d DEF Release
<1> QED
  BY <1>0, <1>1, <1>2, <1>3, <1>4, <1>5, <1>6 DEF NodesNext, nodesVars

\* The first half of a closing is over only when the outcome is recorded.
LEMMA CloseStep ==
    ASSUME NodesTypeOK, TodoInv, LeftInv, LookedInv, CloseInv, [NodesNext]_nodesVars,
           NEW d \in Call, work[d].kind = "close",
           Len(todo'[d]) = 1 \/ (at'[d] \in Locked /\ Len(todo'[d]) = 2 /\ left'[d] = {})
    PROVE  Recorded(d)'
<1>0. /\ at \in [Call -> Places] /\ left \in [Call -> SUBSET Node] /\ todo \in [Call -> Seq(Steps)]
      /\ todo[d] \in Shapes("close") /\ "close" \in WorkKinds
      /\ Len(todo[d]) = 1 \/ (at[d] \in Locked /\ Len(todo[d]) = 2 /\ left[d] = {}) => Recorded(d)
      /\ at[d] = "release" /\ ok[d] => left[d] = {}
      /\ Step(d) = "record" <=> Len(todo[d]) = 2
      /\ Len(todo[d]) \in {1, 2}
  <2>1. todo[d] \in Shapes("close") /\ "close" \in WorkKinds
    BY DEF TodoInv, WorkKinds
  <2> QED
    BY <2>1, ShapeFacts DEF NodesTypeOK, Places, CloseInv, Step
<1>1. work' = work /\ work \in Works /\ Target(d)' = Target(d)
  BY WorkStays DEF NodesTypeOK, Target
<1>a. CASE Recorded(d) /\ looked'[d] = looked[d]
  BY <1>a, RecordedStays
<1>b. CASE /\ Len(todo'[d]) = Len(todo[d]) /\ looked'[d] = looked[d]
           /\ left'[d] = left[d]
           /\ at'[d] \in Locked => at[d] \in Locked
  BY <1>0, <1>a, <1>b
\* A call that is done with a locked write is at its next one, or over.
<1>c. ASSUME NEW c \in Call, NEW good, Continue(c, good), left' = left,
             c = d /\ good /\ Len(todo[d]) = 2 => Recorded(d)', c # d => looked'[d] = looked[d],
             Len(todo[d]) = 1 => looked'[d] = looked[d]
      PROVE  Recorded(d)'
  <2>1. PICK place \in {"start", "done", "failed"} :
            /\ at' = [at EXCEPT ![c] = place]
            /\ \/ todo' = todo
               \/ /\ todo' = [todo EXCEPT ![c] = Tail(@)]
                  /\ Len(todo[c]) = 2
                  /\ good \/ work[c].kind = "bundle"
    BY <1>c, ContinueFacts
  <2>2. CASE c # d
    <3>1. todo'[d] = todo[d] /\ left'[d] = left[d] /\ at'[d] = at[d]
      BY <1>0, <1>c, <2>1, <2>2
    <3> QED
      BY <1>b, <1>c, <2>2, <3>1
  <2>3. CASE c = d /\ todo' = todo
    <3>1. at'[d] \notin Locked
      BY <1>0, <2>1, <2>3 DEF Locked
    <3>2. Len(todo[d]) = 1
      BY <2>3, <3>1
    <3> QED
      BY <1>0, <1>a, <1>c, <3>2
  <2>4. CASE c = d /\ todo' # todo
    BY <1>c, <2>1, <2>4
  <2> QED
    BY <2>2, <2>3, <2>4
<1>d. ASSUME NEW c \in Call, NEW n, Looks(c, n), c # d \/ Len(todo[d]) = 1
      PROVE  looked'[d] = looked[d]
  <2>1. looked \in [Call -> Nat]
    BY DEF NodesTypeOK
  <2>2. CASE c # d
    BY <1>d, <2>1, <2>2 DEF Looks
  <2>3. CASE c = d
    <3>1. Len(todo[d]) = 1
      BY <1>d, <2>3
    <3>2. Step(d) # "record"
      BY <1>0, <3>1
    <3> QED
      BY <1>d, <2>3, <3>2 DEF Looks
  <2> QED
    BY <2>2, <2>3
<1>2. ASSUME NEW c \in Call, Get(c) \/ Asked(c) \/ Written(c) \/ Cancel(c) \/ Expire(c)
      PROVE  Recorded(d)'
  BY <1>0, <1>2, <1>b DEF Get, Asked, Written, Cancel, Expire, Go, Locked, Keeps, Onward
<1>3. ASSUME NEW c \in Call, Read(c)
      PROVE  Recorded(d)'
  <2>0. log' = log /\ status' = status /\ Looks(c, Len(log))
    BY <1>3, ReadCases DEF server
  <2>1. c # d \/ Len(todo[d]) = 1 => looked'[d] = looked[d]
    BY <1>d, <2>0
  <2>2. ASSUME NEW op \in Writes, NEW nodes \in SUBSET Node, Begins(c, op, nodes)
        PROVE  Recorded(d)'
    <3>1. /\ at' = [at EXCEPT ![c] = "ask"] /\ left' = [left EXCEPT ![c] = nodes]
          /\ Len(todo'[d]) = Len(todo[d])
          /\ work[c].kind = "close" => nodes = work[c].nodes
      BY <2>2, BeginFacts
    <3>2. CASE c = d
      <4>1. left'[d] # {}
        BY <1>0, <1>1, <3>1, <3>2, WorkFacts
      <4>2. Len(todo[d]) = 1
        BY <3>1, <4>1
      <4> QED
        BY <1>0, <1>a, <2>1, <4>2
    <3>3. CASE c # d
      BY <1>0, <1>b, <2>1, <3>1, <3>3
    <3> QED
      BY <3>2, <3>3
  <2>3. ASSUME NEW good \in BOOLEAN, Skips(c, good)
        PROVE  Recorded(d)'
    <3>1. Continue(c, good) /\ left' = left
      BY <2>3 DEF Skips, Skip
    <3>2. c = d /\ good /\ Len(todo[d]) = 2 => Recorded(d)'
      <4>1. c = d /\ good /\ Len(todo[d]) = 2 => status[Target(d)] = work[d].outcome
        BY <2>3 DEF Skips, Matches
      <4> QED
        BY <1>1, <2>0, <4>1 DEF Recorded
    <3> QED
      BY <1>c, <2>1, <3>1, <3>2
  <2>4. CASE Ends(c)
    <3>1. todo' = todo /\ left' = left /\ at' = [at EXCEPT ![c] = "done"]
      BY <2>4 DEF Ends, Go
    <3>2. CASE c = d
      <4>1. at'[d] \notin Locked
        BY <1>0, <3>1, <3>2 DEF Locked
      <4> QED
        BY <1>0, <1>a, <2>1, <3>1, <4>1
    <3>3. CASE c # d
      BY <1>0, <1>b, <2>1, <3>1, <3>3
    <3> QED
      BY <3>2, <3>3
  <2> QED
    BY <1>3, <2>2, <2>3, <2>4, ReadCases
<1>4. ASSUME NEW c \in Call, Ask(c)
      PROVE  Recorded(d)'
  <2>1. left' = left /\ looked' = looked
        /\ (Continue(c, FALSE) \/ (at[c] = "ask" /\ Go(c, "asked") /\ todo' = todo))
    BY <1>4 DEF Ask
  <2>2. CASE at[c] = "ask" /\ Go(c, "asked") /\ todo' = todo
    BY <1>0, <1>b, <2>1, <2>2 DEF Go, Locked
  <2> QED
    BY <1>c, <2>1, <2>2
<1>5. ASSUME NEW c \in Call, Write(c)
      PROVE  Recorded(d)'
  <2>1. CASE Quits(c)
    BY <1>0, <1>b, <2>1 DEF Quits, Go, Locked
  <2>2. ASSUME NEW n \in left[c], Makes(c, n)
        PROVE  Recorded(d)'
    <3>1. at[c] = "hold" /\ todo' = todo /\ left' = [left EXCEPT ![c] = @ \ {n}] /\ Looks(c, Len(log'))
          /\ \E place : at' = [at EXCEPT ![c] = place]
      BY <2>2 DEF Makes, Go
    <3>2. c # d \/ Len(todo[d]) = 1 => looked'[d] = looked[d]
      BY <1>d, <3>1
    <3>3. CASE c # d
      BY <1>0, <1>b, <3>1, <3>2, <3>3
    <3>4. CASE c = d /\ Len(todo[d]) = 2
      <4>1. Step(c) = "record"
        BY <1>0, <3>4
      <4>2. n = Target(d)
        BY <1>1, <2>2, <3>4, WorkFacts DEF LeftInv, Sweeping
      <4>3. status'[n] \in StatusAfter(c, n)
        BY <2>2, MadeFacts
      <4>4. status'[Target(d)] = work[d].outcome
        BY <3>4, <4>1, <4>2, <4>3 DEF StatusAfter
      <4> QED
        BY <1>1, <4>4 DEF Recorded
    <3>5. CASE Len(todo[d]) # 2
      BY <1>0, <1>a, <3>2, <3>5
    <3> QED
      BY <3>3, <3>4, <3>5
  <2> QED
    BY <1>5, <2>1, <2>2, WriteCases
<1>6. ASSUME NEW c \in Call, Release(c)
      PROVE  Recorded(d)'
  <2>1. at[c] = "release" /\ Continue(c, ok[c]) /\ left' = left /\ looked' = looked
    BY <1>6 DEF Release
  <2>2. c = d /\ ok[c] /\ Len(todo[d]) = 2 => Recorded(d)'
    BY <1>0, <1>a, <2>1 DEF Locked
  <2> QED
    BY <1>c, <2>1, <2>2
<1>7. CASE UNCHANGED nodesVars
  BY <1>7, <1>b DEF nodesVars
<1> QED
  BY <1>2, <1>3, <1>4, <1>5, <1>6, <1>7 DEF NodesNext

\* A call with one locked write left never has more.
LEMMA ShortStays ==
    ASSUME NodesTypeOK, TodoInv, [NodesNext]_nodesVars, NEW d \in Call, Len(todo[d]) = 1
    PROVE  Len(todo'[d]) = 1
<1>1. CASE todo' = todo
  BY <1>1
<1>2. ASSUME NEW c \in Call, NEW good, Continue(c, good)
      PROVE  Len(todo'[d]) = 1
  <2>1. \/ todo' = todo
        \/ todo' = [todo EXCEPT ![c] = Tail(@)] /\ Len(todo[c]) = 2
    BY <1>2, ContinueFacts
  <2>2. c # d \/ todo' = todo
    BY <2>1
  <2> QED
    BY <2>1, <2>2 DEF NodesTypeOK
<1>3. ASSUME NEW c \in Call, Read(c)
      PROVE  Len(todo'[d]) = 1
  <2>1. ASSUME NEW op \in Writes, NEW nodes \in SUBSET Node, Begins(c, op, nodes)
        PROVE  Len(todo'[d]) = 1
    BY <2>1, BeginFacts
  <2> QED
    BY <1>1, <1>2, <1>3, <2>1, ReadCases DEF Skips, Skip, Ends
<1>4. ASSUME NEW c \in Call, Ask(c) \/ Release(c)
      PROVE  Len(todo'[d]) = 1
  BY <1>1, <1>2, <1>4 DEF Ask, Release
<1> QED
  BY <1>1, <1>3, <1>4 DEF NodesNext, nodesVars, Get, Asked, Write, Written, Cancel, Expire

LEMMA CloseNext ==
    ASSUME NodesTypeOK, TodoInv, LeftInv, LookedInv, CloseInv, [NodesNext]_nodesVars
    PROVE  CloseInv'
<1>0. work' = work
  BY WorkStays
<1>1. \A c \in Call : at'[c] = "release" /\ ok'[c] => left'[c] = {}
  BY ReleaseStep
<1>2. ASSUME NEW c \in Call, work[c].kind = "close",
             Len(todo'[c]) = 1 \/ (at'[c] \in Locked /\ Len(todo'[c]) = 2 /\ left'[c] = {})
      PROVE  Recorded(c)'
  BY <1>2, CloseStep
<1> QED
  BY <1>0, <1>1, <1>2 DEF CloseInv

\* Whoever archives a plan by closing it is past the first of its two writes,
\* and looks no more.
LEMMA ArchiveStep ==
    ASSUME NodesTypeOK, TodoInv, LeftInv, CloseInv, ArchiveInv, [NodesNext]_nodesVars
    PROVE  ArchiveInv'
<1>0. work' = work /\ work \in Works /\ log \in Seq(Entry) /\ Len(log) \in Nat /\ DOMAIN log = 1 .. Len(log)
  BY WorkStays DEF NodesTypeOK
<1> DEFINE Good(k) == LET c == log'[k].call IN
        log'[k].op = "archive" /\ work[c].kind = "close" =>
            /\ Len(todo'[c]) = 1
            /\ \/ log'[k].status = work[c].outcome
               \/ \E i \in looked'[c]+1 .. k-1 : /\ log'[i].call # c /\ log'[i].node = log'[k].node
                                                 /\ log'[i].status # work[c].outcome
<1>1. ASSUME NEW c \in Call, Len(todo[c]) = 1
      PROVE  work[c].kind = "close" => Len(todo'[c]) = 1 /\ looked'[c] = looked[c]
  <2>0. todo[c] \in Shapes(work[c].kind) /\ work[c].kind \in WorkKinds
    BY <1>0, WorkFacts DEF TodoInv
  <2>1. ASSUME work[c].kind = "close"
        PROVE  Step(c) # "record"
    <3>1. todo[c] \in Shapes("close") /\ "close" \in WorkKinds
      BY <2>0, <2>1
    <3>2. Head(todo[c]) = IF Len(todo[c]) = 2 THEN "record" ELSE "archive"
      BY <3>1, ShapeFacts
    <3> QED
      BY <1>1, <3>2 DEF Step
  <2>2. work[c].kind = "close" => looked'[c] = looked[c]
    BY <2>1, LookCases
  <2>3. Len(todo'[c]) = 1
    BY <1>1, ShortStays
  <2> QED
    BY <2>2, <2>3
<1>2. ASSUME NEW k \in DOMAIN log, \A i \in DOMAIN log : log'[i] = log[i]
      PROVE  Good(k)
  <2>1. log[k].call \in Call /\ \A i \in 1 .. k-1 : i \in DOMAIN log /\ log'[i] = log[i]
    BY <1>0, <1>2, EntryFacts
  <2>2. looked[log[k].call] \in Nat
    BY <2>1 DEF NodesTypeOK
  <2>3. CASE log[k].op = "archive" /\ work[log[k].call].kind = "close"
    <3>1. /\ Len(todo[log[k].call]) = 1
          /\ log[k].status = work[log[k].call].outcome \/ Intruded(log[k].call, log[k].node, k)
      BY <2>3 DEF ArchiveInv
    <3>2. Len(todo'[log[k].call]) = 1 /\ looked'[log[k].call] = looked[log[k].call]
      BY <1>1, <2>1, <2>3, <3>1
    <3>3. ASSUME Intruded(log[k].call, log[k].node, k)
          PROVE  \E i \in looked'[log[k].call]+1 .. k-1 :
                     /\ log'[i].call # log[k].call /\ log'[i].node = log[k].node
                     /\ log'[i].status # work[log[k].call].outcome
      <4>1. PICK i \in looked[log[k].call]+1 .. k-1 :
                     /\ log[i].call # log[k].call /\ log[i].node = log[k].node
                     /\ log[i].status # work[log[k].call].outcome
        BY <3>3 DEF Intruded
      <4>2. i \in 1 .. k-1
        BY <2>2, <4>1
      <4>3. log'[i] = log[i]
        BY <2>1, <4>2
      <4> QED
        BY <3>2, <4>1, <4>3
    <3> QED
      BY <1>2, <3>1, <3>2, <3>3
  <2>4. CASE ~(log[k].op = "archive" /\ work[log[k].call].kind = "close")
    BY <1>2, <2>4
  <2> QED
    BY <2>3, <2>4
<1>3. CASE log' = log
  BY <1>0, <1>2, <1>3 DEF ArchiveInv, Intruded
<1>4. ASSUME NEW c \in Call, NEW n \in left[c], Makes(c, n)
      PROVE  ArchiveInv'
  <2>0. /\ DOMAIN log' = 1 .. Len(log) + 1
        /\ \A i \in DOMAIN log : log'[i] = log[i]
        /\ log'[Len(log) + 1] = [call |-> c, node |-> n, op |-> Step(c), status |-> status'[n]]
        /\ status'[n] \in StatusAfter(c, n)
        /\ work[c].kind \in WorkKinds /\ todo[c] \in Shapes(work[c].kind)
    BY <1>4, MadeFacts
  <2>1. ASSUME Step(c) = "archive", work[c].kind = "close"
        PROVE  Good(Len(log) + 1)
    <3>1. Len(todo[c]) = 1
      BY <2>0, <2>1, ShapeFacts DEF Step
    <3>2. Recorded(c) /\ looked'[c] = looked[c] /\ Len(todo'[c]) = 1 /\ looked[c] \in Nat
      BY <1>1, <2>1, <3>1 DEF CloseInv, NodesTypeOK
    <3>3. n = Target(c)
      <4>1. left[c] \subseteq work[c].nodes /\ ~Sweeping(c)
        BY <2>1 DEF LeftInv, Sweeping
      <4> QED
        BY <1>0, <4>1, WorkFacts
    <3>4. status'[n] = status[n]
      BY <2>0, <2>1 DEF StatusAfter
    <3>5. CASE status[n] = work[c].outcome
      BY <2>0, <3>2, <3>4, <3>5
    <3>6. CASE status[n] # work[c].outcome
      <4>1. PICK i \in looked[c]+1 .. Len(log) : /\ log[i].call # c /\ log[i].node = n
                                                 /\ log[i].status # work[c].outcome
        BY <3>2, <3>3, <3>6 DEF Recorded
      <4>2. i \in looked'[c]+1 .. (Len(log) + 1) - 1 /\ log'[i] = log[i]
        BY <1>0, <2>0, <3>2, <4>1
      <4> QED
        BY <2>0, <3>2, <4>1, <4>2
    <3> QED
      BY <3>5, <3>6
  <2>2. ASSUME NEW k \in DOMAIN log'
        PROVE  Good(k)
    <3>1. CASE k \in DOMAIN log
      BY <1>2, <2>0, <3>1
    <3>2. CASE k = Len(log) + 1
      BY <2>0, <2>1, <3>2
    <3> QED
      BY <1>0, <2>0, <3>1, <3>2
  <2> QED
    BY <1>0, <2>2 DEF ArchiveInv, Intruded
<1> QED
  BY <1>3, <1>4, LogCases

-----------------------------------------------------------------------------
(* The invariant.                                                          *)

LEMMA InitInv == ASSUME NodesInit PROVE NodesInv
<1>1. /\ work \in Works /\ log = <<>> /\ DOMAIN log = {}
      /\ \A c \in Call : at[c] \in {"new", "start"} /\ todo[c] = Sections(work[c].kind)
  BY DEF NodesInit
<1>2. \A c \in Call : work[c].kind \in WorkKinds /\ todo[c] \in Shapes(work[c].kind)
  BY <1>1, WorkFacts, SectionsShape
<1>3. todo \in [Call -> Seq(Steps)]
  BY <1>2, ShapeFacts DEF NodesInit
<1>4. NodesTypeOK
  BY <1>1, <1>3, WorksAssumption DEF NodesInit, NodesTypeOK, States
<1>5. TodoInv
  BY <1>1, <1>2 DEF TodoInv, Locked
<1>6. LeaseInv /\ BulkInv /\ PatchInv /\ LeftInv /\ LookedInv
  BY <1>1 DEF NodesInit, LeaseInv, BulkInv, PatchInv, LeftInv, LookedInv
<1>7. BulkIsNotInterleaved /\ PatchOverwritesNothingUnseen /\ ArchiveInv
  BY <1>1 DEF BulkIsNotInterleaved, PatchOverwritesNothingUnseen, ArchiveInv
<1>8. CloseInv
  <2>1. \A c \in Call : at[c] \notin Locked
    BY <1>1 DEF Locked
  <2>2. ASSUME NEW c \in Call, work[c].kind = "close"
        PROVE  Len(todo[c]) = 2
    <3>1. todo[c] = <<"record", "archive">>
      BY <1>1, <2>2 DEF Sections
    <3>2. Len(<<"record", "archive">>) = 2
      BY TwoSteps DEF Steps, Writes
    <3> QED
      BY <3>1, <3>2, Zenon
  <2> QED
    BY <1>1, <2>1, <2>2 DEF CloseInv
<1> QED
  BY <1>4, <1>5, <1>6, <1>7, <1>8 DEF NodesInv

LEMMA NextInv == ASSUME NodesInv, [NodesNext]_nodesVars PROVE NodesInv'
<1> USE DEF NodesInv
<1>1. NodesTypeOK' /\ TodoInv'
  BY NextType
<1>2. LeaseInv'
  BY LeaseStep
<1>3. BulkInv' /\ BulkIsNotInterleaved'
  BY BulkStep
<1>4. PatchInv' /\ PatchOverwritesNothingUnseen'
  BY PatchStep
<1>5. LeftInv' /\ LookedInv' /\ CloseInv' /\ ArchiveInv'
  BY LeftStep, LookedStep, CloseNext, ArchiveStep
<1> QED
  BY <1>1, <1>2, <1>3, <1>4, <1>5

LEMMA SpecInv == NodesSpec => []NodesInv
BY InitInv, NextInv, PTL DEF NodesSpec

(* Every call keeps to its locked writes and the server's state stays well *)
(* formed.                                                                 *)
THEOREM SpecTypeOK == NodesSpec => []NodesTypeOK
<1>1. NodesInv => NodesTypeOK
  BY DEF NodesInv
<1> QED
  BY <1>1, SpecInv, PTL

(* A call that is over, cancelled or not, holds no lease unless the answer *)
(* to a request about the lease was lost.                                  *)
THEOREM SpecLeaseIsReleased == NodesSpec => []LeaseIsReleased
<1>1. NodesInv => LeaseIsReleased
  BY DEF NodesInv, LeaseInv, LeaseIsReleased
<1> QED
  BY <1>1, SpecInv, PTL

(* Nobody else writes between two writes of one bulk call or of one folder *)
(* move, also when its lease runs out halfway.                             *)
THEOREM SpecBulkIsNotInterleaved == NodesSpec => []BulkIsNotInterleaved
<1>1. NodesInv => BulkIsNotInterleaved
  BY DEF NodesInv
<1> QED
  BY <1>1, SpecInv, PTL

(* A guarded patch is only made to the revision its caller has read.       *)
THEOREM SpecPatchOverwritesNothingUnseen == NodesSpec => []PatchOverwritesNothingUnseen
<1>1. NodesInv => PatchOverwritesNothingUnseen
  BY DEF NodesInv
<1> QED
  BY <1>1, SpecInv, PTL

(* A plan that a call archives to close it has the outcome of that call    *)
(* then, unless a write of another call between the two writes of this one *)
(* has taken it away.                                                      *)
THEOREM SpecClosedPlanHasOutcome == NodesSpec => []ClosedPlanHasOutcome
<1>1. NodesInv => ClosedPlanHasOutcome
  BY DEF NodesInv, ArchiveInv, ClosedPlanHasOutcome
<1> QED
  BY <1>1, SpecInv, PTL

-----------------------------------------------------------------------------
(* The credential store.  What a call carries has come from the file it is *)
(* pinned to, whatever is selected, migrated or logged out meanwhile.      *)

\* What a file may hold: never a login of the other kind.
Belongs(content, f) == content # (IF f = "user" THEN "P" ELSE "U")

CarriedInv ==
    /\ \A f \in File : Belongs(file[f], f)
    /\ \A c \in LoginCall :
          /\ loginJob[c] \in Selecting /\ loginAt[c] \notin {"start", "project?", "legacy?"} => chosen[c] \in File
          /\ loginJob[c] = "save" /\ loginAt[c] = "read" => Belongs(carried[c], chosen[c])

LoginInv == LoginTypeOK /\ CarriedInv

LoginPlaces == {"start", "project?", "legacy?", "chosen", "locked", "read", "saved",
                "merge", "stored", "copied", "done", "refused"}

LEMMA LoginFunctions ==
    ASSUME LoginTypeOK
    PROVE  /\ loginAt \in [LoginCall -> LoginPlaces] /\ chosen \in [LoginCall -> File \cup {Nobody}]
           /\ loginJob \in [LoginCall -> LoginKinds]
<1>1. loginAt \in [LoginCall -> LoginPlaces] /\ chosen \in [LoginCall -> File \cup {Nobody}]
  BY DEF LoginTypeOK, LoginPlaces
<1>2. loginJob \in LoginJobs
  BY DEF LoginTypeOK
<1> QED
  BY <1>1, <1>2, StoreAssumption

LEMMA LoginInitInv == ASSUME LoginInit PROVE LoginInv
<1>1. LoginTypeOK
  BY StoreAssumption DEF LoginInit, LoginTypeOK, File, Content, Profile, Locks, Overridden
<1>2. CarriedInv
  BY DEF LoginInit, CarriedInv, Belongs, File
<1> QED
  BY <1>1, <1>2 DEF LoginInv

LEMMA WatchType ==
    ASSUME over \in [LoginCall -> BOOLEAN], Watch
    PROVE  over' \in [LoginCall -> BOOLEAN]
BY DEF Watch, Overridden

LEMMA UnlockType ==
    ASSUME lockHolder \in [Locks -> LoginCall \cup {Nobody}], NEW c, Unlock(c)
    PROVE  lockHolder' \in [Locks -> LoginCall \cup {Nobody}]
BY DEF Unlock

LEMMA LoginStep ==
    ASSUME LoginInv, NEW c \in LoginCall,
           Select(c) \/ Request(c) \/ Lock(c) \/ Load(c) \/ Merge(c) \/ NoUser(c)
    PROVE  LoginInv'
<1> USE DEF LoginInv
<1>0. /\ loginAt \in [LoginCall -> LoginPlaces] /\ chosen \in [LoginCall -> File \cup {Nobody}]
      /\ loginJob \in [LoginCall -> LoginKinds]
  BY LoginFunctions
<1>1. CASE Select(c)
  <2>1. chosen' = chosen \/ (\E f \in File : Choose(c, f))
    BY <1>1 DEF Select, File
  <2>2. LoginTypeOK'
    BY <1>1 DEF Select, Choose, LoginGo, NoChange, LoginTypeOK, File, Profile
  <2>3. CarriedInv'
    BY <1>0, <1>1 DEF Select, Choose, LoginGo, NoChange, LoginTypeOK, CarriedInv, File, Profile, Selecting
  <2> QED
    BY <2>2, <2>3
<1>2. CASE Request(c)
  <2>1. chosen[c] \in File /\ file[chosen[c]] \in Content
    BY <1>2 DEF Request, LoginTypeOK, CarriedInv, Selecting
  <2> QED
    BY <1>0, <1>2, <2>1 DEF Request, LoginGo, NoChange, LoginTypeOK, CarriedInv
<1>3. CASE Lock(c)
  <2>1. chosen[c] \in File
    BY <1>3 DEF Lock, LoginTypeOK, CarriedInv, Selecting
  <2> QED
    BY <1>0, <1>3, <2>1 DEF Lock, Take, LoginGo, NoChange, LoginTypeOK, CarriedInv, Locks
<1>4. CASE Load(c)
  <2>1. chosen[c] \in File /\ file[chosen[c]] \in Content /\ Belongs(file[chosen[c]], chosen[c])
    BY <1>4 DEF Load, LoginTypeOK, CarriedInv, Selecting
  <2> QED
    BY <1>0, <1>4, <2>1 DEF Load, LoginGo, NoChange, LoginTypeOK, CarriedInv
<1>5. CASE Merge(c)
  BY <1>0, <1>5 DEF Merge, LoginGo, NoChange, LoginTypeOK, CarriedInv
<1>6. CASE NoUser(c)
  BY <1>0, <1>6 DEF NoUser, LoginGo, NoChange, LoginTypeOK, CarriedInv, Selecting
<1> QED
  BY <1>1, <1>2, <1>3, <1>4, <1>5, <1>6

LEMMA StoreStep ==
    ASSUME LoginInv, NEW c \in LoginCall,
           Save(c) \/ Merged(c) \/ Login(c) \/ SetProfile(c) \/ Logout(c) \/ Migrate(c)
    PROVE  LoginInv'
<1> USE DEF LoginInv
<1>0. /\ loginAt \in [LoginCall -> LoginPlaces] /\ chosen \in [LoginCall -> File \cup {Nobody}]
      /\ loginJob \in [LoginCall -> LoginKinds]
  BY LoginFunctions
<1>a. ASSUME NEW f \in File, NEW content \in Content, Store(f, content), Belongs(content, f)
      PROVE  /\ file' \in [File -> Content] /\ profile' \in Profile /\ over' \in [LoginCall -> BOOLEAN]
             /\ \A g \in File : Belongs(file'[g], g)
  BY <1>a, WatchType DEF Store, LoginTypeOK, CarriedInv
<1>b. Unlock(c) => lockHolder' \in [Locks -> LoginCall \cup {Nobody}]
  BY UnlockType DEF LoginTypeOK
<1>1. CASE Save(c)
  <2> DEFINE content == IF carried[c] = "absent" THEN "blank" ELSE carried[c]
  <2>1. chosen[c] \in File /\ content \in Content /\ Belongs(content, chosen[c])
    BY <1>1 DEF Save, LoginTypeOK, CarriedInv, Selecting, Content, Belongs
  <2>2. Store(chosen[c], content)
    BY <1>1 DEF Save, Pinned
  <2>3. \E place \in {"done", "saved"} : loginAt' = [loginAt EXCEPT ![c] = place]
    BY <1>1 DEF Save, LoginGo
  <2>4. lockHolder' \in [Locks -> LoginCall \cup {Nobody}] /\ UNCHANGED <<loginJob, chosen, carried, was>>
    BY <1>1, <1>b DEF Save, LoginTypeOK
  <2>5. /\ file' \in [File -> Content] /\ profile' \in Profile /\ over' \in [LoginCall -> BOOLEAN]
        /\ \A g \in File : Belongs(file'[g], g)
    BY <1>a, <2>1, <2>2
  <2>6. LoginTypeOK'
    BY <2>3, <2>4, <2>5 DEF LoginTypeOK
  <2>7. loginAt[c] = "read"
    BY <1>1 DEF Save
  <2>8. CarriedInv'
    BY <1>0, <2>3, <2>4, <2>5, <2>7 DEF CarriedInv
  <2> QED
    BY <2>6, <2>8
<1>2. CASE Merged(c)
  <2>1. profile' \in Profile /\ over' \in [LoginCall -> BOOLEAN] /\ lockHolder' \in [Locks -> LoginCall \cup {Nobody}]
    BY <1>2, <1>b, WatchType DEF Merged, LoginTypeOK
  <2> QED
    BY <1>0, <1>2, <2>1 DEF Merged, LoginGo, LoginTypeOK, CarriedInv
<1>3. CASE Login(c)
  <2> DEFINE content == IF loginJob[c] = "login" THEN "U" ELSE "P"
  <2>1. LoginFile(c) \in File /\ content \in Content /\ Belongs(content, LoginFile(c))
    BY <1>3 DEF Login, LoginFile, File, Content, Belongs
  <2>2. Store(LoginFile(c), content) /\ loginJob[c] \notin Selecting
    BY <1>3 DEF Login, Selecting
  <2>3. \E place \in {"done", "stored"} : loginAt' = [loginAt EXCEPT ![c] = place]
    BY <1>3 DEF Login, LoginGo
  <2>4. UNCHANGED <<loginJob, lockHolder, chosen, carried, was>>
    BY <1>3 DEF Login
  <2>5. /\ file' \in [File -> Content] /\ profile' \in Profile /\ over' \in [LoginCall -> BOOLEAN]
        /\ \A g \in File : Belongs(file'[g], g)
    BY <1>a, <2>1, <2>2
  <2> QED
    BY <1>0, <2>2, <2>3, <2>4, <2>5 DEF LoginTypeOK, CarriedInv
<1>4. CASE SetProfile(c)
  <2>1. profile' \in Profile /\ over' \in [LoginCall -> BOOLEAN] /\ loginJob[c] \notin Selecting
    BY <1>4, WatchType DEF SetProfile, LoginTypeOK, Profile, Selecting
  <2> QED
    BY <1>0, <1>4, <2>1 DEF SetProfile, LoginGo, LoginTypeOK, CarriedInv
<1>5. CASE Logout(c)
  <2>1. \E f \in File : Store(f, "out") /\ (f = chosen[c] \/ loginJob[c] \notin Selecting)
    <3>1. loginJob[c] = "logout_project" /\ loginAt[c] = "locked" => chosen[c] \in File
      BY DEF CarriedInv, Selecting
    <3> QED
      BY <1>5, <3>1 DEF Logout, File, Selecting
  <2>2. PICK f \in File : Store(f, "out")
    BY <2>1
  <2>3. /\ file' \in [File -> Content] /\ profile' \in Profile /\ over' \in [LoginCall -> BOOLEAN]
        /\ \A g \in File : Belongs(file'[g], g)
    BY <1>a, <2>2 DEF Belongs, Content
  <2>4. lockHolder' \in [Locks -> LoginCall \cup {Nobody}]
    BY <1>5, <1>b DEF Logout, LoginTypeOK
  <2>5. /\ loginAt' = [loginAt EXCEPT ![c] = "done"] /\ UNCHANGED <<loginJob, chosen, carried, was>>
        /\ loginJob[c] = "logout" \/ chosen[c] \in File
    BY <1>5 DEF Logout, LoginGo, CarriedInv, Selecting
  <2> QED
    BY <1>0, <2>3, <2>4, <2>5 DEF LoginTypeOK, CarriedInv, Selecting
<1>6. CASE Migrate(c)
  <2>0. loginJob[c] \notin Selecting /\ UNCHANGED <<loginJob, chosen, was>>
    BY <1>6 DEF Migrate, Selecting
  <2>1. /\ file' \in [File -> Content] /\ profile' \in Profile /\ over' \in [LoginCall -> BOOLEAN]
        /\ \A g \in File : Belongs(file'[g], g)
    <3>1. CASE Store("project", file["legacy"])
      <4>1. "project" \in File /\ file["legacy"] \in Content /\ Belongs(file["legacy"], "project")
        BY DEF LoginTypeOK, CarriedInv, File, Belongs
      <4> QED
        BY <1>a, <3>1, <4>1
    <3>2. CASE Store("legacy", "absent")
      BY <1>a, <3>2 DEF File, Content, Belongs
    <3>3. CASE NoChange
      BY <3>3 DEF NoChange, LoginTypeOK, CarriedInv
    <3> QED
      BY <1>6, <3>1, <3>2, <3>3 DEF Migrate
  <2>2. \E place \in {"refused", "copied", "done"} : loginAt' = [loginAt EXCEPT ![c] = place]
    BY <1>6 DEF Migrate, LoginGo
  <2>3. lockHolder' \in [Locks -> LoginCall \cup {Nobody}]
    BY <1>6, <1>b DEF Migrate, LoginTypeOK, Locks, File
  <2>4. carried' \in [LoginCall -> Content] /\ \A d \in LoginCall \ {c} : carried'[d] = carried[d]
    BY <1>6 DEF Migrate, LoginTypeOK, File
  <2>5. LoginTypeOK'
    BY <2>0, <2>1, <2>2, <2>3, <2>4 DEF LoginTypeOK
  <2>6. CarriedInv'
    BY <1>0, <2>0, <2>1, <2>2, <2>4 DEF CarriedInv, Selecting
  <2> QED
    BY <2>5, <2>6
<1> QED
  BY <1>1, <1>2, <1>3, <1>4, <1>5, <1>6

LEMMA LoginNextInv == ASSUME LoginInv, [LoginNext]_loginVars PROVE LoginInv'
<1>1. CASE UNCHANGED loginVars
  BY <1>1 DEF loginVars, LoginInv, LoginTypeOK, CarriedInv
<1> QED
  BY <1>1, LoginStep, StoreStep DEF LoginNext

LEMMA LoginSpecInv == LoginSpec => []LoginInv
BY LoginInitInv, LoginNextInv, PTL DEF LoginSpec

(* The files, the selection and the locks of the credential store keep     *)
(* their types.                                                            *)
THEOREM SpecLoginTypeOK == LoginSpec => []LoginTypeOK
<1>1. LoginInv => LoginTypeOK
  BY DEF LoginInv
<1> QED
  BY <1>1, LoginSpecInv, PTL

(* A login never gets into the file of the other kind, whatever is         *)
(* selected, migrated or logged out while a call saves.                    *)
THEOREM SpecLoginsStayApart == LoginSpec => []LoginsStayApart
<1>1. LoginInv => LoginsStayApart
  BY DEF LoginInv, CarriedInv, Belongs, File, LoginsStayApart
<1> QED
  BY <1>1, LoginSpecInv, PTL

-----------------------------------------------------------------------------
(* The project of a folder.  A clone keeps the project it declares and no  *)
(* other one is ever made for it (CallInv); in every folder the selection  *)
(* is there before the locator.  As long as the folder has not been given  *)
(* two projects, whoever gives it one finds that one, or none, in both     *)
(* files, and what has been read of the selection is what it still is      *)
(* (AgreedInv): the selection is set once and never changes again.         *)

CloneInv ==
    /\ cloned => projects = {Declared} /\ locator = Declared /\ selection \in {Unset, Declared}
    /\ NeverLockedOut

CallInv(c) ==
    /\ bootJob[c].kind = "attach" => cloned
    /\ bootAt[c] \in {"save", "check", "replace"} => mine[c] # Unset
    /\ bootAt[c] \in {"check", "replace"} \/ (bootAt[c] = "locator" /\ mine[c] # Unset) => selection # Unset
    /\ cloned => mine[c] \in {Unset, Declared} /\ bootAt[c] \notin {"wait", "again", "post", "find"}

AgreedInv(c) ==
    /\ bootAt[c] \in Giving => locator \in {Unset, Gives(c)} /\ selection \in {Unset, Gives(c)}
    /\ bootAt[c] \in {"check", "replace"} => selection = mine[c]
    /\ bootAt[c] = "locator" => mine[c] \in {Unset, selection}
    /\ answer[c] \in {Unset, selection}

BootInv ==
    /\ BootTypeOK /\ CloneInv /\ \A c \in BootCall : CallInv(c)
    /\ ~contested => ~Contest /\ \A c \in BootCall : AgreedInv(c)
    /\ ~contested => (selection # Unset /\ locator # Unset => selection = locator)

BootPlaces == {"start", "locator", "wait", "again", "post", "find", "save", "check", "replace",
               "done", "refused", "failed"}

LEMMA BootTypes ==
    ASSUME BootTypeOK, NEW c \in BootCall
    PROVE  /\ bootAt \in [BootCall -> BootPlaces]
           /\ mine \in [BootCall -> Projects \cup {Unset}] /\ answer \in [BootCall -> Projects \cup {Unset}]
           /\ bootHolder \in BootCall \cup {Unset} /\ faults \in 0..MaxFaults
           /\ bootJob[c].slug \in Slugs /\ bootJob[c].slug \in Projects
           /\ Unset \notin Projects /\ Declared # Unset /\ Declared \in Projects
           /\ Giving \subseteq BootPlaces
BY BootstrapAssumption DEF BootTypeOK, BootPlaces, Projects, Giving

LEMMA BootInitInv == ASSUME BootInit PROVE BootInv
<1>1. /\ bootJob \in BootJobs /\ cloned \in BOOLEAN /\ faults = 0 /\ contested = FALSE
      /\ projects = (IF cloned THEN {Declared} ELSE {})
      /\ selection = Unset /\ locator = (IF cloned THEN Declared ELSE Unset)
      /\ bootHolder = Unset /\ bootAt = [c \in BootCall |-> "start"]
      /\ mine = [c \in BootCall |-> Unset] /\ answer = [c \in BootCall |-> Unset]
      /\ \A c \in BootCall : bootJob[c].kind = "attach" => cloned
  BY DEF BootInit
<1>2. BootTypeOK
  <2>1. Declared \in Projects /\ faults \in 0..MaxFaults
    BY <1>1, BootstrapAssumption DEF Projects
  <2>2. projects \subseteq Projects /\ locator \in Projects \cup {Unset} /\ selection \in Projects \cup {Unset}
    BY <1>1, <2>1
  <2>3. contested \in BOOLEAN
    BY <1>1
  <2> QED
    BY <1>1, <2>1, <2>2, <2>3 DEF BootTypeOK
<1>3. CloneInv /\ \A c \in BootCall : CallInv(c)
  BY <1>1 DEF CloneInv, NeverLockedOut, CallInv
<1>4. ~Contest /\ \A c \in BootCall : AgreedInv(c)
  BY <1>1 DEF Contest, AgreedInv, Giving
<1> QED
  BY <1>1, <1>2, <1>3, <1>4 DEF BootInv

\* A step of one call that leaves the two files as they are, and what it must fit.
Takes(c, place, m, a) ==
    /\ place \in BootPlaces /\ BootGo(c, place)
    /\ m \in Projects \cup {Unset} /\ mine' = [mine EXCEPT ![c] = m]
    /\ a \in Projects \cup {Unset} /\ answer' = [answer EXCEPT ![c] = a]
    /\ UNCHANGED <<bootJob, cloned, selection, locator>>
    /\ projects' \subseteq Projects /\ (cloned => projects' = projects)
    /\ bootHolder' \in BootCall \cup {Unset} /\ faults' \in 0..MaxFaults
    /\ contested' = (contested \/ Contest')

Fits(c, place, m, a) ==
    /\ place \in {"save", "check", "replace"} => m # Unset
    /\ place \in {"check", "replace"} \/ (place = "locator" /\ m # Unset) => selection # Unset
    /\ cloned => m \in {Unset, Declared} /\ place \notin {"wait", "again", "post", "find"}
    /\ ~contested /\ ~Contest' =>
          /\ place \in {"post", "find"} => locator \in {Unset, bootJob[c].slug} /\ selection \in {Unset, bootJob[c].slug}
          /\ place \in {"save", "check", "replace"} => locator \in {Unset, m} /\ selection \in {Unset, m}
          /\ place \in {"check", "replace"} => selection = m
          /\ place = "locator" => m \in {Unset, selection}
          /\ a \in {Unset, selection}

LEMMA BootFrame ==
    ASSUME BootInv, NEW c \in BootCall, NEW place, NEW m, NEW a, Takes(c, place, m, a), Fits(c, place, m, a)
    PROVE  BootInv'
<1>0. /\ bootAt' = [bootAt EXCEPT ![c] = place]
      /\ bootAt'[c] = place /\ mine'[c] = m /\ answer'[c] = a
      /\ \A d \in BootCall \ {c} : bootAt'[d] = bootAt[d] /\ mine'[d] = mine[d] /\ answer'[d] = answer[d]
      /\ bootAt' \in [BootCall -> BootPlaces]
      /\ mine' \in [BootCall -> Projects \cup {Unset}] /\ answer' \in [BootCall -> Projects \cup {Unset}]
      /\ UNCHANGED <<bootJob, cloned, selection, locator>>
      /\ contested' = (contested \/ Contest')
  BY BootTypes DEF BootInv, BootGo, Takes
<1>1. BootTypeOK'
  <2>1. contested' \in BOOLEAN
    BY <1>0
  <2>2. BootTypeOK
    BY DEF BootInv
  <2> QED
    BY <1>0, <2>1, <2>2 DEF Takes, BootTypeOK, BootPlaces
<1>2. CloneInv'
  BY DEF BootInv, CloneInv, NeverLockedOut, Takes
<1>3. \A d \in BootCall : CallInv(d)'
  <2>1. CallInv(c)'
    BY <1>0 DEF BootInv, CallInv, Fits
  <2>2. ASSUME NEW d \in BootCall \ {c} PROVE CallInv(d)'
    BY <1>0, <2>2 DEF BootInv, CallInv
  <2> QED
    BY <2>1, <2>2
<1>4. ASSUME ~contested'
      PROVE  /\ ~Contest' /\ \A d \in BootCall : AgreedInv(d)'
             /\ selection' # Unset /\ locator' # Unset => selection' = locator'
  <2>0. ~contested /\ ~Contest'
    BY <1>0, <1>4
  <2>1. AgreedInv(c)'
    BY <1>0, <2>0 DEF AgreedInv, Gives, Giving, Fits
  <2>2. ASSUME NEW d \in BootCall \ {c} PROVE AgreedInv(d)'
    <3>1. AgreedInv(d)
      BY <2>0 DEF BootInv
    <3> QED
      BY <1>0, <3>1 DEF AgreedInv, Gives
  <2> QED
    BY <1>0, <2>0, <2>1, <2>2 DEF BootInv
<1> QED
  BY <1>1, <1>2, <1>3, <1>4 DEF BootInv

\* What a call is about to give a folder, while the folder has no second project.
LEMMA AgreedFacts ==
    ASSUME BootInv, NEW c \in BootCall
    PROVE  /\ CallInv(c)
           /\ ~contested => AgreedInv(c)
           /\ mine[c] \in Projects \cup {Unset} /\ answer[c] \in Projects \cup {Unset}
           /\ selection \in Projects \cup {Unset} /\ locator \in Projects \cup {Unset}
           /\ mine = [mine EXCEPT ![c] = mine[c]] /\ answer = [answer EXCEPT ![c] = answer[c]]
           /\ projects \subseteq Projects
           /\ ~contested => answer[c] \in {Unset, selection}
           /\ cloned => mine[c] \in {Unset, Declared} /\ locator = Declared /\ locator # Unset
                        /\ selection \in {Unset, Declared}
<1>1. CallInv(c) /\ (~contested => AgreedInv(c)) /\ BootTypeOK /\ CloneInv
  BY DEF BootInv
<1>2. /\ mine[c] \in Projects \cup {Unset} /\ answer[c] \in Projects \cup {Unset}
      /\ mine = [mine EXCEPT ![c] = mine[c]] /\ answer = [answer EXCEPT ![c] = answer[c]]
      /\ Declared # Unset
  BY <1>1, BootTypes
<1> QED
  BY <1>1, <1>2 DEF BootTypeOK, CallInv, AgreedInv, CloneInv

LEMMA EndStep ==
    ASSUME BootInv, NEW c \in BootCall, contested' = (contested \/ Contest'),
           UNCHANGED <<bootJob, cloned, folder, mine>>, faults' \in 0..MaxFaults, BootRelease(c) \/ UNCHANGED bootHolder,
           \/ UNCHANGED answer /\ \E place \in {"refused", "failed", "start"} : BootGo(c, place)
           \/ /\ Return(c, mine[c])
              /\ ~contested => mine[c] \in {Unset, selection}
    PROVE  BootInv'
<1>f. /\ mine[c] \in Projects \cup {Unset} /\ answer[c] \in Projects \cup {Unset} /\ projects \subseteq Projects
      /\ selection \in Projects \cup {Unset} /\ locator \in Projects \cup {Unset}
      /\ ~contested => answer[c] \in {Unset, selection}
      /\ cloned => mine[c] \in {Unset, Declared} /\ locator = Declared /\ locator # Unset
                   /\ selection \in {Unset, Declared}
  BY AgreedFacts
<1>0. bootHolder' \in BootCall \cup {Unset}
  BY BootTypes DEF BootRelease, BootInv
<1>1. ASSUME NEW place \in {"refused", "failed", "start"}, BootGo(c, place), UNCHANGED answer
      PROVE  BootInv'
  <2>1. place \in BootPlaces
    BY DEF BootPlaces
  <2>2. place \notin Giving /\ place \notin {"locator", "wait", "again", "post", "find", "save", "check", "replace"}
    BY DEF Giving
  <2>3. mine' = [mine EXCEPT ![c] = mine[c]] /\ answer' = [answer EXCEPT ![c] = answer[c]]
        /\ UNCHANGED <<bootJob, cloned, selection, locator>> /\ projects' = projects /\ projects' \subseteq Projects
    BY <1>1, AgreedFacts DEF folder
  <2>8. Takes(c, place, mine[c], answer[c])
    BY <1>f, <1>0, <1>1, <2>1, <2>2, <2>3 DEF Takes
  <2>9. Fits(c, place, mine[c], answer[c])
    BY <1>f, <1>0, <1>1, <2>1, <2>2, <2>3 DEF Fits
  <2> QED
    BY <2>8, <2>9, BootFrame
<1>2. CASE Return(c, mine[c]) /\ (~contested => mine[c] \in {Unset, selection})
  <2>1. "done" \in BootPlaces /\ BootGo(c, "done")
    BY <1>2 DEF BootPlaces, Return
  <2>2. mine' = [mine EXCEPT ![c] = mine[c]] /\ answer' = [answer EXCEPT ![c] = mine[c]]
        /\ UNCHANGED <<bootJob, cloned, selection, locator>> /\ projects' = projects /\ projects' \subseteq Projects
    BY <1>2, AgreedFacts DEF folder, Return
  <2>8. Takes(c, "done", mine[c], mine[c])
    BY <1>f, <1>0, <1>2, <2>1, <2>2 DEF Takes
  <2>9. Fits(c, "done", mine[c], mine[c])
    BY <1>f, <1>0, <1>2, <2>1, <2>2 DEF Fits
  <2> QED
    BY <2>8, <2>9, BootFrame
<1> QED
  BY <1>1, <1>2

\* A call whose next place follows from what it has read.
LEMMA MoveStep ==
    ASSUME BootInv, NEW c \in BootCall, contested' = (contested \/ Contest'),
           UNCHANGED <<bootJob, cloned, folder, mine, answer, faults>>, bootHolder' \in BootCall \cup {Unset},
           \/ BootGo(c, "wait") /\ ~cloned
           \/ BootGo(c, "again") /\ ~cloned
           \/ BootGo(c, "post") /\ locator = Unset
           \/ BootGo(c, "check") /\ bootAt[c] = "locator" /\ mine[c] # Unset /\ locator \in {Unset, mine[c]}
           \/ BootGo(c, "replace") /\ bootAt[c] = "check"
    PROVE  BootInv'
<1>f. /\ mine[c] \in Projects \cup {Unset} /\ answer[c] \in Projects \cup {Unset} /\ projects \subseteq Projects
      /\ selection \in Projects \cup {Unset} /\ locator \in Projects \cup {Unset}
      /\ ~contested => answer[c] \in {Unset, selection}
      /\ cloned => mine[c] \in {Unset, Declared} /\ locator = Declared /\ locator # Unset
                   /\ selection \in {Unset, Declared}
  BY AgreedFacts
<1>0. /\ mine' = [mine EXCEPT ![c] = mine[c]] /\ answer' = [answer EXCEPT ![c] = answer[c]]
      /\ UNCHANGED <<bootJob, cloned, selection, locator>> /\ projects' = projects /\ projects' \subseteq Projects
      /\ faults' \in 0..MaxFaults /\ bootAt \in [BootCall -> BootPlaces]
      /\ {"wait", "again", "post", "check", "replace"} \subseteq BootPlaces
  BY AgreedFacts, BootTypes DEF folder, BootPlaces, BootInv
<1>1. CASE BootGo(c, "wait") /\ ~cloned
  <2>1. Takes(c, "wait", mine[c], answer[c])
    BY <1>f, <1>0, <1>1 DEF Takes
  <2>2. Fits(c, "wait", mine[c], answer[c])
    BY <1>f, <1>0, <1>1 DEF Fits
  <2> QED
    BY <2>1, <2>2, BootFrame
<1>2. CASE BootGo(c, "again") /\ ~cloned
  <2>1. Takes(c, "again", mine[c], answer[c])
    BY <1>f, <1>0, <1>2 DEF Takes
  <2>2. Fits(c, "again", mine[c], answer[c])
    BY <1>f, <1>0, <1>2 DEF Fits
  <2> QED
    BY <2>1, <2>2, BootFrame
<1>3. CASE BootGo(c, "post") /\ locator = Unset
  <2>1. ~cloned
    BY <1>3, AgreedFacts
  <2>2. ~Contest' => selection \in {Unset, bootJob[c].slug}
    BY <1>0, <1>3 DEF Contest, Gives, Giving, BootGo
  <2>8. Takes(c, "post", mine[c], answer[c])
    BY <1>f, <1>0, <1>3, <2>1, <2>2 DEF Takes
  <2>9. Fits(c, "post", mine[c], answer[c])
    BY <1>f, <1>0, <1>3, <2>1, <2>2 DEF Fits
  <2> QED
    BY <2>8, <2>9, BootFrame
<1>4. CASE BootGo(c, "check") /\ bootAt[c] = "locator" /\ mine[c] # Unset /\ locator \in {Unset, mine[c]}
  <2>1. selection # Unset /\ (~contested => selection = mine[c])
    BY <1>4, AgreedFacts DEF CallInv, AgreedInv
  <2>8. Takes(c, "check", mine[c], answer[c])
    BY <1>f, <1>0, <1>4, <2>1 DEF Takes
  <2>9. Fits(c, "check", mine[c], answer[c])
    BY <1>f, <1>0, <1>4, <2>1 DEF Fits
  <2> QED
    BY <2>8, <2>9, BootFrame
<1>5. CASE BootGo(c, "replace") /\ bootAt[c] = "check"
  <2>1. selection # Unset /\ mine[c] # Unset /\ (~contested => selection = mine[c] /\ locator \in {Unset, mine[c]})
    BY <1>5, AgreedFacts DEF CallInv, AgreedInv, Gives, Giving
  <2>8. Takes(c, "replace", mine[c], answer[c])
    BY <1>f, <1>0, <1>5, <2>1 DEF Takes
  <2>9. Fits(c, "replace", mine[c], answer[c])
    BY <1>f, <1>0, <1>5, <2>1 DEF Fits
  <2> QED
    BY <2>8, <2>9, BootFrame
<1> QED
  BY <1>1, <1>2, <1>3, <1>4, <1>5

\* A call that has read, fetched, created or found a project.
LEMMA MineStep ==
    ASSUME BootInv, NEW c \in BootCall, contested' = (contested \/ Contest'),
           ReadSelection(c) \/ (Attach(c) /\ locator \in projects) \/ Post(c) \/ Find(c)
    PROVE  BootInv'
<1>f. /\ mine[c] \in Projects \cup {Unset} /\ answer[c] \in Projects \cup {Unset} /\ projects \subseteq Projects
      /\ selection \in Projects \cup {Unset} /\ locator \in Projects \cup {Unset}
      /\ ~contested => answer[c] \in {Unset, selection}
      /\ cloned => mine[c] \in {Unset, Declared} /\ locator = Declared /\ locator # Unset
                   /\ selection \in {Unset, Declared}
  BY AgreedFacts
<1>0. /\ bootJob[c].slug \in Projects /\ Unset \notin Projects
      /\ {"locator", "save", "find"} \subseteq BootPlaces
      /\ bootHolder \in BootCall \cup {Unset} /\ faults \in 0..MaxFaults
      /\ mine \in [BootCall -> Projects \cup {Unset}]
  BY BootTypes DEF BootPlaces, BootInv
<1>1. CASE ReadSelection(c)
  <2>1. mine' = [mine EXCEPT ![c] = selection] /\ answer' = [answer EXCEPT ![c] = answer[c]] /\ BootGo(c, "locator")
        /\ UNCHANGED <<bootJob, cloned, selection, locator>> /\ projects' = projects /\ projects' \subseteq Projects
        /\ bootHolder' = bootHolder /\ faults' = faults
    BY <1>1, AgreedFacts DEF folder, ReadSelection
  <2>8. Takes(c, "locator", selection, answer[c])
    BY <1>f, <1>0, <2>1 DEF Takes
  <2>9. Fits(c, "locator", selection, answer[c])
    BY <1>f, <1>0, <2>1 DEF Fits
  <2> QED
    BY <2>8, <2>9, BootFrame
<1>2. CASE Attach(c) /\ locator \in projects
  <2>1. mine' = [mine EXCEPT ![c] = locator] /\ answer' = [answer EXCEPT ![c] = answer[c]] /\ BootGo(c, "save")
        /\ UNCHANGED <<bootJob, cloned, selection, locator>> /\ projects' = projects /\ projects' \subseteq Projects
        /\ bootHolder' = bootHolder /\ faults' = faults
    BY <1>2, AgreedFacts DEF folder, Attach, Following
  <2>2. cloned
    BY <1>2, AgreedFacts DEF Attach, CallInv
  <2>8. Takes(c, "save", locator, answer[c])
    BY <1>f, <1>0, <2>1, <2>2 DEF Takes
  <2>9. Fits(c, "save", locator, answer[c])
    BY <1>f, <1>0, <2>1, <2>2 DEF Fits
  <2> QED
    BY <2>8, <2>9, BootFrame
<1>3. CASE Post(c)
  <2> DEFINE slug == bootJob[c].slug
  <2>1. ~cloned /\ (~contested => locator \in {Unset, slug} /\ selection \in {Unset, slug})
    BY <1>3, AgreedFacts DEF Post, CallInv, AgreedInv, Gives, Giving
  <2>2. answer' = [answer EXCEPT ![c] = answer[c]]
        /\ UNCHANGED <<bootJob, cloned, selection, locator>> /\ projects' \subseteq Projects
        /\ bootHolder' = bootHolder /\ faults' = faults
    BY <1>0, <1>3, AgreedFacts DEF Post
  <2>3. CASE BootGo(c, "find") /\ mine' = [mine EXCEPT ![c] = mine[c]]
    <3>1. Takes(c, "find", mine[c], answer[c])
      BY <1>f, <1>0, <2>1, <2>2, <2>3 DEF Takes
    <3>2. Fits(c, "find", mine[c], answer[c])
      BY <1>f, <1>0, <2>1, <2>2, <2>3 DEF Fits
    <3> QED
      BY <3>1, <3>2, BootFrame
  <2>4. CASE BootGo(c, "save") /\ mine' = [mine EXCEPT ![c] = slug]
    <3>1. Takes(c, "save", slug, answer[c])
      BY <1>f, <1>0, <2>1, <2>2, <2>4 DEF Takes
    <3>2. Fits(c, "save", slug, answer[c])
      BY <1>f, <1>0, <2>1, <2>2, <2>4 DEF Fits
    <3> QED
      BY <3>1, <3>2, BootFrame
  <2> QED
    BY <1>3, <2>3, <2>4, AgreedFacts DEF Post, Following
<1>4. CASE Find(c)
  <2>1. ~cloned /\ (~contested => locator \in {Unset, bootJob[c].slug} /\ selection \in {Unset, bootJob[c].slug})
    BY <1>4, AgreedFacts DEF Find, CallInv, AgreedInv, Gives, Giving
  <2>2. mine' = [mine EXCEPT ![c] = bootJob[c].slug] /\ answer' = [answer EXCEPT ![c] = answer[c]] /\ BootGo(c, "save")
        /\ UNCHANGED <<bootJob, cloned, selection, locator>> /\ projects' = projects /\ projects' \subseteq Projects
        /\ bootHolder' = bootHolder /\ faults' = faults
    BY <1>4, AgreedFacts DEF folder, Find, Following
  <2>8. Takes(c, "save", bootJob[c].slug, answer[c])
    BY <1>f, <1>0, <2>1, <2>2 DEF Takes
  <2>9. Fits(c, "save", bootJob[c].slug, answer[c])
    BY <1>f, <1>0, <2>1, <2>2 DEF Fits
  <2> QED
    BY <2>8, <2>9, BootFrame
<1> QED
  BY <1>1, <1>2, <1>3, <1>4

\* The steps that change a file of the folder.
LEMMA FolderStep ==
    ASSUME BootInv, NEW c \in BootCall, contested' = (contested \/ Contest'),
           SaveSelection(c) \/ ReplaceLocator(c)
    PROVE  BootInv'
<1>0. /\ bootAt \in [BootCall -> BootPlaces] /\ mine \in [BootCall -> Projects \cup {Unset}]
      /\ answer \in [BootCall -> Projects \cup {Unset}] /\ bootHolder \in BootCall \cup {Unset}
      /\ Unset \notin Projects /\ mine[c] # Unset /\ mine[c] \in Projects
      /\ bootAt[c] \in Giving /\ bootAt[c] \notin {"post", "find"} /\ Gives(c) = mine[c]
      /\ {"check", "done"} \subseteq BootPlaces
      /\ cloned => mine[c] = Declared
  BY BootTypes, AgreedFacts DEF BootInv, BootPlaces, SaveSelection, ReplaceLocator, CallInv, Giving, Gives
<1>a. ~contested => locator \in {Unset, mine[c]} /\ selection \in {Unset, mine[c]}
  BY <1>0, AgreedFacts DEF AgreedInv
<1>b. ~contested => \A d \in BootCall : bootAt[d] \in Giving => Gives(d) = mine[c]
  BY <1>0 DEF BootInv, Contest
<1>1. CASE SaveSelection(c)
  <2>1. bootAt' = [bootAt EXCEPT ![c] = "check"] /\ selection' = mine[c]
        /\ UNCHANGED <<bootJob, cloned, projects, locator, mine, bootHolder, answer, faults>>
    BY <1>1 DEF SaveSelection, Proceed, Following, BootGo
  <2>2. BootTypeOK'
    BY <1>0, <2>1 DEF BootInv, BootTypeOK, BootPlaces
  <2>3. CloneInv'
    BY <1>0, <2>1 DEF BootInv, CloneInv, NeverLockedOut
  <2>4. ASSUME NEW d \in BootCall PROVE CallInv(d)'
    <3>1. bootAt'[d] = IF d = c THEN "check" ELSE bootAt[d]
      BY <1>0, <2>1
    <3> QED
      BY <1>0, <2>1, <3>1, AgreedFacts DEF CallInv
  <2>5. ASSUME ~contested'
        PROVE  /\ ~Contest' /\ \A d \in BootCall : AgreedInv(d)'
               /\ selection' # Unset /\ locator' # Unset => selection' = locator'
    <3>0. ~contested /\ ~Contest'
      BY <2>5
    <3>1. ASSUME NEW d \in BootCall PROVE AgreedInv(d)'
      <4>1. CASE d = c
        <5>1. bootAt'[c] = "check"
          BY <1>0, <2>1
        <5>2. AgreedInv(c)
          BY <3>0, AgreedFacts
        <5> QED
          BY <1>0, <1>a, <2>1, <3>0, <4>1, <5>1, <5>2 DEF AgreedInv, Gives
      <4>2. CASE d # c
        <5>1. bootAt'[d] = bootAt[d] /\ Gives(d)' = Gives(d)
          BY <1>0, <2>1, <4>2 DEF Gives
        <5>2. AgreedInv(d) /\ (bootAt[d] \in Giving => Gives(d) = mine[c])
          BY <1>b, <3>0, AgreedFacts
        <5>3. bootAt[d] \in {"check", "replace"} => mine[d] = mine[c]
          BY <5>2 DEF Gives, Giving
        <5> QED
          BY <1>a, <2>1, <3>0, <5>1, <5>2, <5>3 DEF AgreedInv
      <4> QED
        BY <4>1, <4>2
    <3> QED
      BY <1>a, <2>1, <3>0, <3>1
  <2> QED
    BY <2>2, <2>3, <2>4, <2>5 DEF BootInv
<1>2. CASE ReplaceLocator(c)
  <2>0. selection # Unset /\ (~contested => selection = mine[c])
    BY <1>2, AgreedFacts DEF ReplaceLocator, CallInv, AgreedInv
  <2>1. bootAt' = [bootAt EXCEPT ![c] = "done"] /\ locator' = mine[c]
        /\ answer' = [answer EXCEPT ![c] = mine[c]] /\ bootHolder' \in BootCall \cup {Unset}
        /\ UNCHANGED <<bootJob, cloned, projects, selection, mine, faults>>
    BY <1>0, <1>2 DEF ReplaceLocator, Proceed, Following, Return, BootGo, BootRelease
  <2>2. BootTypeOK'
    BY <1>0, <2>1 DEF BootInv, BootTypeOK, BootPlaces
  <2>3. CloneInv'
    BY <1>0, <2>0, <2>1 DEF BootInv, CloneInv, NeverLockedOut
  <2>4. ASSUME NEW d \in BootCall PROVE CallInv(d)'
    <3>1. bootAt'[d] = IF d = c THEN "done" ELSE bootAt[d]
      BY <1>0, <2>1
    <3> QED
      BY <1>0, <2>1, <3>1, AgreedFacts DEF CallInv
  <2>5. ASSUME ~contested'
        PROVE  /\ ~Contest' /\ \A d \in BootCall : AgreedInv(d)'
               /\ selection' # Unset /\ locator' # Unset => selection' = locator'
    <3>0. ~contested /\ ~Contest'
      BY <2>5
    <3>1. ASSUME NEW d \in BootCall PROVE AgreedInv(d)'
      <4>1. CASE d = c
        <5>1. bootAt'[c] = "done" /\ answer'[c] = mine[c]
          BY <1>0, <2>1
        <5> QED
          BY <2>0, <2>1, <3>0, <4>1, <5>1 DEF AgreedInv, Giving
      <4>2. CASE d # c
        <5>1. bootAt'[d] = bootAt[d] /\ Gives(d)' = Gives(d) /\ answer'[d] = answer[d]
          BY <1>0, <2>1, <4>2 DEF Gives
        <5>2. AgreedInv(d) /\ (bootAt[d] \in Giving => Gives(d) = mine[c])
          BY <1>b, <3>0, AgreedFacts
        <5> QED
          BY <2>1, <5>1, <5>2 DEF AgreedInv
      <4> QED
        BY <4>1, <4>2
    <3> QED
      BY <2>0, <2>1, <3>0, <3>1
  <2> QED
    BY <2>2, <2>3, <2>4, <2>5 DEF BootInv
<1> QED
  BY <1>1, <1>2

LEMMA BootStep ==
    ASSUME BootInv, BootNext
    PROVE  BootInv'
<1>0. PICK c \in BootCall :
          \/ ReadSelection(c) \/ Resolve(c) \/ Command(c) \/ Attach(c) \/ TakeLock(c) \/ Post(c) \/ Find(c)
          \/ SaveSelection(c) \/ CheckLocator(c) \/ ReplaceLocator(c) \/ Fault(c) \/ Retry(c)
  BY DEF BootNext
<1>1. contested' = (contested \/ Contest')
  BY DEF BootNext
<1>2. bootHolder \in BootCall \cup {Unset} /\ faults \in 0..MaxFaults
  BY BootTypes DEF BootInv
<1>3. CASE Resolve(c)
  <2>1. UNCHANGED <<bootJob, cloned, folder, faults>> /\ bootAt[c] = "locator"
    BY <1>3 DEF Resolve
  <2>2. CASE mine[c] # Unset /\ Return(c, mine[c]) /\ UNCHANGED mine
    <3>1. BootRelease(c) /\ (~contested => mine[c] \in {Unset, selection})
      BY <2>1, <2>2, AgreedFacts DEF Return, AgreedInv
    <3> QED
      BY <1>1, <1>2, <2>1, <2>2, <3>1, EndStep
  <2>3. CASE Refuse(c)
    BY <1>1, <1>2, <2>1, <2>3, EndStep DEF Refuse
  <2>4. CASE locator = Unset /\ BootGo(c, IF bootHolder = c THEN "post" ELSE "wait") /\ UNCHANGED <<bootHolder, mine, answer>>
    <3>1. ~cloned /\ (BootGo(c, "post") \/ BootGo(c, "wait"))
      BY <2>4, AgreedFacts
    <3> QED
      BY <1>1, <1>2, <2>1, <2>4, <3>1, MoveStep
  <2> QED
    BY <1>3, <2>2, <2>3, <2>4 DEF Resolve
<1>4. CASE Command(c)
  <2>1. UNCHANGED <<bootJob, cloned, folder, faults>> /\ bootAt[c] = "locator"
    BY <1>4 DEF Command
  <2>2. CASE Refuse(c)
    BY <1>1, <1>2, <2>1, <2>2, EndStep DEF Refuse
  <2>3. CASE /\ mine[c] # Unset /\ locator \in {Unset, mine[c]}
             /\ BootGo(c, "check") /\ UNCHANGED <<bootHolder, mine, answer>>
    BY <1>1, <1>2, <2>1, <2>3, MoveStep
  <2>4. CASE locator = Unset /\ BootGo(c, "post") /\ UNCHANGED <<bootHolder, mine, answer>>
    BY <1>1, <1>2, <2>1, <2>4, MoveStep
  <2> QED
    BY <1>4, <2>2, <2>3, <2>4 DEF Command
<1>5. CASE Attach(c) /\ locator \notin projects
  <2>1. UNCHANGED <<bootJob, cloned, folder, faults>> /\ Refuse(c)
    BY <1>5 DEF Attach
  <2> QED
    BY <1>1, <1>2, <2>1, EndStep DEF Refuse
<1>6. CASE TakeLock(c)
  <2>1. /\ UNCHANGED <<bootJob, cloned, folder, mine, answer, faults>> /\ bootHolder' = c /\ BootGo(c, "again")
        /\ bootAt[c] = "wait"
    BY <1>6 DEF TakeLock, AfterLock
  <2>2. ~cloned
    BY <2>1, AgreedFacts DEF CallInv
  <2> QED
    BY <1>1, <2>1, <2>2, MoveStep
<1>7. CASE CheckLocator(c)
  <2>1. UNCHANGED <<bootJob, cloned, folder, faults>> /\ bootAt[c] = "check"
    BY <1>7 DEF CheckLocator
  <2>2. CASE Refuse(c)
    BY <1>1, <1>2, <2>1, <2>2, EndStep DEF Refuse
  <2>3. CASE Proceed(c, "check") /\ UNCHANGED mine
    <3>1. BootGo(c, "replace") /\ UNCHANGED <<bootHolder, answer>>
      BY <2>3 DEF Proceed, Following
    <3> QED
      BY <1>1, <1>2, <2>1, <2>3, <3>1, MoveStep
  <2> QED
    BY <1>7, <2>2, <2>3 DEF CheckLocator
<1>8. CASE Fault(c)
  <2>1. faults' \in 0..MaxFaults
    BY <1>2, <1>8, BootstrapAssumption DEF Fault
  <2> QED
    BY <1>1, <1>8, <2>1, EndStep DEF Fault
<1>9. CASE Retry(c)
  BY <1>1, <1>2, <1>9, EndStep DEF Retry
<1> QED
  BY <1>0, <1>1, <1>3, <1>4, <1>5, <1>6, <1>7, <1>8, <1>9, MineStep, FolderStep

LEMMA BootNextInv == ASSUME BootInv, [BootNext]_bootVars PROVE BootInv'
<1>1. CASE UNCHANGED bootVars
  BY <1>1 DEF bootVars, BootInv, BootTypeOK, CloneInv, NeverLockedOut, CallInv, AgreedInv, Contest, Gives
<1> QED
  BY <1>1, BootStep

LEMMA BootSpecInv == BootSpec => []BootInv
BY BootInitInv, BootNextInv, PTL DEF BootSpec

(* The calls, the folder and the server of a bootstrap keep their types.   *)
THEOREM SpecBootTypeOK == BootSpec => []BootTypeOK
<1>1. BootInv => BootTypeOK
  BY DEF BootInv
<1> QED
  BY <1>1, BootSpecInv, PTL

(* All calls in one folder end up with one project, whatever slugs the     *)
(* commands name and wherever processes end, as long as commands have not  *)
(* given the folder two; a clone never gets another one, in any case.      *)
THEOREM SpecOneProjectPerFolder == BootSpec => []OneProjectPerFolder
<1>1. BootInv => OneProjectPerFolder
  BY DEF BootInv, CloneInv, AgreedInv, OneProjectPerFolder
<1> QED
  BY <1>1, BootSpecInv, PTL

(* A folder that is not a clone never has a locator without a selection,   *)
(* whatever slugs are given by hand.                                       *)
THEOREM SpecNeverLockedOut == BootSpec => []NeverLockedOut
<1>1. BootInv => NeverLockedOut
  BY DEF BootInv, CloneInv
<1> QED
  BY <1>1, BootSpecInv, PTL

-----------------------------------------------------------------------------
(* The memory secret.  Versions are only ever added, so that whatever a    *)
(* process or a node has of a version stays good; a write never gets past  *)
(* the version that was active when it began (ActiveInv), and a rotation   *)
(* wraps with the passphrase that opened the version before (PhraseInv).   *)

\* The types of keys, envelopes and nodes, without the bound on versions.
AnyKey == [by : SecretCall \cup {"before"}, epoch : Nat]
AnySecret == [version : Nat, key : AnyKey]
AnyEnvelope == [version : Nat, key : AnyKey, path : 0..2]
AnyNote == [path : 1..2, version : Nat, content : AnyEnvelope, metadata : AnyEnvelope, crossed : BOOLEAN]
AnyWrapped == [key : AnyKey, phrase : Phrase]

\* What is had of a version is what the server has of it.
Genuine(s, S) == s.version \in DOMAIN S /\ s.key = S[s.version].key
WellSealed(e, S) == e = Plain \/ Genuine(e, S)

\* A node has a version there is; one that no write crossed has its envelopes in its own version.
WellFormed(n, S) ==
    /\ n.version = 0 \/ n.version \in DOMAIN S
    /\ WellSealed(n.content, S) /\ WellSealed(n.metadata, S)
    /\ n.crossed \/ (n.content.version \in {0, n.version} /\ n.metadata.version \in {0, n.version})

Reading == {"look", "slot", "active", "keepActive", "version", "keepVersion", "open"}
Writing == {"check", "fetch", "keep", "store"}
SecretPlaces == Reading \cup Writing \cup
    {"start", "generate", "complete", "wrap", "rotate", "done", "refused", "unavailable", "failed"}
NodeKinds == NodeWrites \cup {"read"}

SecretsTypes ==
    /\ setting \in Settings
    /\ secrets \in Seq(AnyWrapped)
    /\ encryption \in {"standard", "encrypted"}
    /\ request \in {"none", "pending", "completed"}
    /\ swapped \subseteq SecretCall /\ disabled \in BOOLEAN
    /\ secretAt \in [SecretCall -> SecretPlaces]
    /\ held \in [SecretCall -> AnySecret]
    /\ note \in AnyNote /\ gotNode \in [SecretCall -> AnyNote]
    /\ cached \in [Host -> SUBSET AnySecret]
    /\ wrap \in [SecretCall -> Phrase]
    /\ since \in [SecretCall -> Nat]
    /\ phrase \in [Host -> Phrase \cup {"none"}]
    /\ active \in [Host -> Nat]
    /\ wrote \in [since : Nat, version : Nat]

PlacesInv ==
    /\ \A c \in SecretCall :
          /\ secretAt[c] \in {"generate", "complete"} => Kind(c) \in Setups
          /\ secretAt[c] \in {"wrap", "rotate"} => Kind(c) = "rotate" /\ secrets # <<>>
          /\ secretAt[c] \in Writing => Kind(c) \in NodeWrites
          /\ secretAt[c] \in Reading => Kind(c) \in NodeKinds
    /\ request = "pending" => secrets = <<>>

KeysInv ==
    /\ \A h \in Host : \A s \in cached[h] : Genuine(s, secrets)
    /\ WellFormed(note, secrets)
    /\ \A c \in SecretCall :
          /\ WellFormed(gotNode[c], secrets)
          /\ Kind(c) \in NodeKinds => held[c].version = 0 \/ Genuine(held[c], secrets)
          /\ secretAt[c] \in {"keep", "keepActive", "keepVersion"} => Genuine(held[c], secrets)
          /\ secretAt[c] \in {"keepVersion", "open"} => held[c].version = gotNode[c].version

ActiveInv ==
    \/ disabled
    \/ \A c \in SecretCall :
          /\ secretAt[c] \in Writing => since[c] <= Len(secrets)
          /\ secretAt[c] \in Writing /\ encryption = "standard" => since[c] = 0
          /\ secretAt[c] \in {"keep", "store"} => held[c].version >= since[c]

\* A rotation holds what it will make of the version it opened, and unless its own
\* passphrase has been changed, wraps with the passphrase that opened it.
PhraseInv ==
    /\ OnePassphrase
    /\ \A c \in SecretCall : secretAt[c] \in {"wrap", "rotate"} =>
          /\ held[c].key.by = c /\ held[c].version \in DOMAIN secrets
          /\ \/ c \in swapped
             \/ secrets[held[c].version].phrase = IF secretAt[c] = "wrap" THEN Effective(On(c)) ELSE wrap[c]

SecretsInv ==
    SecretsTypes /\ PlacesInv /\ KeysInv /\ ActiveInv /\ PhraseInv /\ WrittenUnderActive /\ RightKeyIsFound

LEMMA SettingFacts ==
    ASSUME SecretsTypes
    PROVE  /\ \A c \in SecretCall : Kind(c) \in SecretKinds /\ On(c) \in Host
           /\ \A h \in Host : Effective(h) \in Phrase \cup {"none"}
<1>1. /\ setting.kind \in [SecretCall -> SecretKinds] /\ setting.on \in [SecretCall -> Host]
      /\ setting.env \in [Host -> Phrase \cup {"none"}]
  BY SettingsAssumption DEF SecretsTypes, Setting
<1> QED
  BY <1>1 DEF Kind, On, Effective, SecretsTypes

LEMMA KeyFacts ==
    /\ FirstKey \in AnyKey /\ NoSecret \in AnySecret /\ Plain \in AnyEnvelope /\ Plain.version = 0
    /\ \A c \in SecretCall : \A n \in Nat : NewKey(c, n) \in AnyKey
BY DEF FirstKey, AnyKey, NoSecret, AnySecret, Plain, AnyEnvelope, NewKey

LEMMA SecretsInitInv == ASSUME SecretsInit PROVE SecretsInv
<1>1. /\ setting \in Settings
      /\ secretAt = [c \in SecretCall |-> "start"] /\ held = [c \in SecretCall |-> NoSecret]
      /\ wrap = [c \in SecretCall |-> "right"] /\ gotNode = [c \in SecretCall |-> note]
      /\ cached = [h \in Host |-> {}] /\ active = [h \in Host |-> 0] /\ phrase = [h \in Host |-> "none"]
      /\ since = [c \in SecretCall |-> 0] /\ wrote = [since |-> 0, version |-> 0]
      /\ swapped = {} /\ disabled = FALSE
  BY DEF SecretsInit
<1>2. /\ encryption \in {"standard", "encrypted"} /\ request \in {"pending", "completed"}
      /\ secrets = <<>> \/ (secrets = <<[key |-> FirstKey, phrase |-> "right"]>> /\ request = "completed")
  BY DEF SecretsInit
<1>3. secrets \in Seq(AnyWrapped) /\ \A v \in DOMAIN secrets : secrets[v].phrase = secrets[1].phrase
  <2> DEFINE first == [key |-> FirstKey, phrase |-> "right"]
  <2>1. first \in AnyWrapped
    BY KeyFacts DEF AnyWrapped, Phrase
  <2>2. secrets = <<>> \/ secrets = <<first>>
    BY <1>2
  <2> HIDE DEF first
  <2>3. <<first>> \in Seq(AnyWrapped) /\ DOMAIN <<first>> = {1}
    BY <2>1
  <2>4. CASE secrets = <<>>
    BY <2>4
  <2>5. CASE secrets = <<first>>
    <3>1. DOMAIN secrets = {1}
      BY <2>3, <2>5, Zenon
    <3> QED
      BY <2>3, <2>5, <3>1
  <2> QED
    BY <2>2, <2>4, <2>5
<1>4. note \in AnyNote /\ WellFormed(note, secrets)
  <2>1. CASE setting.encrypted
    <3>1. PICK path \in 0..1, meta \in BOOLEAN :
              LET e == [version |-> 1, key |-> FirstKey, path |-> path] IN
              note = [path |-> 1, version |-> 1, content |-> e,
                      metadata |-> IF meta THEN e ELSE Plain, crossed |-> FALSE]
      BY <2>1 DEF SecretsInit
    <3> DEFINE e == [version |-> 1, key |-> FirstKey, path |-> path]
    <3>2. e \in AnyEnvelope
      BY KeyFacts DEF AnyEnvelope
    <3>3. secrets = <<[key |-> FirstKey, phrase |-> "right"]>>
      BY <2>1 DEF SecretsInit
    <3>4. Genuine(e, secrets)
      BY <3>3 DEF Genuine
    <3>5. e.version = 1
      OBVIOUS
    <3>7. 1 \in DOMAIN secrets
      BY <3>3
    <3> HIDE DEF e
    <3>6. note = [path |-> 1, version |-> 1, content |-> e,
                  metadata |-> IF meta THEN e ELSE Plain, crossed |-> FALSE]
      BY <3>1 DEF e
    <3> QED
      BY <3>2, <3>4, <3>5, <3>6, <3>7, KeyFacts DEF WellFormed, WellSealed, AnyNote
  <2>2. CASE ~setting.encrypted
    <3>1. note = [path |-> 1, version |-> 0, content |-> Plain, metadata |-> Plain, crossed |-> FALSE]
      BY <2>2 DEF SecretsInit
    <3> QED
      BY <3>1, KeyFacts DEF WellFormed, WellSealed, AnyNote
  <2> QED
    BY <2>1, <2>2
<1>5. SecretsTypes
  BY <1>1, <1>2, <1>3, <1>4, KeyFacts DEF SecretsTypes, SecretPlaces, Phrase
<1>6. PlacesInv
  BY <1>1, <1>2 DEF PlacesInv, Writing, Reading
<1>7. KeysInv
  BY <1>1, <1>4 DEF KeysInv, NoSecret
<1>8. ActiveInv /\ PhraseInv /\ WrittenUnderActive /\ RightKeyIsFound
  BY <1>1, <1>3 DEF ActiveInv, PhraseInv, OnePassphrase, WrittenUnderActive, RightKeyIsFound, Writing
<1> QED
  BY <1>5, <1>6, <1>7, <1>8 DEF SecretsInv

\* What hardly any step touches: the setting, the request and the versions at
\* the server, and the history.
LEMMA SecretsFrame ==
    ASSUME [SecretsNext]_secretsVars
    PROVE  /\ setting' = setting
           /\ disabled => disabled'
           /\ swapped \subseteq swapped'
           /\ \/ request' = request /\ secrets' = secrets
              \/ \E c \in SecretCall : Complete(c) \/ RotateSecret(c)
<1> DEFINE Frame == setting' = setting /\ (disabled => disabled') /\ (swapped \subseteq swapped')
           Kept == request' = request /\ secrets' = secrets
<1> USE DEF secretsServer, secretsHost
<1>1. ASSUME NEW c \in SecretCall, SecretWrite(c)
      PROVE  Frame /\ Kept
  BY <1>1 DEF SecretWrite, FindNode, CheckState, FetchForWrite, KeepForWrite, StoreNode
<1>2. ASSUME NEW c \in SecretCall, SecretRead(c)
      PROVE  Frame /\ Kept
  <2>1. CASE GetNode(c) \/ BeginLooking(c) \/ FindSlot(c) \/ AskActive(c)
    BY <2>1 DEF GetNode, BeginLooking, FindSlot, AskActive
  <2>2. CASE KeepActive(c) \/ AskVersion(c) \/ KeepVersion(c) \/ OpenEnvelopes(c)
    BY <2>2 DEF KeepActive, AskVersion, KeepVersion, OpenEnvelopes
  <2> QED
    BY <1>2, <2>1, <2>2 DEF SecretRead
<1>3. ASSUME NEW c \in SecretCall, ListRequests(c) \/ Generate(c) \/ UnwrapActive(c) \/ WrapNew(c) \/ LockGateway(c) \/ DisableEncryption(c)
      PROVE  Frame /\ Kept
  <2>1. CASE ListRequests(c)
    BY <2>1 DEF ListRequests, GivesPhrase
  <2>2. CASE Generate(c) \/ UnwrapActive(c) \/ WrapNew(c)
    BY <2>2 DEF Generate, UnwrapActive, WrapNew
  <2>3. CASE LockGateway(c)
    BY <2>3 DEF LockGateway
  <2>4. CASE DisableEncryption(c)
    BY <2>4 DEF DisableEncryption
  <2> QED
    BY <1>3, <2>1, <2>2, <2>3, <2>4
<1>4. ASSUME NEW c \in SecretCall, Complete(c) \/ RotateSecret(c)
      PROVE  Frame
  BY <1>4 DEF Complete, RotateSecret
<1>5. CASE UNCHANGED secretsVars
  BY <1>5 DEF secretsVars
<1> HIDE DEF Frame, Kept
<1>6. Frame /\ (Kept \/ \E c \in SecretCall : Complete(c) \/ RotateSecret(c))
  <2>1. CASE UNCHANGED secretsVars
    BY <1>5, <2>1 DEF Frame, Kept
  <2>2. ASSUME NEW c \in SecretCall, SetUp(c) \/ Rotation(c)
        PROVE  Frame /\ (Kept \/ Complete(c) \/ RotateSecret(c))
    BY <1>3, <1>4, <2>2 DEF SetUp, Rotation
  <2> QED
    BY <1>1, <1>2, <1>3, <2>1, <2>2 DEF SecretsNext
<1> QED
  BY <1>6 DEF Frame, Kept

\* What the server has of a version never changes.
LEMMA SecretsGrow ==
    ASSUME SecretsTypes, PlacesInv, [SecretsNext]_secretsVars
    PROVE  /\ secrets' \in Seq(AnyWrapped) /\ Len(secrets) \in Nat /\ Len(secrets) <= Len(secrets')
           /\ \A v \in DOMAIN secrets : v \in DOMAIN secrets' /\ secrets'[v] = secrets[v]
           /\ secrets # <<>> => secrets' # <<>> /\ secrets'[1] = secrets[1]
           /\ \A s : Genuine(s, secrets) => Genuine(s, secrets')
           /\ \A e : WellSealed(e, secrets) => WellSealed(e, secrets')
           /\ \A n : WellFormed(n, secrets) => WellFormed(n, secrets')
<1>1. ASSUME NEW c \in SecretCall
      PROVE  Wrapped(c) \in AnyWrapped
  BY DEF Wrapped, AnyWrapped, SecretsTypes, AnySecret
<1>2. \/ secrets' = secrets
      \/ secrets = <<>> /\ \E w \in AnyWrapped : secrets' = <<w>>
      \/ \E w \in AnyWrapped : secrets' = Append(secrets, w)
  <2>1. ASSUME NEW c \in SecretCall, Complete(c) \/ RotateSecret(c)
        PROVE  \/ secrets' = secrets
               \/ secrets = <<>> /\ \E w \in AnyWrapped : secrets' = <<w>>
               \/ \E w \in AnyWrapped : secrets' = Append(secrets, w)
    BY <1>1, <2>1 DEF Complete, RotateSecret, PlacesInv
  <2> QED
    BY <2>1, SecretsFrame
<1>3. secrets \in Seq(AnyWrapped)
  BY DEF SecretsTypes
<1>4. /\ secrets' \in Seq(AnyWrapped) /\ Len(secrets) \in Nat /\ Len(secrets) <= Len(secrets')
      /\ \A v \in DOMAIN secrets : v \in DOMAIN secrets' /\ secrets'[v] = secrets[v]
  <2>1. CASE secrets' = secrets
    BY <1>3, <2>1
  <2>2. ASSUME NEW w \in AnyWrapped, secrets' = <<w>>, secrets = <<>>
        PROVE  /\ secrets' \in Seq(AnyWrapped) /\ Len(secrets) \in Nat /\ Len(secrets) <= Len(secrets')
               /\ \A v \in DOMAIN secrets : v \in DOMAIN secrets' /\ secrets'[v] = secrets[v]
    BY <2>2
  <2>3. ASSUME NEW w \in AnyWrapped, secrets' = Append(secrets, w)
        PROVE  /\ secrets' \in Seq(AnyWrapped) /\ Len(secrets) \in Nat /\ Len(secrets) <= Len(secrets')
               /\ \A v \in DOMAIN secrets : v \in DOMAIN secrets' /\ secrets'[v] = secrets[v]
    BY <1>3, <2>3
  <2> QED
    BY <1>2, <2>1, <2>2, <2>3
<1>5. secrets # <<>> => 1 \in DOMAIN secrets
  BY <1>3
<1>6. secrets # <<>> => secrets' # <<>> /\ secrets'[1] = secrets[1]
  BY <1>4, <1>5
<1>7. \A s : Genuine(s, secrets) => Genuine(s, secrets')
  BY <1>4 DEF Genuine
<1>8. \A e : WellSealed(e, secrets) => WellSealed(e, secrets')
  BY <1>7 DEF WellSealed
<1>9. \A n : WellFormed(n, secrets) => WellFormed(n, secrets')
  BY <1>4, <1>8 DEF WellFormed
<1> QED
  BY <1>4, <1>6, <1>7, <1>8, <1>9

\* What a request for a version brings.
LEMMA FetchFacts ==
    ASSUME SecretsTypes, NEW c \in SecretCall, NEW version \in Nat, NEW place \in SecretPlaces,
           version # 0 => version \in DOMAIN secrets, Fetch(c, version, place)
    PROVE  \/ secretAt' = [secretAt EXCEPT ![c] = "refused"] /\ held' = held
           \/ \E s \in AnySecret : /\ s.version = version /\ Genuine(s, secrets)
                                   /\ held' = [held EXCEPT ![c] = s]
                                   /\ secretAt' = [secretAt EXCEPT ![c] = place]
<1>1. CASE version > 0 /\ Opens(c, version)
  <2>1. version \in DOMAIN secrets /\ secrets[version] \in AnyWrapped
    BY <1>1 DEF SecretsTypes
  <2>2. Unwrapped(version) \in AnySecret /\ Unwrapped(version).version = version
        /\ Genuine(Unwrapped(version), secrets)
    BY <2>1 DEF Unwrapped, AnySecret, AnyWrapped, Genuine
  <2> QED
    BY <1>1, <2>2 DEF Fetch, Hold, SecretGo
<1>2. CASE ~(version > 0 /\ Opens(c, version))
  BY <1>2 DEF Fetch, SecretGo
<1> QED
  BY <1>1, <1>2

LEMMA RewrittenType ==
    ASSUME SecretsTypes, NEW c \in SecretCall
    PROVE  Rewritten(c) \in AnyNote
<1>1. /\ note \in AnyNote /\ held[c] \in AnySecret
      /\ note.path \in 1..2 /\ note.version \in Nat /\ note.crossed \in BOOLEAN
      /\ note.content \in AnyEnvelope /\ note.metadata \in AnyEnvelope
  BY DEF SecretsTypes, AnyNote
<1>2. Sealed(c, "content") \in AnyEnvelope /\ Sealed(c, "metadata") \in AnyEnvelope
  BY <1>1, KeyFacts DEF Sealed, AnySecret, AnyEnvelope
<1>3. (IF Kind(c) = "move" THEN 2 ELSE note.path) \in 1..2
      /\ (IF held[c].version = 0 THEN note.version ELSE held[c].version) \in Nat
  BY <1>1 DEF AnySecret
<1>4. (IF held[c].version = 0 THEN note.crossed
       ELSE \E part \in {"content", "metadata"} :
                ~Names(c, part) /\ note[part].version \notin {0, held[c].version}) \in BOOLEAN
  BY <1>1
<1> QED
  BY <1>2, <1>3, <1>4 DEF Rewritten, AnyNote

\* The versions a call asks for are there.
LEMMA VersionFacts ==
    ASSUME SecretsTypes, KeysInv, NEW c \in SecretCall
    PROVE  /\ Len(secrets) \in Nat /\ (Len(secrets) # 0 => Len(secrets) \in DOMAIN secrets)
           /\ gotNode[c].version \in Nat
           /\ (gotNode[c].version # 0 => gotNode[c].version \in DOMAIN secrets)
           /\ held[c] \in AnySecret /\ note \in AnyNote /\ gotNode[c] \in AnyNote
           /\ \A s \in cached[On(c)] : s \in AnySecret /\ Genuine(s, secrets)
<1>1. secrets \in Seq(AnyWrapped) /\ gotNode[c] \in AnyNote /\ held[c] \in AnySecret /\ note \in AnyNote
  BY DEF SecretsTypes
<1>2. WellFormed(gotNode[c], secrets)
  BY DEF KeysInv
<1>3. \A s \in cached[On(c)] : s \in AnySecret /\ Genuine(s, secrets)
  BY SettingFacts DEF SecretsTypes, KeysInv
<1> QED
  BY <1>1, <1>2, <1>3 DEF WellFormed, AnyNote

\* A call that reads or writes a node gets a good secret from wherever it
\* looks, and goes on or is refused.
HeldStep(c, places) ==
    \E place \in places :
        /\ secretAt' = [secretAt EXCEPT ![c] = place]
        /\ \/ held' = held /\ place \notin {"keep", "keepActive", "keepVersion", "open"}
           \/ \E s \in AnySecret :
                 /\ Genuine(s, secrets) /\ held' = [held EXCEPT ![c] = s]
                 /\ place = "keep" => s.version = Len(secrets)
                 /\ place \in {"keepVersion", "open"} => s.version = gotNode[c].version

LEMMA HeldCases ==
    ASSUME SecretsTypes, KeysInv, NEW c \in SecretCall
    PROVE  /\ FetchForWrite(c) => HeldStep(c, {"refused", "keep"})
           /\ FindSlot(c) => HeldStep(c, {"failed", "active", "open"})
           /\ AskActive(c) => HeldStep(c, {"refused", "keepActive", "open", "version"})
           /\ AskVersion(c) => HeldStep(c, {"refused", "keepVersion", "open"})
<1>0. {"refused", "keep", "keepActive", "keepVersion"} \subseteq SecretPlaces
  BY DEF SecretPlaces, Reading, Writing
<1>1. ASSUME FetchForWrite(c)
      PROVE  HeldStep(c, {"refused", "keep"})
  BY <1>0, <1>1, FetchFacts, VersionFacts DEF FetchForWrite, ForWrite, HeldStep
<1>2. ASSUME FindSlot(c)
      PROVE  HeldStep(c, {"failed", "active", "open"})
  BY <1>2, VersionFacts DEF FindSlot, CachedSlot, Hold, SecretGo, HeldStep
<1>3. ASSUME AskActive(c)
      PROVE  HeldStep(c, {"refused", "keepActive", "open", "version"})
  <2>1. CASE Fetch(c, Len(secrets), "keepActive")
    BY <1>0, <2>1, FetchFacts, VersionFacts DEF HeldStep
  <2>2. ASSUME NEW s \in ActiveSlot(c), Hold(c, s), SecretGo(c, Settle(c, s.version))
        PROVE  HeldStep(c, {"refused", "keepActive", "open", "version"})
    BY <2>2, VersionFacts DEF ActiveSlot, Hold, SecretGo, Settle, RightVersion, HeldStep
  <2> QED
    BY <1>3, <2>1, <2>2 DEF AskActive
<1>4. ASSUME AskVersion(c)
      PROVE  HeldStep(c, {"refused", "keepVersion", "open"})
  <2>1. CASE Fetch(c, gotNode[c].version, "keepVersion")
    BY <1>0, <2>1, FetchFacts, VersionFacts DEF HeldStep
  <2>2. ASSUME NEW s \in CachedSlot(c), Hold(c, s), SecretGo(c, "open")
        PROVE  HeldStep(c, {"refused", "keepVersion", "open"})
    BY <2>2, VersionFacts DEF CachedSlot, Hold, SecretGo, HeldStep
  <2> QED
    BY <1>4, <2>1, <2>2 DEF AskVersion
<1> QED
  BY <1>1, <1>2, <1>3, <1>4

LEMMA TypesStep ==
    ASSUME SecretsTypes, PlacesInv, KeysInv, [SecretsNext]_secretsVars
    PROVE  SecretsTypes'
<1>0. /\ secrets' \in Seq(AnyWrapped) /\ Len(secrets) \in Nat
      /\ \A c \in SecretCall : On(c) \in Host /\ Kind(c) \in SecretKinds
      /\ \A h \in Host : Effective(h) \in Phrase \cup {"none"}
      /\ "other" \in Phrase
  BY SecretsGrow, SettingFacts DEF Phrase
<1>a. CASE UNCHANGED secretsVars
  BY <1>a DEF secretsVars, secretsServer, secretsHost, secretsCall, SecretsTypes
<1>b. ASSUME NEW c \in SecretCall, NEW places \in SUBSET SecretPlaces, HeldStep(c, places)
      PROVE  secretAt' \in [SecretCall -> SecretPlaces] /\ held' \in [SecretCall -> AnySecret]
  <2>1. secretAt \in [SecretCall -> SecretPlaces] /\ held \in [SecretCall -> AnySecret]
    BY DEF SecretsTypes
  <2>2. PICK place \in places : /\ secretAt' = [secretAt EXCEPT ![c] = place]
                                /\ held' = held \/ \E s \in AnySecret : held' = [held EXCEPT ![c] = s]
    BY <1>b DEF HeldStep
  <2>3. place \in SecretPlaces
    BY <1>b
  <2>4. secretAt' \in [SecretCall -> SecretPlaces]
    BY <2>1, <2>2, <2>3
  <2>5. held' \in [SecretCall -> AnySecret]
    BY <2>1, <2>2
  <2> QED
    BY <2>4, <2>5
<1>d. /\ cached \in [Host -> SUBSET AnySecret] /\ active \in [Host -> Nat]
      /\ \A c \in SecretCall : held[c] \in AnySecret
  BY DEF SecretsTypes
<1>e. ASSUME NEW h \in Host, cached' = cached \/ cached' = [cached EXCEPT ![h] = {}],
             active' = active \/ active' = [active EXCEPT ![h] = 0]
      PROVE  cached' \in [Host -> SUBSET AnySecret] /\ active' \in [Host -> Nat]
  BY <1>d, <1>e
<1>c. ASSUME NEW c \in SecretCall, NEW place \in SecretPlaces, SecretGo(c, place)
      PROVE  secretAt' \in [SecretCall -> SecretPlaces]
  BY <1>c DEF SecretGo, SecretsTypes
<1> USE DEF secretsServer, secretsHost, secretsCall
<1>1. ASSUME NEW c \in SecretCall, FindNode(c)
      PROVE  SecretsTypes'
  <2>1. since' \in [SecretCall -> Nat]
    BY <1>0, <1>1 DEF FindNode, SecretsTypes
  <2> QED
    BY <1>1, <1>c, <2>1 DEF FindNode, SecretsTypes, SecretPlaces, Writing
<1>2. ASSUME NEW c \in SecretCall, CheckState(c) \/ BeginLooking(c) \/ OpenEnvelopes(c)
      PROVE  SecretsTypes'
  BY <1>2, <1>c DEF CheckState, BeginLooking, OpenEnvelopes, SecretsTypes, SecretPlaces, Writing, Reading
<1>3. ASSUME NEW c \in SecretCall, FetchForWrite(c) \/ FindSlot(c) \/ AskActive(c) \/ AskVersion(c)
      PROVE  SecretsTypes'
  <2>1. secretAt' \in [SecretCall -> SecretPlaces] /\ held' \in [SecretCall -> AnySecret]
    <3>1. \E places \in SUBSET SecretPlaces : HeldStep(c, places)
      BY <1>3, HeldCases DEF SecretPlaces, Reading, Writing
    <3> QED
      BY <1>b, <3>1
  <2>2. UNCHANGED <<setting, secretsServer, secretsHost, wrap, gotNode, since>>
    BY <1>3 DEF FetchForWrite, FindSlot, AskActive, AskVersion
  <2> QED
    BY <2>1, <2>2 DEF SecretsTypes
<1>4. ASSUME NEW c \in SecretCall, KeepForWrite(c) \/ KeepActive(c) \/ KeepVersion(c)
      PROVE  SecretsTypes'
  <2>1. cached' \in [Host -> SUBSET AnySecret]
    <3>1. cached' = [cached EXCEPT ![On(c)] = @ \cup {held[c]}]
      BY <1>4 DEF KeepForWrite, KeepActive, KeepVersion, Remember
    <3> QED
      BY <1>0, <1>d, <3>1
  <2>2. active' \in [Host -> Nat]
    BY <1>0, <1>4 DEF KeepForWrite, KeepActive, KeepVersion, SecretsTypes, AnySecret
  <2>3. secretAt' \in [SecretCall -> SecretPlaces]
    <3>1. \E place \in {"store", "open", "version"} : SecretGo(c, place)
      BY <1>4 DEF KeepForWrite, KeepActive, KeepVersion, Settle
    <3> QED
      BY <1>c, <3>1 DEF SecretPlaces, Writing, Reading
  <2>4. UNCHANGED <<setting, secretsServer, phrase, swapped, secretsCall>>
    BY <1>4 DEF KeepForWrite, KeepActive, KeepVersion
  <2> QED
    BY <2>1, <2>2, <2>3, <2>4 DEF SecretsTypes
<1>5. ASSUME NEW c \in SecretCall, StoreNode(c) \/ GetNode(c)
      PROVE  SecretsTypes'
  <2>1. note' \in AnyNote /\ gotNode' \in [SecretCall -> AnyNote]
    <3>1. note \in AnyNote /\ gotNode \in [SecretCall -> AnyNote]
      BY DEF SecretsTypes
    <3>2. note' \in AnyNote
      BY <1>5, <3>1, RewrittenType DEF StoreNode, GetNode
    <3>3. gotNode' = gotNode \/ gotNode' = [gotNode EXCEPT ![c] = note']
      BY <1>5 DEF StoreNode, GetNode
    <3> QED
      BY <3>1, <3>2, <3>3
  <2>2. secretAt' \in [SecretCall -> SecretPlaces]
    <3>1. \E place \in {"look", "done", "failed"} : SecretGo(c, place)
      BY <1>5 DEF StoreNode, GetNode
    <3> QED
      BY <1>c, <3>1 DEF SecretPlaces, Reading
  <2>3. wrote' \in [since : Nat, version : Nat]
    BY <1>5 DEF StoreNode, GetNode, SecretsTypes, AnySecret
  <2>4. UNCHANGED <<setting, encryption, request, secrets, disabled, secretsHost, held, wrap, since>>
    BY <1>5 DEF StoreNode, GetNode
  <2> QED
    BY <2>1, <2>2, <2>3, <2>4 DEF SecretsTypes
<1>6. ASSUME NEW c \in SecretCall, ListRequests(c) \/ LockGateway(c)
      PROVE  SecretsTypes'
  <2>1. phrase' \in [Host -> Phrase \cup {"none"}] /\ swapped' \subseteq SecretCall
    BY <1>0, <1>6 DEF ListRequests, GivesPhrase, LockGateway, Rotating, SecretsTypes
  <2>2. cached' \in [Host -> SUBSET AnySecret] /\ active' \in [Host -> Nat]
    BY <1>0, <1>6, <1>e DEF ListRequests, LockGateway
  <2>3. secretAt' \in [SecretCall -> SecretPlaces]
    BY <1>6, <1>c DEF ListRequests, LockGateway, SecretPlaces
  <2>4. UNCHANGED <<setting, secretsServer, secretsCall>>
    BY <1>6 DEF ListRequests, LockGateway
  <2> QED
    BY <2>1, <2>2, <2>3, <2>4 DEF SecretsTypes
<1>7. ASSUME NEW c \in SecretCall, Generate(c) \/ UnwrapActive(c) \/ WrapNew(c)
      PROVE  SecretsTypes'
  <2>1. held' \in [SecretCall -> AnySecret]
    <3>1. [version |-> 1, key |-> NewKey(c, 1)] \in AnySecret
          /\ [version |-> Len(secrets), key |-> NewKey(c, Len(secrets) + 1)] \in AnySecret
      BY <1>0, KeyFacts DEF AnySecret
    <3> QED
      BY <1>7, <3>1 DEF Generate, UnwrapActive, WrapNew, Hold, SecretsTypes
  <2>2. wrap' \in [SecretCall -> Phrase]
    BY <1>0, <1>7 DEF Generate, UnwrapActive, WrapNew, SecretsTypes
  <2>3. secretAt' \in [SecretCall -> SecretPlaces]
    BY <1>7, <1>c DEF Generate, UnwrapActive, WrapNew, SecretPlaces
  <2>4. UNCHANGED <<setting, secretsServer, secretsHost, gotNode, since>>
    BY <1>7 DEF Generate, UnwrapActive, WrapNew
  <2> QED
    BY <2>1, <2>2, <2>3, <2>4 DEF SecretsTypes
<1>8. ASSUME NEW c \in SecretCall, Complete(c) \/ RotateSecret(c) \/ DisableEncryption(c)
      PROVE  SecretsTypes'
  <2>1. cached' \in [Host -> SUBSET AnySecret] /\ active' \in [Host -> Nat]
    BY <1>0, <1>8, <1>e DEF Complete, RotateSecret, DisableEncryption
  <2>2. secretAt' \in [SecretCall -> SecretPlaces]
    BY <1>8, <1>c DEF Complete, RotateSecret, DisableEncryption, SecretPlaces
  <2>3. encryption' \in {"standard", "encrypted"} /\ request' \in {"none", "pending", "completed"} /\ disabled' \in BOOLEAN
    BY <1>8 DEF Complete, RotateSecret, DisableEncryption, SecretsTypes
  <2>4. UNCHANGED <<setting, note, wrote, phrase, swapped, secretsCall>>
    BY <1>8 DEF Complete, RotateSecret, DisableEncryption
  <2> QED
    BY <1>0, <2>1, <2>2, <2>3, <2>4 DEF SecretsTypes
<1> QED
  BY <1>1, <1>2, <1>3, <1>4, <1>5, <1>6, <1>7, <1>8, <1>a
     DEF SecretsNext, SecretWrite, SecretRead, SetUp, Rotation

\* Where a step takes the call that makes it; the others stay where they are.
LEMMA PlacesStep ==
    ASSUME SecretsTypes, PlacesInv, KeysInv, [SecretsNext]_secretsVars
    PROVE  PlacesInv'
<1>0. /\ secretAt \in [SecretCall -> SecretPlaces]
      /\ secrets # <<>> => secrets' # <<>>
      /\ \A c \in SecretCall : Kind(c)' = Kind(c)
  <2>1. setting' = setting
    BY SecretsFrame
  <2> QED
    BY <2>1, SecretsGrow DEF SecretsTypes, Kind
<1>1. request' = "pending" => secrets' = <<>>
  <2>1. ASSUME NEW c \in SecretCall, RotateSecret(c)
        PROVE  request' = "pending" => secrets' = <<>>
    BY <2>1 DEF RotateSecret, PlacesInv
  <2>2. ASSUME NEW c \in SecretCall, Complete(c)
        PROVE  request' = "pending" => secrets' = <<>>
    BY <2>2 DEF Complete, PlacesInv
  <2> QED
    BY <2>1, <2>2, SecretsFrame DEF PlacesInv
<1>a. CASE UNCHANGED secretsVars
  BY <1>a DEF secretsVars, secretsServer, PlacesInv, Kind
<1>b. ASSUME NEW c \in SecretCall, NEW place, secretAt' = [secretAt EXCEPT ![c] = place],
             place \in {"generate", "complete"} => Kind(c) \in Setups,
             place \in {"wrap", "rotate"} => Kind(c) = "rotate" /\ secrets # <<>>,
             place \in Writing => Kind(c) \in NodeWrites,
             place \in Reading => Kind(c) \in NodeKinds
      PROVE  PlacesInv'
  BY <1>0, <1>1, <1>b DEF PlacesInv
<1>2. ASSUME NEW c \in SecretCall, SecretWrite(c) \/ SecretRead(c)
      PROVE  PlacesInv'
  <2>1. Kind(c) \in NodeKinds /\ \E place \in SecretPlaces :
            /\ secretAt' = [secretAt EXCEPT ![c] = place]
            /\ place \in Writing => Kind(c) \in NodeWrites
            /\ place \notin {"generate", "complete", "wrap", "rotate"}
    <3>1. CASE FindNode(c) \/ CheckState(c) \/ KeepForWrite(c) \/ StoreNode(c)
      BY <3>1 DEF FindNode, CheckState, KeepForWrite, StoreNode, SecretGo, PlacesInv,
                  Writing, Reading, SecretPlaces, NodeKinds
    <3>2. CASE GetNode(c) \/ BeginLooking(c) \/ KeepActive(c) \/ KeepVersion(c) \/ OpenEnvelopes(c)
      BY <3>2 DEF GetNode, BeginLooking, KeepActive, KeepVersion, OpenEnvelopes, SecretGo, Settle, PlacesInv,
                  Writing, Reading, SecretPlaces, NodeKinds
    <3>3. CASE FetchForWrite(c)
      <4>1. HeldStep(c, {"refused", "keep"}) /\ Kind(c) \in NodeWrites
        BY <3>3, HeldCases DEF FetchForWrite, PlacesInv, Writing
      <4> QED
        BY <4>1 DEF HeldStep, NodeKinds, SecretPlaces, Writing
    <3>4. CASE FindSlot(c) \/ AskActive(c) \/ AskVersion(c)
      <4>1. \E place \in {"failed", "active", "open", "refused", "keepActive", "version", "keepVersion"} :
                secretAt' = [secretAt EXCEPT ![c] = place]
        BY <3>4, HeldCases DEF HeldStep
      <4>2. Kind(c) \in NodeKinds
        BY <3>4 DEF FindSlot, AskActive, AskVersion, PlacesInv, Reading
      <4> QED
        BY <4>1, <4>2 DEF SecretPlaces, Reading, Writing
    <3> QED
      BY <1>2, <3>1, <3>2, <3>3, <3>4 DEF SecretWrite, SecretRead
  <2> QED
    BY <1>b, <2>1
<1>3. ASSUME NEW c \in SecretCall, SetUp(c) \/ LockGateway(c) \/ DisableEncryption(c)
      PROVE  PlacesInv'
  <2>1. \E place \in {"generate", "complete", "done", "refused", "failed"} :
            /\ secretAt' = [secretAt EXCEPT ![c] = place]
            /\ place \in {"generate", "complete"} => Kind(c) \in Setups
    BY <1>3 DEF SetUp, ListRequests, Generate, Complete, LockGateway, DisableEncryption, SecretGo, PlacesInv
  <2> QED
    BY <1>b, <2>1 DEF Writing, Reading
<1>4. ASSUME NEW c \in SecretCall, Rotation(c)
      PROVE  PlacesInv'
  <2>1. \E place \in {"wrap", "rotate", "done", "refused", "failed"} :
            /\ secretAt' = [secretAt EXCEPT ![c] = place]
            /\ place \in {"wrap", "rotate"} => Kind(c) = "rotate" /\ secrets # <<>>
    BY <1>4 DEF Rotation, UnwrapActive, WrapNew, RotateSecret, SecretGo, PlacesInv
  <2> QED
    BY <1>b, <2>1 DEF Writing, Reading
<1> QED
  BY <1>2, <1>3, <1>4, <1>a DEF SecretsNext

LEMMA RewrittenFacts ==
    ASSUME SecretsTypes, KeysInv, NEW c \in SecretCall, Kind(c) \in NodeKinds
    PROVE  WellFormed(Rewritten(c), secrets)
<1>0. /\ WellFormed(note, secrets) /\ note \in AnyNote /\ held[c] \in AnySecret
      /\ held[c].version = 0 \/ Genuine(held[c], secrets)
      /\ note.content.version \in Nat /\ note.metadata.version \in Nat
  BY DEF KeysInv, SecretsTypes, AnyNote, AnyEnvelope
<1> DEFINE v == held[c].version
           seal == [version |-> v, key |-> held[c].key, path |-> 0]
<1>1. v # 0 => v \in DOMAIN secrets /\ WellSealed(seal, secrets)
  BY <1>0 DEF Genuine, WellSealed
<1>2. WellSealed(Plain, secrets) /\ Plain.version = 0
  BY KeyFacts DEF WellSealed
<1>3. note["content"] = note.content /\ note["metadata"] = note.metadata
  OBVIOUS
<1>4. /\ Rewritten(c).content = Sealed(c, "content") /\ Rewritten(c).metadata = Sealed(c, "metadata")
      /\ Rewritten(c).version = (IF v = 0 THEN note.version ELSE v)
      /\ Rewritten(c).crossed = (IF v = 0 THEN note.crossed
                                 ELSE \E part \in {"content", "metadata"} :
                                          ~Names(c, part) /\ note[part].version \notin {0, v})
  BY DEF Rewritten
<1>5. \A part \in {"content", "metadata"} :
          Sealed(c, part) = IF ~Names(c, part) THEN note[part] ELSE IF v = 0 THEN Plain ELSE seal
  BY DEF Sealed
<1>6. seal.version = v
  OBVIOUS
<1> HIDE DEF v, seal
<1>7. ASSUME NEW part \in {"content", "metadata"}
      PROVE  WellSealed(Sealed(c, part), secrets)
  BY <1>0, <1>1, <1>2, <1>3, <1>5 DEF WellFormed
<1>8. ASSUME NEW part \in {"content", "metadata"}, ~Rewritten(c).crossed
      PROVE  Sealed(c, part).version \in {0, Rewritten(c).version}
  <2>1. CASE v = 0
    <3>1. note.crossed = FALSE \/ note.crossed = TRUE
      BY <1>0 DEF AnyNote
    <3>2. ~note.crossed
      BY <1>4, <1>8, <2>1
    <3> QED
      BY <1>0, <1>2, <1>3, <1>4, <1>5, <2>1, <3>2 DEF WellFormed
  <2>2. CASE v # 0
    <3>1. Names(c, part) \/ note[part].version \in {0, v}
      BY <1>4, <1>8, <2>2
    <3> QED
      BY <1>4, <1>5, <1>6, <2>2, <3>1
  <2> QED
    BY <2>1, <2>2
<1>9. Rewritten(c).version = 0 \/ Rewritten(c).version \in DOMAIN secrets
  BY <1>0, <1>1, <1>4 DEF WellFormed
<1> QED
  BY <1>4, <1>7, <1>8, <1>9 DEF WellFormed

\* A step of one call, whatever it learns.
LEMMA KeysFrame ==
    ASSUME SecretsTypes, PlacesInv, KeysInv, [SecretsNext]_secretsVars, setting' = setting,
           NEW c \in SecretCall, NEW place, secretAt' = [secretAt EXCEPT ![c] = place],
           \A h \in Host : \A s \in cached'[h] : s \in cached[h] \/ Genuine(s, secrets'),
           WellFormed(note', secrets'), WellFormed(gotNode'[c], secrets'),
           \A d \in SecretCall : d # c => gotNode'[d] = gotNode[d] /\ held'[d] = held[d],
           Kind(c) \in NodeKinds => held'[c].version = 0 \/ Genuine(held'[c], secrets'),
           place \in {"keep", "keepActive", "keepVersion"} => Genuine(held'[c], secrets'),
           place \in {"keepVersion", "open"} => held'[c].version = gotNode'[c].version
    PROVE  KeysInv'
<1>0. secretAt \in [SecretCall -> SecretPlaces] /\ \A d \in SecretCall : Kind(d)' = Kind(d)
  BY DEF SecretsTypes, Kind
<1>1. \A h \in Host : \A s \in cached'[h] : Genuine(s, secrets')
  BY SecretsGrow DEF KeysInv
<1>2. ASSUME NEW d \in SecretCall
      PROVE  /\ WellFormed(gotNode'[d], secrets')
             /\ Kind(d) \in NodeKinds => held'[d].version = 0 \/ Genuine(held'[d], secrets')
             /\ secretAt'[d] \in {"keep", "keepActive", "keepVersion"} => Genuine(held'[d], secrets')
             /\ secretAt'[d] \in {"keepVersion", "open"} => held'[d].version = gotNode'[d].version
  <2>1. CASE d = c
    BY <1>0, <2>1
  <2>2. CASE d # c
    <3>1. secretAt'[d] = secretAt[d] /\ gotNode'[d] = gotNode[d] /\ held'[d] = held[d]
      BY <1>0, <2>2
    <3>2. /\ WellFormed(gotNode[d], secrets)
          /\ Kind(d) \in NodeKinds => held[d].version = 0 \/ Genuine(held[d], secrets)
          /\ secretAt[d] \in {"keep", "keepActive", "keepVersion"} => Genuine(held[d], secrets)
          /\ secretAt[d] \in {"keepVersion", "open"} => held[d].version = gotNode[d].version
      BY DEF KeysInv
    <3> QED
      BY <3>1, <3>2, SecretsGrow
  <2> QED
    BY <2>1, <2>2
<1> QED
  BY <1>0, <1>1, <1>2 DEF KeysInv

LEMMA KeysStep ==
    ASSUME SecretsTypes, PlacesInv, KeysInv, [SecretsNext]_secretsVars
    PROVE  KeysInv'
<1>0. /\ \A c \in SecretCall : On(c) \in Host
      /\ cached \in [Host -> SUBSET AnySecret] /\ gotNode \in [SecretCall -> AnyNote]
      /\ held \in [SecretCall -> AnySecret]
      /\ WellFormed(note, secrets')
      /\ \A c \in SecretCall : WellFormed(gotNode[c], secrets')
      /\ \A c \in SecretCall : Kind(c) \in NodeKinds => held[c].version = 0 \/ Genuine(held[c], secrets')
  BY SettingFacts, SecretsGrow DEF SecretsTypes, KeysInv
<1>a. CASE UNCHANGED secretsVars
  BY <1>a DEF secretsVars, secretsServer, secretsHost, secretsCall, KeysInv, Kind
<1> USE DEF secretsServer, secretsHost, secretsCall
<1>1. ASSUME NEW c \in SecretCall,
             \/ FindNode(c) \/ CheckState(c) \/ BeginLooking(c) \/ OpenEnvelopes(c)
             \/ ListRequests(c) \/ Complete(c) \/ DisableEncryption(c) \/ WrapNew(c)
      PROVE  KeysInv'
  <2>1. UNCHANGED <<setting, cached, note, gotNode, held>>
    BY <1>1 DEF FindNode, CheckState, BeginLooking, OpenEnvelopes, ListRequests, Complete, DisableEncryption, WrapNew
  <2>2. \E place : /\ secretAt' = [secretAt EXCEPT ![c] = place]
                   /\ place \notin {"keep", "keepActive", "keepVersion", "open"}
    <3>1. CASE FindNode(c) \/ CheckState(c) \/ BeginLooking(c) \/ OpenEnvelopes(c)
      <4>1. \/ secretAt' = [secretAt EXCEPT ![c] = "check"] \/ secretAt' = [secretAt EXCEPT ![c] = "slot"]
            \/ secretAt' = [secretAt EXCEPT ![c] = "fetch"] \/ secretAt' = [secretAt EXCEPT ![c] = "store"]
            \/ secretAt' = [secretAt EXCEPT ![c] = "done"] \/ secretAt' = [secretAt EXCEPT ![c] = "unavailable"]
        BY <3>1 DEF FindNode, CheckState, BeginLooking, OpenEnvelopes, SecretGo
      <4> QED
        BY <4>1
    <3>2. CASE ListRequests(c) \/ Complete(c) \/ DisableEncryption(c) \/ WrapNew(c)
      BY <3>2 DEF ListRequests, Complete, DisableEncryption, WrapNew, SecretGo
    <3> QED
      BY <1>1, <3>1, <3>2
  <2> QED
    BY <1>0, <2>1, <2>2, KeysFrame
<1>2. ASSUME NEW c \in SecretCall, FetchForWrite(c) \/ FindSlot(c) \/ AskActive(c) \/ AskVersion(c)
      PROVE  KeysInv'
  <2>1. UNCHANGED <<setting, cached, note, gotNode, secrets>>
    BY <1>2 DEF FetchForWrite, FindSlot, AskActive, AskVersion
  <2>2. \E places : HeldStep(c, places)
    BY <1>2, HeldCases
  <2>3. PICK place : /\ secretAt' = [secretAt EXCEPT ![c] = place]
                     /\ \/ held' = held /\ place \notin {"keep", "keepActive", "keepVersion", "open"}
                        \/ \E s \in AnySecret :
                              /\ Genuine(s, secrets) /\ held' = [held EXCEPT ![c] = s]
                              /\ place \in {"keepVersion", "open"} => s.version = gotNode[c].version
    BY <2>2 DEF HeldStep
  <2>4. CASE held' = held /\ place \notin {"keep", "keepActive", "keepVersion", "open"}
    BY <1>0, <2>1, <2>3, <2>4, KeysFrame
  <2>5. ASSUME NEW s \in AnySecret, Genuine(s, secrets), held' = [held EXCEPT ![c] = s],
               place \in {"keepVersion", "open"} => s.version = gotNode[c].version
        PROVE  KeysInv'
    <3>1. held'[c] = s /\ \A d \in SecretCall : d # c => held'[d] = held[d]
      BY <1>0, <2>5
    <3> QED
      BY <1>0, <2>1, <2>3, <2>5, <3>1, KeysFrame
  <2> QED
    BY <2>3, <2>4, <2>5
<1>3. ASSUME NEW c \in SecretCall, KeepForWrite(c) \/ KeepActive(c) \/ KeepVersion(c)
      PROVE  KeysInv'
  <2>1. UNCHANGED <<setting, note, gotNode, held, secrets>> /\ cached' = [cached EXCEPT ![On(c)] = @ \cup {held[c]}]
    BY <1>3 DEF KeepForWrite, KeepActive, KeepVersion, Remember
  <2>2. Genuine(held[c], secrets)
    BY <1>3 DEF KeepForWrite, KeepActive, KeepVersion, KeysInv
  <2>3. \A h \in Host : \A s \in cached'[h] : s \in cached[h] \/ Genuine(s, secrets')
    BY <1>0, <2>1, <2>2
  <2>4. \E place : /\ secretAt' = [secretAt EXCEPT ![c] = place]
                   /\ place \notin {"keep", "keepActive", "keepVersion"}
                   /\ place = "open" => held[c].version = gotNode[c].version
    BY <1>3 DEF KeepForWrite, KeepActive, KeepVersion, SecretGo, Settle, RightVersion, KeysInv
  <2> QED
    BY <1>0, <2>1, <2>3, <2>4, KeysFrame
<1>4. ASSUME NEW c \in SecretCall, StoreNode(c) \/ GetNode(c)
      PROVE  KeysInv'
  <2>1. UNCHANGED <<setting, cached, held, secrets>>
    BY <1>4 DEF StoreNode, GetNode
  <2>2. Kind(c) \in NodeKinds
    BY <1>4 DEF StoreNode, GetNode, PlacesInv, Writing, NodeKinds
  <2>3. WellFormed(note', secrets') /\ (gotNode' = gotNode \/ gotNode' = [gotNode EXCEPT ![c] = note'])
    BY <1>0, <1>4, <2>1, <2>2, RewrittenFacts DEF StoreNode, GetNode
  <2>4. \E place : /\ secretAt' = [secretAt EXCEPT ![c] = place]
                   /\ place \notin {"keep", "keepActive", "keepVersion", "open"}
    <3>1. \/ secretAt' = [secretAt EXCEPT ![c] = "look"] \/ secretAt' = [secretAt EXCEPT ![c] = "done"]
          \/ secretAt' = [secretAt EXCEPT ![c] = "failed"]
      BY <1>4 DEF StoreNode, GetNode, SecretGo
    <3> QED
      BY <3>1
  <2>5. WellFormed(gotNode'[c], secrets') /\ \A d \in SecretCall : d # c => gotNode'[d] = gotNode[d]
    BY <1>0, <2>3
  <2> QED
    BY <1>0, <2>1, <2>3, <2>4, <2>5, KeysFrame
<1>5. ASSUME NEW c \in SecretCall, Generate(c) \/ UnwrapActive(c)
      PROVE  KeysInv'
  <2>1. UNCHANGED <<setting, cached, note, gotNode>> /\ Kind(c) \notin NodeKinds
    BY <1>5 DEF Generate, UnwrapActive, PlacesInv, Setups, NodeKinds, NodeWrites
  <2>2. \A d \in SecretCall : d # c => held'[d] = held[d]
    BY <1>0, <1>5 DEF Generate, UnwrapActive, Hold
  <2>3. \E place : /\ secretAt' = [secretAt EXCEPT ![c] = place]
                   /\ place \notin {"keep", "keepActive", "keepVersion", "open"}
    BY <1>5 DEF Generate, UnwrapActive, SecretGo
  <2> QED
    BY <1>0, <2>1, <2>2, <2>3, KeysFrame
<1>6. ASSUME NEW c \in SecretCall, RotateSecret(c) \/ LockGateway(c)
      PROVE  KeysInv'
  <2>1. UNCHANGED <<setting, note, gotNode, held>> /\ (cached' = cached \/ cached' = [cached EXCEPT ![On(c)] = {}])
    BY <1>6 DEF RotateSecret, LockGateway
  <2>2. \A h \in Host : \A s \in cached'[h] : s \in cached[h]
    BY <1>0, <2>1
  <2>3. \E place : /\ secretAt' = [secretAt EXCEPT ![c] = place]
                   /\ place \notin {"keep", "keepActive", "keepVersion", "open"}
    BY <1>6 DEF RotateSecret, LockGateway, SecretGo
  <2> QED
    BY <1>0, <2>1, <2>2, <2>3, KeysFrame
<1> QED
  BY <1>1, <1>2, <1>3, <1>4, <1>5, <1>6, <1>a
     DEF SecretsNext, SecretWrite, SecretRead, SetUp, Rotation

\* A write is never behind the version that was active when it began.
LEMMA ActiveStep ==
    ASSUME SecretsTypes, PlacesInv, ActiveInv, [SecretsNext]_secretsVars
    PROVE  ActiveInv'
<1>0. /\ secretAt \in [SecretCall -> SecretPlaces] /\ held \in [SecretCall -> AnySecret]
      /\ since \in [SecretCall -> Nat] /\ disabled \in BOOLEAN
      /\ encryption \in {"standard", "encrypted"}
      /\ Len(secrets) \in Nat /\ Len(secrets') \in Nat /\ Len(secrets) <= Len(secrets')
  BY SecretsGrow DEF SecretsTypes
<1>a. CASE disabled
  <2>1. disabled'
    BY <1>a, SecretsFrame
  <2> QED
    BY <2>1 DEF ActiveInv
<1>b. CASE UNCHANGED secretsVars
  BY <1>b DEF secretsVars, secretsServer, secretsHost, secretsCall, ActiveInv
<1>c. ASSUME NEW d \in SecretCall, ~disabled
      PROVE  /\ secretAt[d] \in Writing => since[d] <= Len(secrets)
             /\ secretAt[d] \in Writing /\ encryption = "standard" => since[d] = 0
             /\ secretAt[d] \in {"keep", "store"} => held[d].version >= since[d]
  BY <1>c DEF ActiveInv
<1>d. ASSUME ~disabled, NEW c \in SecretCall, NEW place, secretAt' = [secretAt EXCEPT ![c] = place],
             encryption' = "standard" => encryption = "standard",
             \A d \in SecretCall : d # c => since'[d] = since[d] /\ held'[d] = held[d],
             place \in Writing => since'[c] <= Len(secrets),
             place \in Writing /\ encryption' = "standard" => since'[c] = 0,
             place \in {"keep", "store"} => held'[c].version >= since'[c],
             since' \in [SecretCall -> Nat]
      PROVE  ActiveInv'
  <2>1. ASSUME NEW d \in SecretCall
        PROVE  /\ secretAt'[d] \in Writing => since'[d] <= Len(secrets')
               /\ secretAt'[d] \in Writing /\ encryption' = "standard" => since'[d] = 0
               /\ secretAt'[d] \in {"keep", "store"} => held'[d].version >= since'[d]
    <3>1. CASE d = c
      BY <1>0, <1>d, <3>1
    <3>2. CASE d # c
      <4>1. secretAt'[d] = secretAt[d] /\ since'[d] = since[d] /\ held'[d] = held[d] /\ since[d] \in Nat
        BY <1>0, <1>d, <3>2
      <4> QED
        BY <1>0, <1>c, <1>d, <4>1
    <3> QED
      BY <3>1, <3>2
  <2> QED
    BY <2>1 DEF ActiveInv
<1> USE DEF secretsServer, secretsHost, secretsCall
<1>1. ASSUME ~disabled, NEW c \in SecretCall, FindNode(c)
      PROVE  ActiveInv'
  <2>1. /\ secretAt' = [secretAt EXCEPT ![c] = "check"] /\ UNCHANGED <<held, encryption>>
        /\ since' = [since EXCEPT ![c] = IF encryption = "encrypted" THEN Len(secrets) ELSE 0]
    BY <1>1 DEF FindNode, SecretGo
  <2>2. since'[c] = (IF encryption = "encrypted" THEN Len(secrets) ELSE 0)
        /\ (\A d \in SecretCall : d # c => since'[d] = since[d]) /\ since' \in [SecretCall -> Nat]
    BY <1>0, <2>1
  <2>3. since'[c] <= Len(secrets) /\ (encryption' = "standard" => since'[c] = 0)
    BY <1>0, <2>1, <2>2
  <2>4. "check" \notin {"keep", "store"} /\ (encryption' = "standard" => encryption = "standard")
        /\ \A d \in SecretCall : d # c => since'[d] = since[d] /\ held'[d] = held[d]
    BY <2>1, <2>2
  <2> QED
    BY <1>1, <1>d, <2>1, <2>2, <2>3, <2>4
<1>2. ASSUME ~disabled, NEW c \in SecretCall, CheckState(c)
      PROVE  ActiveInv'
  <2>1. /\ secretAt[c] \in Writing /\ UNCHANGED <<held, encryption, since>> /\ held[c].version \in Nat /\ since[c] \in Nat
        /\ secretAt' = [secretAt EXCEPT ![c] = IF encryption = "encrypted" THEN "fetch" ELSE "store"]
    BY <1>0, <1>2 DEF CheckState, SecretGo, Writing, AnySecret
  <2>2. encryption # "encrypted" => held[c].version >= since[c]
    BY <1>0, <1>2, <1>c, <2>1
  <2>3. since[c] <= Len(secrets) /\ (encryption = "standard" => since[c] = 0)
    BY <1>2, <1>c, <2>1
  <2>4. CASE encryption = "encrypted"
    BY <1>0, <1>2, <1>d, <2>1, <2>3, <2>4
  <2>5. CASE encryption # "encrypted"
    BY <1>0, <1>2, <1>d, <2>1, <2>2, <2>3, <2>5
  <2> QED
    BY <2>4, <2>5
<1>3. ASSUME ~disabled, NEW c \in SecretCall, FetchForWrite(c)
      PROVE  ActiveInv'
  <2>1. /\ UNCHANGED <<encryption, since>>
        /\ since[c] <= Len(secrets) /\ (encryption = "standard" => since[c] = 0)
    BY <1>3, <1>c DEF FetchForWrite, Writing
  <2>2. \/ secretAt' = [secretAt EXCEPT ![c] = "refused"] /\ held' = held
        \/ secretAt' = [secretAt EXCEPT ![c] = "keep"] /\ held' = [held EXCEPT ![c] = Unwrapped(Len(secrets))]
    BY <1>3 DEF FetchForWrite, ForWrite, Fetch, Hold, SecretGo
  <2>3. CASE secretAt' = [secretAt EXCEPT ![c] = "refused"] /\ held' = held
    BY <1>0, <1>3, <1>d, <2>1, <2>3 DEF Writing
  <2>4. CASE secretAt' = [secretAt EXCEPT ![c] = "keep"] /\ held' = [held EXCEPT ![c] = Unwrapped(Len(secrets))]
    <3>1. held'[c].version = Len(secrets) /\ \A d \in SecretCall : d # c => held'[d] = held[d]
      BY <1>0, <2>4 DEF Unwrapped
    <3>2. held'[c].version >= since[c] /\ since[c] \in Nat
      BY <1>0, <2>1, <3>1
    <3> QED
      BY <1>0, <1>3, <1>d, <2>1, <2>4, <3>1, <3>2 DEF Writing
  <2> QED
    BY <2>2, <2>3, <2>4
<1>4. ASSUME ~disabled, NEW c \in SecretCall, KeepForWrite(c)
      PROVE  ActiveInv'
  <2>1. /\ UNCHANGED <<held, encryption, since>> /\ secretAt[c] = "keep"
        /\ secretAt' = [secretAt EXCEPT ![c] = "store"]
    BY <1>4 DEF KeepForWrite, SecretGo
  <2>2. since[c] <= Len(secrets) /\ (encryption = "standard" => since[c] = 0) /\ held[c].version >= since[c]
    BY <1>4, <1>c, <2>1 DEF Writing
  <2> QED
    BY <1>0, <1>4, <1>d, <2>1, <2>2
<1>5. ASSUME ~disabled, NEW c \in SecretCall,
             \/ StoreNode(c) \/ SecretRead(c) \/ SetUp(c) \/ Rotation(c) \/ LockGateway(c)
      PROVE  ActiveInv'
  <2>1. UNCHANGED since /\ (encryption' = "standard" => encryption = "standard")
    BY <1>5 DEF StoreNode, SecretRead, SetUp, Rotation, LockGateway,
           GetNode, BeginLooking, FindSlot, AskActive, KeepActive, AskVersion, KeepVersion, OpenEnvelopes,
           ListRequests, Generate, Complete, UnwrapActive, WrapNew, RotateSecret
  <2>2. \A d \in SecretCall : d # c => held'[d] = held[d]
    BY <1>0, <1>5 DEF StoreNode, SecretRead, SetUp, Rotation, LockGateway, Fetch, Hold,
           GetNode, BeginLooking, FindSlot, AskActive, KeepActive, AskVersion, KeepVersion, OpenEnvelopes,
           ListRequests, Generate, Complete, UnwrapActive, WrapNew, RotateSecret
  <2>3. \E place : secretAt' = [secretAt EXCEPT ![c] = place] /\ place \notin Writing \cup {"keep", "store"}
    <3>1. CASE StoreNode(c) \/ LockGateway(c) \/ SetUp(c)
      <4>1. \/ secretAt' = [secretAt EXCEPT ![c] = "look"] \/ secretAt' = [secretAt EXCEPT ![c] = "done"]
            \/ secretAt' = [secretAt EXCEPT ![c] = "failed"] \/ secretAt' = [secretAt EXCEPT ![c] = "generate"]
            \/ secretAt' = [secretAt EXCEPT ![c] = "refused"] \/ secretAt' = [secretAt EXCEPT ![c] = "complete"]
        BY <3>1 DEF StoreNode, LockGateway, SetUp, ListRequests, Generate, Complete, SecretGo
      <4> QED
        BY <4>1 DEF Writing
    <3>4. CASE Rotation(c)
      <4>1. \/ secretAt' = [secretAt EXCEPT ![c] = "wrap"] \/ secretAt' = [secretAt EXCEPT ![c] = "refused"]
            \/ secretAt' = [secretAt EXCEPT ![c] = "rotate"] \/ secretAt' = [secretAt EXCEPT ![c] = "done"]
            \/ secretAt' = [secretAt EXCEPT ![c] = "failed"]
        BY <3>4 DEF Rotation, UnwrapActive, WrapNew, RotateSecret, SecretGo
      <4> QED
        BY <4>1 DEF Writing
    <3>2. CASE GetNode(c) \/ BeginLooking(c) \/ FindSlot(c) \/ OpenEnvelopes(c) \/ KeepVersion(c)
      <4>1. \/ secretAt' = [secretAt EXCEPT ![c] = "look"] \/ secretAt' = [secretAt EXCEPT ![c] = "slot"]
            \/ secretAt' = [secretAt EXCEPT ![c] = "failed"] \/ secretAt' = [secretAt EXCEPT ![c] = "active"]
            \/ secretAt' = [secretAt EXCEPT ![c] = "open"]
            \/ secretAt' = [secretAt EXCEPT ![c] = "done"] \/ secretAt' = [secretAt EXCEPT ![c] = "unavailable"]
        BY <3>2 DEF GetNode, BeginLooking, FindSlot, OpenEnvelopes, KeepVersion, SecretGo
      <4> QED
        BY <4>1 DEF Writing
    <3>3. CASE AskActive(c) \/ KeepActive(c) \/ AskVersion(c)
      <4>1. \/ secretAt' = [secretAt EXCEPT ![c] = "refused"] \/ secretAt' = [secretAt EXCEPT ![c] = "keepActive"]
            \/ secretAt' = [secretAt EXCEPT ![c] = "keepVersion"] \/ secretAt' = [secretAt EXCEPT ![c] = "open"]
            \/ secretAt' = [secretAt EXCEPT ![c] = "version"]
        BY <3>3 DEF AskActive, KeepActive, AskVersion, Fetch, Settle, SecretGo
      <4> QED
        BY <4>1 DEF Writing
    <3> QED
      BY <1>5, <3>1, <3>2, <3>3, <3>4 DEF SecretRead
  <2> QED
    BY <1>0, <1>5, <1>d, <2>1, <2>2, <2>3
<1>6. ASSUME NEW c \in SecretCall, DisableEncryption(c)
      PROVE  ActiveInv'
  BY <1>6 DEF DisableEncryption, ActiveInv
<1> QED
  BY <1>1, <1>2, <1>3, <1>4, <1>5, <1>6, <1>a, <1>b DEF SecretsNext, SecretWrite

\* The passphrase of a process changes only under the eyes of the history.
LEMMA PhraseStep ==
    ASSUME SecretsTypes, PlacesInv, PhraseInv, [SecretsNext]_secretsVars
    PROVE  PhraseInv'
<1>0. /\ secretAt \in [SecretCall -> SecretPlaces] /\ wrap \in [SecretCall -> Phrase]
      /\ held \in [SecretCall -> AnySecret] /\ secrets \in Seq(AnyWrapped)
      /\ phrase \in [Host -> Phrase \cup {"none"}] /\ swapped \subseteq swapped'
      /\ \A d \in SecretCall : On(d) \in Host
      /\ \A v \in DOMAIN secrets : v \in DOMAIN secrets' /\ secrets'[v] = secrets[v]
      /\ \A d \in SecretCall : secretAt[d] \in {"wrap", "rotate"} => secrets # <<>>
      /\ request = "pending" => secrets = <<>>
  BY SecretsGrow, SecretsFrame, SettingFacts DEF SecretsTypes, PlacesInv
<1> USE DEF secretsServer, secretsHost, secretsCall
<1>s. setting' = setting
  BY SecretsFrame
<1>e. \A d \in SecretCall : phrase'[On(d)] = phrase[On(d)] => (Effective(On(d)))' = Effective(On(d))
  BY <1>s DEF Effective, On
<1>b. CASE UNCHANGED secretsVars
  BY <1>b DEF secretsVars, PhraseInv, OnePassphrase, Effective, On
<1>c. ASSUME NEW d \in SecretCall, secretAt[d] \in {"wrap", "rotate"}
      PROVE  /\ held[d].key.by = d /\ held[d].version \in DOMAIN secrets
             /\ secretAt[d] = "wrap" => d \in swapped \/ Effective(On(d)) = secrets[held[d].version].phrase
             /\ secretAt[d] = "rotate" => d \in swapped \/ wrap[d] = secrets[held[d].version].phrase
  BY <1>c DEF PhraseInv
\* A step that leaves the passphrases of the other rotations.
<1>d. ASSUME NEW c \in SecretCall, NEW place, secretAt' = [secretAt EXCEPT ![c] = place],
             OnePassphrase',
             \A d \in SecretCall : d # c => wrap'[d] = wrap[d] /\ held'[d] = held[d],
             \A d \in SecretCall : d # c /\ secretAt[d] = "wrap" => d \in swapped' \/ phrase'[On(d)] = phrase[On(d)],
             place \in {"wrap", "rotate"} => held'[c].key.by = c /\ held'[c].version \in DOMAIN secrets,
             place = "wrap" => c \in swapped' \/ (Effective(On(c)))' = secrets[held'[c].version].phrase,
             place = "rotate" => c \in swapped' \/ wrap'[c] = secrets[held'[c].version].phrase
      PROVE  PhraseInv'
  <2>1. ASSUME NEW d \in SecretCall, secretAt'[d] \in {"wrap", "rotate"}
        PROVE  /\ held'[d].key.by = d /\ held'[d].version \in DOMAIN secrets'
               /\ \/ d \in swapped'
                  \/ secrets'[held'[d].version].phrase = IF secretAt'[d] = "wrap" THEN (Effective(On(d)))' ELSE wrap'[d]
    <3>1. CASE d = c
      BY <1>0, <1>d, <2>1, <3>1
    <3>2. CASE d # c
      <4>1. secretAt'[d] = secretAt[d] /\ wrap'[d] = wrap[d] /\ held'[d] = held[d]
        BY <1>0, <1>d, <3>2
      <4>2. secretAt[d] = "wrap" => d \in swapped' \/ (Effective(On(d)))' = Effective(On(d))
        BY <1>d, <1>e, <3>2
      <4>3. /\ held[d].key.by = d /\ held[d].version \in DOMAIN secrets
            /\ secretAt[d] = "wrap" => d \in swapped \/ Effective(On(d)) = secrets[held[d].version].phrase
            /\ secretAt[d] = "rotate" => d \in swapped \/ wrap[d] = secrets[held[d].version].phrase
        BY <1>c, <2>1, <4>1
      <4> QED
        BY <1>0, <2>1, <4>1, <4>2, <4>3
    <3> QED
      BY <3>1, <3>2
  <2> QED
    BY <1>d, <2>1 DEF PhraseInv
\* The versions stay as they are.
<1>f. ASSUME secrets' = secrets PROVE OnePassphrase'
  BY <1>0, <1>f DEF PhraseInv, OnePassphrase
<1>1. ASSUME NEW c \in SecretCall, SecretWrite(c) \/ SecretRead(c) \/ DisableEncryption(c)
      PROVE  PhraseInv'
  <2>1. UNCHANGED <<secrets, phrase, wrap>>
    BY <1>1 DEF SecretWrite, SecretRead, DisableEncryption,
         FindNode, CheckState, FetchForWrite, KeepForWrite, StoreNode, GetNode, BeginLooking,
         FindSlot, AskActive, KeepActive, AskVersion, KeepVersion, OpenEnvelopes
  <2>2. /\ \E place : secretAt' = [secretAt EXCEPT ![c] = place] /\ place \notin {"wrap", "rotate"}
        /\ \A d \in SecretCall : d # c => held'[d] = held[d]
    <3>1. CASE FindNode(c) \/ CheckState(c) \/ KeepForWrite(c) \/ StoreNode(c) \/ DisableEncryption(c)
      <4>1. \E place \in SecretPlaces \ {"wrap", "rotate"} : secretAt' = [secretAt EXCEPT ![c] = place]
        BY <3>1 DEF FindNode, CheckState, KeepForWrite, StoreNode, DisableEncryption, SecretGo,
                    SecretPlaces, Reading, Writing
      <4>2. held' = held
        BY <3>1 DEF FindNode, CheckState, KeepForWrite, StoreNode, DisableEncryption
      <4> QED
        BY <4>1, <4>2
    <3>2. CASE GetNode(c) \/ BeginLooking(c) \/ FindSlot(c) \/ OpenEnvelopes(c) \/ KeepVersion(c)
      <4>1. \E place \in SecretPlaces \ {"wrap", "rotate"} : secretAt' = [secretAt EXCEPT ![c] = place]
        BY <3>2 DEF GetNode, BeginLooking, FindSlot, OpenEnvelopes, KeepVersion, SecretGo,
                    SecretPlaces, Reading, Writing
      <4>2. \A d \in SecretCall : d # c => held'[d] = held[d]
        BY <1>0, <3>2 DEF GetNode, BeginLooking, FindSlot, OpenEnvelopes, KeepVersion, Hold
      <4> QED
        BY <4>1, <4>2
    <3>3. CASE FetchForWrite(c) \/ AskActive(c) \/ KeepActive(c) \/ AskVersion(c)
      <4>1. \E place \in SecretPlaces \ {"wrap", "rotate"} : secretAt' = [secretAt EXCEPT ![c] = place]
        BY <3>3 DEF FetchForWrite, AskActive, KeepActive, AskVersion, Fetch, Settle, SecretGo,
                    SecretPlaces, Reading, Writing
      <4>2. \A d \in SecretCall : d # c => held'[d] = held[d]
        BY <1>0, <3>3 DEF FetchForWrite, AskActive, KeepActive, AskVersion, Fetch, Hold
      <4> QED
        BY <4>1, <4>2
    <3> QED
      BY <1>1, <3>1, <3>2, <3>3 DEF SecretWrite, SecretRead
  <2> QED
    BY <1>d, <1>f, <2>1, <2>2
<1>2. ASSUME NEW c \in SecretCall, ListRequests(c) \/ LockGateway(c)
      PROVE  PhraseInv'
  <2>1. UNCHANGED <<secrets, wrap, held>>
    BY <1>2 DEF ListRequests, GivesPhrase, LockGateway
  <2>2. \A d \in SecretCall : d # c /\ secretAt[d] = "wrap" => d \in swapped' \/ phrase'[On(d)] = phrase[On(d)]
    <3>1. \/ phrase' = phrase
          \/ /\ \E p : phrase' = [phrase EXCEPT ![On(c)] = p]
             /\ swapped' = swapped \cup Rotating(On(c))
      BY <1>2 DEF ListRequests, GivesPhrase, LockGateway
    <3> QED
      BY <1>0, <3>1 DEF Rotating
  <2>3. \E place \in {"generate", "done"} : secretAt' = [secretAt EXCEPT ![c] = place]
    BY <1>2 DEF ListRequests, LockGateway, SecretGo
  <2> QED
    BY <1>d, <1>f, <2>1, <2>2, <2>3
<1>3. ASSUME NEW c \in SecretCall, Generate(c) \/ UnwrapActive(c) \/ WrapNew(c)
      PROVE  PhraseInv'
  <2>1. UNCHANGED <<secrets, phrase, swapped>>
    BY <1>3 DEF Generate, UnwrapActive, WrapNew
  <2>2. \A d \in SecretCall : d # c => wrap'[d] = wrap[d] /\ held'[d] = held[d]
    BY <1>0, <1>3 DEF Generate, UnwrapActive, WrapNew, Hold
  <2>3. CASE \E place : secretAt' = [secretAt EXCEPT ![c] = place] /\ place \notin {"wrap", "rotate"}
    BY <1>d, <1>f, <2>1, <2>2, <2>3
  <2>4. CASE secretAt' = [secretAt EXCEPT ![c] = "wrap"] /\ UnwrapActive(c)
    <3>1. /\ secrets # <<>> /\ Effective(On(c)) = secrets[Len(secrets)].phrase
          /\ Hold(c, [version |-> Len(secrets), key |-> NewKey(c, Len(secrets) + 1)])
      BY <1>0, <2>4 DEF UnwrapActive, MayRotate, Opens, SecretGo
    <3>2. held'[c].version = Len(secrets) /\ held'[c].key.by = c
      BY <1>0, <3>1 DEF Hold, NewKey
    <3>3. Len(secrets) \in DOMAIN secrets
      BY <1>0, <3>1
    <3> QED
      BY <1>d, <1>e, <1>f, <2>1, <2>2, <2>4, <3>1, <3>2, <3>3
  <2>5. CASE secretAt' = [secretAt EXCEPT ![c] = "rotate"] /\ WrapNew(c)
    <3>1. secretAt[c] = "wrap" /\ wrap'[c] = Effective(On(c)) /\ held' = held
      BY <1>0, <2>5 DEF WrapNew, SecretGo
    <3> QED
      BY <1>c, <1>d, <1>f, <2>1, <2>2, <2>5, <3>1
  <2> QED
    <3>1. CASE Generate(c)
      BY <2>3, <3>1 DEF Generate, SecretGo
    <3>2. CASE UnwrapActive(c)
      BY <2>3, <2>4, <3>2 DEF UnwrapActive, SecretGo
    <3>3. CASE WrapNew(c)
      BY <2>3, <2>5, <3>3 DEF WrapNew, SecretGo
    <3> QED
      BY <1>3, <3>1, <3>2, <3>3
<1>4. ASSUME NEW c \in SecretCall, Complete(c) \/ RotateSecret(c)
      PROVE  PhraseInv'
  <2>1. UNCHANGED <<phrase, wrap, held, swapped>>
    BY <1>4 DEF Complete, RotateSecret
  <2>2. \E place \in {"done", "failed"} : secretAt' = [secretAt EXCEPT ![c] = place]
    BY <1>4 DEF Complete, RotateSecret, SecretGo
  <2>3. \/ secrets' = secrets
        \/ secrets' = <<Wrapped(c)>>
        \/ /\ secretAt[c] = "rotate" /\ held[c].version = Len(secrets)
           /\ secrets' = Append(secrets, Wrapped(c))
    BY <1>4 DEF Complete, RotateSecret
  <2>4. OnePassphrase'
    <3>1. CASE secrets' = secrets
      BY <1>f, <3>1
    <3>2. CASE secrets' = <<Wrapped(c)>>
      <4>1. DOMAIN secrets' = 1 .. 1
        BY <3>2
      <4> QED
        BY <4>1 DEF OnePassphrase
    <3>3. CASE /\ secretAt[c] = "rotate" /\ held[c].version = Len(secrets)
               /\ secrets' = Append(secrets, Wrapped(c))
      <4>1. /\ Wrapped(c).key.by = c
            /\ c \in swapped \/ Wrapped(c).phrase = secrets[Len(secrets)].phrase
        BY <1>c, <3>3 DEF Wrapped
      <4>2. Wrapped(c) \in AnyWrapped
        BY <1>0 DEF Wrapped, AnyWrapped, AnySecret
      <4>3. /\ DOMAIN secrets' = 1 .. Len(secrets) + 1 /\ secrets'[Len(secrets) + 1] = Wrapped(c)
            /\ \A v \in 1 .. Len(secrets) : secrets'[v] = secrets[v]
            /\ DOMAIN secrets = 1 .. Len(secrets) /\ Len(secrets) \in Nat
        BY <1>0, <3>3, <4>2
      <4> HIDE DEF Wrapped
      <4>4. ASSUME NEW v \in DOMAIN secrets', v > 1
            PROVE  secrets'[v].phrase = secrets'[v-1].phrase \/ secrets'[v].key.by \in swapped'
        <5>1. CASE v = Len(secrets) + 1
          <6>1. v - 1 = Len(secrets) /\ v - 1 \in 1 .. Len(secrets)
            BY <4>3, <4>4, <5>1
          <6>2. secrets'[v] = Wrapped(c) /\ secrets'[v-1] = secrets[Len(secrets)]
            BY <4>3, <5>1, <6>1
          <6> QED
            BY <2>1, <4>1, <6>2
        <5>2. CASE v # Len(secrets) + 1
          <6>1. v \in DOMAIN secrets /\ v - 1 \in 1 .. Len(secrets)
            BY <4>3, <4>4, <5>2
          <6>2. secrets'[v] = secrets[v] /\ secrets'[v-1] = secrets[v-1]
            BY <4>3, <6>1
          <6>3. secrets[v].phrase = secrets[v-1].phrase \/ secrets[v].key.by \in swapped
            BY <4>4, <6>1 DEF PhraseInv, OnePassphrase
          <6> QED
            BY <2>1, <6>2, <6>3
        <5> QED
          BY <5>1, <5>2
      <4> QED
        BY <4>4 DEF OnePassphrase
    <3> QED
      BY <2>3, <3>1, <3>2, <3>3
  <2> QED
    BY <1>d, <2>1, <2>2, <2>4
<1> QED
  BY <1>1, <1>2, <1>3, <1>4, <1>b DEF SecretsNext, SetUp, Rotation

LEMMA WrittenStep ==
    ASSUME SecretsTypes, PlacesInv, ActiveInv, WrittenUnderActive, [SecretsNext]_secretsVars
    PROVE  WrittenUnderActive'
<1>1. ASSUME NEW c \in SecretCall, StoreNode(c)
      PROVE  WrittenUnderActive'
  <2>1. UNCHANGED disabled /\ secretAt[c] = "store"
        /\ (wrote' = wrote \/ wrote' = [since |-> since[c], version |-> held[c].version])
    BY <1>1 DEF StoreNode
  <2>2. disabled \/ held[c].version >= since[c]
    BY <2>1 DEF ActiveInv
  <2> QED
    BY <2>1, <2>2 DEF WrittenUnderActive
<1> USE DEF secretsServer
<1>3. ASSUME NEW c \in SecretCall, DisableEncryption(c)
      PROVE  WrittenUnderActive'
  BY <1>3 DEF DisableEncryption, WrittenUnderActive
<1>4. ASSUME NEW c \in SecretCall, (SecretWrite(c) /\ ~StoreNode(c)) \/ SecretRead(c)
      PROVE  UNCHANGED wrote /\ UNCHANGED disabled
  BY <1>4 DEF SecretWrite, SecretRead,
         FindNode, CheckState, FetchForWrite, KeepForWrite, GetNode, BeginLooking,
         FindSlot, AskActive, KeepActive, AskVersion, KeepVersion, OpenEnvelopes
<1>5. ASSUME NEW c \in SecretCall, SetUp(c) \/ Rotation(c) \/ LockGateway(c)
      PROVE  UNCHANGED wrote /\ UNCHANGED disabled
  BY <1>5 DEF SetUp, Rotation, ListRequests, Generate, Complete, UnwrapActive, WrapNew, RotateSecret, LockGateway
<1>6. CASE UNCHANGED secretsVars
  BY <1>6 DEF secretsVars, WrittenUnderActive
<1>7. ASSUME UNCHANGED wrote, UNCHANGED disabled
      PROVE  WrittenUnderActive'
  BY <1>7 DEF WrittenUnderActive
<1> QED
  BY <1>1, <1>3, <1>4, <1>5, <1>6, <1>7 DEF SecretsNext, SecretWrite

\* Who gets to open a node that was not crossed has what opens its envelopes.
LEMMA OpenFacts ==
    ASSUME SecretsTypes, PlacesInv, KeysInv, NEW c \in SecretCall, secretAt[c] = "open",
           ~gotNode[c].crossed, NEW e \in {gotNode[c].content, gotNode[c].metadata},
           e.path \in {0, gotNode[c].path}
    PROVE  Decrypts(c, e)
<1>1. WellSealed(e, secrets) /\ e.version \in {0, gotNode[c].version}
      /\ held[c].version = gotNode[c].version
  BY DEF KeysInv, WellFormed
<1>2. Kind(c) \in NodeKinds
  BY DEF PlacesInv, Reading
<1>3. held[c].version = 0 \/ Genuine(held[c], secrets)
  BY <1>2 DEF KeysInv
<1>4. 0 \notin DOMAIN secrets
  BY DEF SecretsTypes
<1> QED
  BY <1>1, <1>3, <1>4 DEF Decrypts, WellSealed, Genuine

LEMMA RightKeyStep ==
    ASSUME SecretsTypes, PlacesInv, KeysInv, RightKeyIsFound, [SecretsNext]_secretsVars
    PROVE  RightKeyIsFound'
<1>0. /\ secretAt \in [SecretCall -> SecretPlaces] /\ gotNode \in [SecretCall -> AnyNote]
  BY DEF SecretsTypes
<1> USE DEF secretsServer, secretsHost, secretsCall
<1>1. ASSUME NEW c \in SecretCall, StoreNode(c) \/ GetNode(c)
      PROVE  RightKeyIsFound'
  <2>1. (gotNode' = gotNode \/ gotNode' = [gotNode EXCEPT ![c] = note'])
        /\ \E place \in {"look", "done", "failed"} : secretAt' = [secretAt EXCEPT ![c] = place]
    BY <1>1 DEF StoreNode, GetNode, SecretGo
  <2>2. \A d \in SecretCall : secretAt'[d] = "unavailable" => d # c
    BY <1>0, <2>1
  <2>3. \A d \in SecretCall : d # c => secretAt'[d] = secretAt[d] /\ gotNode'[d] = gotNode[d]
    BY <1>0, <2>1
  <2> QED
    BY <2>2, <2>3 DEF RightKeyIsFound
<1>2. ASSUME UNCHANGED gotNode,
             \A d \in SecretCall : secretAt'[d] = "unavailable" => secretAt[d] = "unavailable"
      PROVE  RightKeyIsFound'
  BY <1>2 DEF RightKeyIsFound
<1>3. ASSUME NEW c \in SecretCall, OpenEnvelopes(c)
      PROVE  RightKeyIsFound'
  <2>0. UNCHANGED gotNode
    BY <1>3 DEF OpenEnvelopes
  <2>1. ASSUME NEW d \in SecretCall, secretAt'[d] = "unavailable", secretAt[d] # "unavailable"
        PROVE  \/ gotNode[d].crossed
               \/ \E e \in {gotNode[d].content, gotNode[d].metadata} : e.path \notin {0, gotNode[d].path}
    <3>1. d = c /\ secretAt[c] = "open"
      BY <1>0, <1>3, <2>1 DEF OpenEnvelopes, SecretGo
    <3>2. ~(Decrypts(c, gotNode[c].content) /\ Decrypts(c, gotNode[c].metadata))
      BY <1>0, <1>3, <2>1, <3>1 DEF OpenEnvelopes, SecretGo
    <3> QED
      BY <3>1, <3>2, OpenFacts
  <2> QED
    BY <2>0, <2>1 DEF RightKeyIsFound
<1>4. ASSUME NEW c \in SecretCall, NEW place, secretAt' = [secretAt EXCEPT ![c] = place], place # "unavailable"
      PROVE  \A d \in SecretCall : secretAt'[d] = "unavailable" => secretAt[d] = "unavailable"
  BY <1>0, <1>4
<1>5. ASSUME NEW c \in SecretCall,
             \/ FindNode(c) \/ CheckState(c) \/ KeepForWrite(c) \/ BeginLooking(c) \/ KeepActive(c) \/ KeepVersion(c)
             \/ SetUp(c) \/ Rotation(c) \/ LockGateway(c) \/ DisableEncryption(c)
      PROVE  RightKeyIsFound'
  <2>1. UNCHANGED gotNode
    BY <1>5 DEF FindNode, CheckState, KeepForWrite, BeginLooking, KeepActive, KeepVersion, SetUp, Rotation,
                ListRequests, Generate, Complete, UnwrapActive, WrapNew, RotateSecret, LockGateway, DisableEncryption
  <2>2. \E place \in SecretPlaces \ {"unavailable"} : secretAt' = [secretAt EXCEPT ![c] = place]
    <3>1. CASE FindNode(c) \/ CheckState(c) \/ KeepForWrite(c) \/ BeginLooking(c) \/ KeepActive(c) \/ KeepVersion(c)
      BY <3>1 DEF FindNode, CheckState, KeepForWrite, BeginLooking, KeepActive, KeepVersion, SecretGo, Settle,
                  SecretPlaces, Reading, Writing
    <3>2. CASE SetUp(c) \/ Rotation(c) \/ LockGateway(c) \/ DisableEncryption(c)
      BY <3>2 DEF SetUp, Rotation, ListRequests, Generate, Complete, UnwrapActive, WrapNew, RotateSecret,
                  LockGateway, DisableEncryption, SecretGo, SecretPlaces
    <3> QED
      BY <1>5, <3>1, <3>2
  <2> QED
    BY <1>2, <1>4, <2>1, <2>2
<1>6. ASSUME NEW c \in SecretCall, FetchForWrite(c) \/ FindSlot(c) \/ AskActive(c) \/ AskVersion(c)
      PROVE  RightKeyIsFound'
  <2>1. UNCHANGED gotNode
    BY <1>6 DEF FetchForWrite, FindSlot, AskActive, AskVersion
  <2>2. \E place \in {"refused", "keep", "failed", "active", "open", "keepActive", "version", "keepVersion"} :
            secretAt' = [secretAt EXCEPT ![c] = place]
    BY <1>6, HeldCases DEF HeldStep
  <2> QED
    BY <1>2, <1>4, <2>1, <2>2
<1>7. CASE UNCHANGED secretsVars
  BY <1>7, <1>2 DEF secretsVars
<1> QED
  BY <1>1, <1>3, <1>5, <1>6, <1>7 DEF SecretsNext, SecretWrite, SecretRead

LEMMA SecretsNextInv == ASSUME SecretsInv, [SecretsNext]_secretsVars PROVE SecretsInv'
<1> USE DEF SecretsInv
<1>1. SecretsTypes' /\ PlacesInv' /\ KeysInv'
  BY TypesStep, PlacesStep, KeysStep
<1>2. ActiveInv' /\ WrittenUnderActive'
  BY ActiveStep, WrittenStep
<1>3. PhraseInv' /\ RightKeyIsFound'
  BY PhraseStep, RightKeyStep
<1> QED
  BY <1>1, <1>2, <1>3

LEMMA SecretsSpecInv == SecretsSpec => []SecretsInv
BY SecretsInitInv, SecretsNextInv, PTL DEF SecretsSpec

(* A write is encrypted with the version that was active when it began, or *)
(* with a later one, whatever its process has cached.                      *)
THEOREM SpecWrittenUnderActive == SecretsSpec => []WrittenUnderActive
<1>1. SecretsInv => WrittenUnderActive
  BY DEF SecretsInv
<1> QED
  BY <1>1, SecretsSpecInv, PTL

(* A call that has got the node gets the key that opens it, but for a node *)
(* that a later write has crossed, or an old envelope that has moved.      *)
THEOREM SpecRightKeyIsFound == SecretsSpec => []RightKeyIsFound
<1>1. SecretsInv => RightKeyIsFound
  BY DEF SecretsInv
<1> QED
  BY <1>1, SecretsSpecInv, PTL

(* Every version is wrapped with the passphrase of the one before, unless  *)
(* the very rotation that made it was given another one halfway.           *)
THEOREM SpecOnePassphrase == SecretsSpec => []OnePassphrase
<1>1. SecretsInv => OnePassphrase
  BY DEF SecretsInv, PhraseInv
<1> QED
  BY <1>1, SecretsSpecInv, PTL

-----------------------------------------------------------------------------
(* The registration of the gateway.                                        *)

RegPlaces == {"start", "register", "lock", "public", "vault", "activate", "save", "mint", "local",
              "accept", "enable", "write", "replace", "renew", "renewed", "done", "invalid", "failed"}

RegStates == {"pending", "accepted", "denied", "active"}

\* A registration, a worker, or the worker of the signing key.
AnyNumber == Nat \cup {Enrolled}

RegShape ==
    /\ auth \in [reg : AnyNumber, activation : AnyNumber, worker : AnyNumber]
    /\ gatewayAuth \in [reg : AnyNumber, worker : AnyNumber] /\ tmp \in AnyNumber
    /\ registrations \in Seq(RegStates)
    /\ torn \subseteq AnyNumber /\ overlapped \subseteq AnyNumber
    /\ own \in [RegCall -> AnyNumber]
    /\ memory \in [RegCall -> [reg : AnyNumber, activation : AnyNumber, worker : AnyNumber]]
    /\ regAt \in [RegCall -> RegPlaces] /\ regJob \in RegJobs

\* Who saves both halves of a registration holds the credential lock.
WholeInv ==
    /\ \A c \in RegCall :
          /\ regAt[c] \in {"public", "vault"} => authHolder = c
          /\ regAt[c] = "vault" => auth.reg = own[c]
    /\ RegistrationIsWhole

\* One renewal is under way at a time, and it is about what the file holds.
RenewInv ==
    /\ \A c, d \in RegCall : regAt[c] = "renewed" /\ regAt[d] = "renewed" => c = d
    /\ RepairIsKept
    /\ \A c \in RegCall : regAt[c] = "renewed" =>
          own[c] \in {gatewayAuth.reg, Enrolled} \/ gatewayAuth.reg \in overlapped

RegInv == RegShape /\ WholeInv /\ RenewInv

LEMMA RegInitInv == ASSUME RegInit PROVE RegInv
<1>1. /\ auth = NoAuth /\ tmp = 0 /\ authHolder = NoCall
      /\ registrations = <<>> \/ registrations = <<"active">>
      /\ gatewayAuth \in {[reg |-> 0, worker |-> 0], [reg |-> 1, worker |-> 1]}
      /\ regAt = [c \in RegCall |-> "start"] /\ own = [c \in RegCall |-> 0]
      /\ memory = [c \in RegCall |-> NoAuth]
      /\ torn = {} /\ overlapped = {} /\ regJob \in RegJobs
  BY DEF RegInit
<1>2. NoAuth \in [reg : AnyNumber, activation : AnyNumber, worker : AnyNumber] /\ NoAuth.reg = NoAuth.activation
      /\ 0 \in AnyNumber /\ 1 \in AnyNumber
  BY DEF NoAuth, AnyNumber
<1>3. registrations \in Seq(RegStates)
  <2>1. "active" \in RegStates
    BY DEF RegStates
  <2>2. <<>> \in Seq(RegStates) /\ <<"active">> \in Seq(RegStates)
    <3> HIDE DEF RegStates
    <3> QED
      BY <2>1
  <2> QED
    BY <1>1, <2>2
<1>7. gatewayAuth \in [reg : AnyNumber, worker : AnyNumber]
  BY <1>1, <1>2
<1>4. RegShape
  BY <1>1, <1>2, <1>3, <1>7 DEF RegShape, RegPlaces
<1>5. WholeInv
  BY <1>1, <1>2 DEF WholeInv, RegistrationIsWhole
<1>6. RenewInv
  BY <1>1 DEF RenewInv, RepairIsKept
<1> QED
  BY <1>4, <1>5, <1>6 DEF RegInv

\* What a step may do, seen from the credential lock: who is neither saving nor
\* about to leaves the registration and its activation token alone.
LEMMA WholeFrame ==
    ASSUME RegShape, WholeInv, NEW c \in RegCall, NEW place, regAt' = [regAt EXCEPT ![c] = place],
           regAt[c] \notin {"public", "vault"}, place \notin {"public", "vault"},
           UNCHANGED authHolder, UNCHANGED torn,
           auth'.reg = auth.reg, auth'.activation = auth.activation,
           \A d \in RegCall : d # c => own'[d] = own[d]
    PROVE  WholeInv'
<1>1. \A d \in RegCall : regAt'[d] = IF d = c THEN place ELSE regAt[d]
  BY DEF RegShape
<1>2. \A d \in RegCall : /\ regAt'[d] \in {"public", "vault"} => authHolder' = d
                         /\ regAt'[d] = "vault" => auth'.reg = own'[d]
  BY <1>1 DEF WholeInv
<1>3. RegistrationIsWhole'
  BY <1>1 DEF WholeInv, RegistrationIsWhole
<1> QED
  BY <1>2, <1>3 DEF WholeInv

\* Where a call may go from its start.
LEMMA StartPlace ==
    ASSUME regJob \in RegJobs, NEW c \in RegCall, StartCall(c)
    PROVE  \E place \in {"done", "register", "failed", "activate", "mint", "renew"} : RegGo(c, place)
<1>1. regJob[c] \in RegKinds
  BY RegistrationAssumption
<1> DEFINE m == memory'[c]
<1>2. CASE regJob[c] \in {"configure", "run", "preregister"}
  <2>1. RegGo(c, IF KeepsWorker(c) THEN "done" ELSE "register")
    BY <1>2 DEF StartCall
  <2> QED
    BY <2>1
<1>3. CASE regJob[c] = "activate"
  <2>1. RegGo(c, IF m.reg = 0 \/ m.activation = 0 THEN "failed" ELSE "activate")
    BY <1>3 DEF StartCall
  <2> QED
    BY <2>1
<1>4. CASE regJob[c] = "repair"
  <2>1. RegGo(c, IF gatewayAuth.reg # 0 THEN "done" ELSE "mint")
    BY <1>4 DEF StartCall
  <2> QED
    BY <2>1
<1>5. CASE regJob[c] = "replace"
  BY <1>5 DEF StartCall
<1>6. CASE regJob[c] = "renew"
  <2>1. RegGo(c, IF m.worker = 0 THEN "failed" ELSE "renew")
    BY <1>6 DEF StartCall
  <2> QED
    BY <2>1
<1> QED
  BY <1>1, <1>2, <1>3, <1>4, <1>5, <1>6 DEF RegKinds

LEMMA RegShapeStep ==
    ASSUME RegShape, [RegNext]_regVars
    PROVE  RegShape'
<1>0. /\ 0 \in AnyNumber /\ Enrolled \in AnyNumber /\ Len(registrations) + 1 \in AnyNumber
      /\ auth \in [reg : AnyNumber, activation : AnyNumber, worker : AnyNumber]
      /\ gatewayAuth \in [reg : AnyNumber, worker : AnyNumber] /\ tmp \in AnyNumber
      /\ registrations \in Seq(RegStates)
      /\ own \in [RegCall -> AnyNumber] /\ regAt \in [RegCall -> RegPlaces] /\ regJob \in RegJobs
      /\ memory \in [RegCall -> [reg : AnyNumber, activation : AnyNumber, worker : AnyNumber]]
      /\ NoAuth \in [reg : AnyNumber, activation : AnyNumber, worker : AnyNumber]
  BY DEF RegShape, AnyNumber, NoAuth
<1> USE DEF regServer, regFiles, regHistory
<1>a. CASE UNCHANGED regVars
  BY <1>a DEF regVars, RegShape
<1>b. ASSUME NEW c \in RegCall, NEW place \in RegPlaces, RegGo(c, place)
      PROVE  regAt' \in [RegCall -> RegPlaces]
  BY <1>0, <1>b DEF RegGo
<1>c. ASSUME NEW r, NEW v \in RegStates
      PROVE  /\ [registrations EXCEPT ![r] = v] \in Seq(RegStates)
             /\ Append(registrations, v) \in Seq(RegStates)
  <2> DEFINE S == RegStates
  <2>1. registrations \in Seq(S) /\ v \in S
    BY <1>0, <1>c
  <2> HIDE DEF S
  <2>2. Append(registrations, v) \in Seq(S)
    BY <2>1
  <2>3. /\ DOMAIN [registrations EXCEPT ![r] = v] = 1..Len(registrations) /\ Len(registrations) \in Nat
        /\ \A i \in 1..Len(registrations) : [registrations EXCEPT ![r] = v][i] \in S
    BY <2>1
  <2>4. [registrations EXCEPT ![r] = v] \in [1..Len(registrations) -> S]
    BY <2>3
  <2>6. \A n \in Nat : [1..n -> S] \subseteq Seq(S)
    OBVIOUS
  <2>5. [registrations EXCEPT ![r] = v] \in Seq(S)
    BY <2>3, <2>4, <2>6
  <2> QED
    BY <2>2, <2>5 DEF S
<1>e. {"pending", "accepted", "denied", "active"} \subseteq RegStates
  BY DEF RegStates
<1>d. ASSUME NEW c \in RegCall, NEW r \in AnyNumber, Own(c, r)
      PROVE  own' \in [RegCall -> AnyNumber]
  BY <1>0, <1>d DEF Own
<1>1. ASSUME NEW c \in RegCall, StartCall(c)
      PROVE  RegShape'
  <2>1. memory' \in [RegCall -> [reg : AnyNumber, activation : AnyNumber, worker : AnyNumber]]
    <3>1. [NoAuth EXCEPT !.worker = gatewayAuth.worker] \in [reg : AnyNumber, activation : AnyNumber, worker : AnyNumber]
      BY <1>0
    <3> QED
      BY <1>0, <1>1, <3>1 DEF StartCall
  <2>2. own' \in [RegCall -> AnyNumber]
    BY <1>0, <1>1, <1>d, <2>1 DEF StartCall
  <2>3. regAt' \in [RegCall -> RegPlaces]
    <3>1. \E place \in RegPlaces : RegGo(c, place)
      BY <1>0, <1>1, StartPlace DEF RegPlaces
    <3> QED
      BY <1>b, <3>1
  <2> QED
    BY <1>1, <2>1, <2>2, <2>3 DEF StartCall, RegShape
<1>2. ASSUME NEW c \in RegCall, Preregister(c) \/ RegisterLocal(c)
      PROVE  RegShape'
  <2>1. registrations' \in Seq(RegStates) /\ own' \in [RegCall -> AnyNumber]
    <3>1. \/ UNCHANGED <<registrations, own>>
          \/ registrations' = Append(registrations, "pending") /\ Own(c, Len(registrations) + 1)
      BY <1>2 DEF Preregister, RegisterLocal, LastRegistration
    <3>2. "pending" \in RegStates
      BY <1>e
    <3>3. Append(registrations, "pending") \in Seq(RegStates)
      BY <1>c, <3>2
    <3>4. CASE UNCHANGED <<registrations, own>>
      BY <1>0, <3>4
    <3>5. CASE registrations' = Append(registrations, "pending") /\ Own(c, Len(registrations) + 1)
      BY <1>0, <1>d, <3>3, <3>5
    <3> QED
      BY <3>1, <3>4, <3>5
  <2>2. regAt' \in [RegCall -> RegPlaces]
    BY <1>2, <1>b DEF Preregister, RegisterLocal, RegPlaces
  <2> QED
    BY <1>2, <2>1, <2>2 DEF Preregister, RegisterLocal, RegShape
<1>3. ASSUME NEW c \in RegCall, LockAuth(c) \/ SavePublic(c) \/ SaveWorker(c) \/ Mint(c) \/ ActivationTimesOut(c)
      PROVE  RegShape'
  <2>1. auth' \in [reg : AnyNumber, activation : AnyNumber, worker : AnyNumber]
    BY <1>0, <1>3 DEF LockAuth, SavePublic, SaveWorker, Mint, ActivationTimesOut
  <2>2. regAt' \in [RegCall -> RegPlaces]
    BY <1>3, <1>b DEF LockAuth, SavePublic, SaveWorker, Mint, ActivationTimesOut, RegPlaces
  <2> QED
    BY <1>3, <2>1, <2>2 DEF LockAuth, SavePublic, SaveWorker, Mint, ActivationTimesOut, RegShape
<1>4. ASSUME NEW c \in RegCall, SaveVault(c)
      PROVE  RegShape'
  <2>1. auth' \in [reg : AnyNumber, activation : AnyNumber, worker : AnyNumber] /\ torn' \subseteq AnyNumber
    BY <1>0, <1>4 DEF SaveVault, RegShape
  <2>2. memory' \in [RegCall -> [reg : AnyNumber, activation : AnyNumber, worker : AnyNumber]]
    BY <1>0, <1>4, <2>1 DEF SaveVault
  <2>3. regAt' \in [RegCall -> RegPlaces]
    BY <1>4, <1>b DEF SaveVault, RegPlaces
  <2> QED
    BY <1>4, <2>1, <2>2, <2>3 DEF SaveVault, RegShape
<1>5. ASSUME NEW c \in RegCall, Activate(c) \/ AcceptLocal(c) \/ ActivateLocal(c)
      PROVE  RegShape'
  <2>1. registrations' \in Seq(RegStates)
    <3>1. \/ registrations' = registrations
          \/ \E r \in {memory[c].reg, own[c]} : \E v \in {"active", "accepted"} :
                registrations' = [registrations EXCEPT ![r] = v]
      BY <1>5 DEF Activate, AcceptLocal, ActivateLocal
    <3>2. CASE registrations' = registrations
      BY <1>0, <3>2
    <3>3. ASSUME NEW r, NEW v \in {"active", "accepted"}, registrations' = [registrations EXCEPT ![r] = v]
          PROVE  registrations' \in Seq(RegStates)
      <4>1. v \in RegStates
        BY <1>e
      <4> QED
        BY <1>c, <3>3, <4>1
    <3> QED
      BY <3>1, <3>2, <3>3
  <2>2. own' \in [RegCall -> AnyNumber]
    BY <1>0, <1>5, <1>d DEF Activate, AcceptLocal, ActivateLocal
  <2>3. regAt' \in [RegCall -> RegPlaces]
    BY <1>5, <1>b DEF Activate, AcceptLocal, ActivateLocal, RegPlaces
  <2> QED
    BY <1>5, <2>1, <2>2, <2>3 DEF Activate, AcceptLocal, ActivateLocal, RegShape
<1>6. ASSUME NEW c \in RegCall, WriteTemporary(c) \/ ReplaceFile(c)
      PROVE  RegShape'
  <2>1. /\ tmp' \in AnyNumber /\ gatewayAuth' \in [reg : AnyNumber, worker : AnyNumber]
        /\ overlapped' \subseteq AnyNumber
    <3>1. CASE WriteTemporary(c)
      BY <1>0, <3>1 DEF WriteTemporary, RegShape
    <3>2. CASE ReplaceFile(c) /\ tmp = 0
      BY <1>0, <3>2 DEF ReplaceFile, RegShape
    <3>3. CASE ReplaceFile(c) /\ tmp # 0
      <4>1. /\ gatewayAuth' = [reg |-> tmp, worker |-> tmp] /\ tmp' = 0
            /\ overlapped' \in {overlapped, overlapped \cup {tmp}}
        BY <3>3 DEF ReplaceFile
      <4>2. overlapped' \subseteq AnyNumber
        BY <1>0, <4>1 DEF RegShape
      <4> QED
        BY <1>0, <4>1, <4>2
    <3> QED
      BY <1>6, <3>1, <3>2, <3>3
  <2>2. regAt' \in [RegCall -> RegPlaces]
    BY <1>6, <1>b DEF WriteTemporary, ReplaceFile, RegPlaces
  <2> QED
    BY <1>6, <2>1, <2>2 DEF WriteTemporary, ReplaceFile, RegShape
<1>7. ASSUME NEW c \in RegCall, Renew(c) \/ SaveRenewed(c)
      PROVE  RegShape'
  <2>1. /\ gatewayAuth' \in [reg : AnyNumber, worker : AnyNumber] /\ own' \in [RegCall -> AnyNumber]
    BY <1>0, <1>7, <1>d DEF Renew, Renewable, SaveRenewed, RegShape
  <2>2. regAt' \in [RegCall -> RegPlaces]
    BY <1>7, <1>b DEF Renew, SaveRenewed, RegPlaces
  <2> QED
    BY <1>7, <2>1, <2>2 DEF Renew, SaveRenewed, RegShape
<1>8. ASSUME NEW c \in RegCall, Trouble(c)
      PROVE  RegShape'
  <2>1. registrations' \in Seq(RegStates)
    <3>1. \/ registrations' = registrations
          \/ registrations' = Append(registrations, "pending")
          \/ \E r \in {memory[c].reg, own[c]} : registrations' = [registrations EXCEPT ![r] = "active"]
      BY <1>8 DEF Trouble
    <3>2. "active" \in RegStates /\ "pending" \in RegStates
      BY <1>e
    <3>3. Append(registrations, "pending") \in Seq(RegStates)
      BY <3>2, <1>c
    <3>4. \A r : [registrations EXCEPT ![r] = "active"] \in Seq(RegStates)
      BY <3>2, <1>c
    <3> QED
      BY <1>0, <3>1, <3>3, <3>4
  <2>3. torn' \subseteq AnyNumber
    <3>1. torn' \in {torn, torn \cup {own[c]}}
      BY <1>8 DEF Trouble
    <3> QED
      BY <1>0, <3>1 DEF RegShape
  <2>2. regAt' \in [RegCall -> RegPlaces]
    BY <1>8, <1>b DEF Trouble, RegPlaces
  <2> QED
    BY <1>8, <2>1, <2>2, <2>3 DEF Trouble, RegShape
<1>9. ASSUME NEW r, Review(r)
      PROVE  RegShape'
  <2>1. registrations' \in Seq(RegStates)
    BY <1>9, <1>c, <1>e DEF Review
  <2> QED
    BY <1>9, <2>1 DEF Review, RegShape
<1> QED
  BY <1>1, <1>2, <1>3, <1>4, <1>5, <1>6, <1>7, <1>8, <1>9, <1>a DEF RegNext, Registering, Repairing

LEMMA WholeStep ==
    ASSUME RegShape, WholeInv, [RegNext]_regVars
    PROVE  WholeInv'
<1>0. /\ regJob \in RegJobs /\ regAt \in [RegCall -> RegPlaces] /\ own \in [RegCall -> AnyNumber]
      /\ auth \in [reg : AnyNumber, activation : AnyNumber, worker : AnyNumber]
  BY DEF RegShape
<1>i. /\ \A d \in RegCall : /\ regAt[d] \in {"public", "vault"} => authHolder = d
                            /\ regAt[d] = "vault" => auth.reg = own[d]
      /\ auth.reg = auth.activation \/ auth.reg \in torn \/ \E d \in RegCall : regAt[d] = "vault"
  BY DEF WholeInv, RegistrationIsWhole
<1> USE DEF regServer, regFiles, regHistory
<1>a. CASE UNCHANGED regVars
  BY <1>a DEF regVars, WholeInv, RegistrationIsWhole
<1>1. ASSUME NEW c \in RegCall, StartCall(c)
      PROVE  WholeInv'
  <2>1. \E place \in RegPlaces \ {"public", "vault"} : RegGo(c, place)
    BY <1>0, <1>1, StartPlace DEF RegPlaces
  <2>2. \A d \in RegCall : d # c => own'[d] = own[d]
    BY <1>0, <1>1 DEF StartCall, Own
  <2>3. regAt[c] = "start" /\ UNCHANGED <<authHolder, torn, auth>>
    BY <1>1 DEF StartCall
  <2> QED
    BY <2>1, <2>2, <2>3, WholeFrame DEF RegGo
<1>2. ASSUME NEW c \in RegCall,
             \/ Preregister(c) \/ Activate(c) \/ ActivationTimesOut(c) \/ SaveWorker(c) \/ Repairing(c)
             \/ Renew(c) \/ SaveRenewed(c)
      PROVE  WholeInv'
  <2>1. /\ regAt[c] \notin {"public", "vault"} /\ UNCHANGED <<authHolder, torn>>
        /\ \A d \in RegCall : d # c => own'[d] = own[d]
    <3>1. CASE Preregister(c) \/ Activate(c) \/ ActivationTimesOut(c) \/ SaveWorker(c)
      BY <1>0, <3>1 DEF Preregister, Activate, ActivationTimesOut, SaveWorker, Own
    <3>2. CASE Repairing(c)
      BY <1>0, <3>2 DEF Repairing, Mint, RegisterLocal, AcceptLocal, ActivateLocal, WriteTemporary, ReplaceFile, Own
    <3>3. CASE Renew(c) \/ SaveRenewed(c)
      BY <1>0, <3>3 DEF Renew, SaveRenewed, Own
    <3> QED
      BY <1>2, <3>1, <3>2, <3>3
  <2>2. auth'.reg = auth.reg /\ auth'.activation = auth.activation
    <3>1. auth' = auth \/ auth' = [auth EXCEPT !.worker = own[c]]
      BY <1>2 DEF Preregister, Activate, ActivationTimesOut, SaveWorker, Repairing, Mint, RegisterLocal,
                  AcceptLocal, ActivateLocal, WriteTemporary, ReplaceFile, Renew, SaveRenewed
    <3> QED
      BY <1>0, <3>1
  <2>3. \E place \in RegPlaces \ {"public", "vault"} : regAt' = [regAt EXCEPT ![c] = place]
    <3>1. CASE Preregister(c) \/ Activate(c) \/ ActivationTimesOut(c) \/ SaveWorker(c)
      BY <3>1 DEF Preregister, Activate, ActivationTimesOut, SaveWorker, RegGo, RegPlaces
    <3>2. CASE Repairing(c)
      BY <3>2 DEF Repairing, Mint, RegisterLocal, AcceptLocal, ActivateLocal, WriteTemporary, ReplaceFile,
                  RegGo, RegPlaces
    <3>3. CASE Renew(c) \/ SaveRenewed(c)
      BY <3>3 DEF Renew, SaveRenewed, RegGo, RegPlaces
    <3> QED
      BY <1>2, <3>1, <3>2, <3>3
  <2> QED
    BY <2>1, <2>2, <2>3, WholeFrame
<1>3. ASSUME NEW c \in RegCall, LockAuth(c)
      PROVE  WholeInv'
  <2>1. /\ regAt' = [regAt EXCEPT ![c] = "public"] /\ authHolder = NoCall /\ authHolder' = c
        /\ UNCHANGED <<auth, own, torn>> /\ regAt[c] = "lock"
    BY <1>3 DEF LockAuth, MaySave, RegGo
  <2>2. \A d \in RegCall : regAt'[d] = IF d = c THEN "public" ELSE regAt[d]
    BY <1>0, <2>1
  <2>3. \A d \in RegCall : regAt[d] \notin {"public", "vault"}
    BY <1>i, <2>1, RegistrationAssumption
  <2>4. \A d \in RegCall : /\ regAt'[d] \in {"public", "vault"} => authHolder' = d
                           /\ regAt'[d] # "vault"
    BY <2>1, <2>2, <2>3
  <2>5. auth.reg = auth.activation \/ auth.reg \in torn
    BY <1>i, <2>3
  <2> QED
    BY <2>1, <2>4, <2>5 DEF WholeInv, RegistrationIsWhole
<1>4. ASSUME NEW c \in RegCall, SavePublic(c)
      PROVE  WholeInv'
  <2>1. /\ regAt' = [regAt EXCEPT ![c] = "vault"] /\ regAt[c] = "public"
        /\ auth' = [auth EXCEPT !.reg = own[c]] /\ UNCHANGED <<authHolder, own, torn>>
    BY <1>4 DEF SavePublic, RegGo
  <2>2. \A d \in RegCall : regAt'[d] = IF d = c THEN "vault" ELSE regAt[d]
    BY <1>0, <2>1
  <2>3. \A d \in RegCall : regAt'[d] = "vault" => d = c
    BY <1>i, <2>1, <2>2
  <2>4. auth'.reg = own[c]
    BY <1>0, <2>1
  <2>5. \A d \in RegCall : /\ regAt'[d] \in {"public", "vault"} => authHolder' = d
                           /\ regAt'[d] = "vault" => auth'.reg = own'[d]
    BY <1>i, <2>1, <2>2, <2>3, <2>4
  <2> QED
    BY <2>2, <2>5 DEF WholeInv, RegistrationIsWhole
<1>5. ASSUME NEW c \in RegCall, SaveVault(c)
      PROVE  WholeInv'
  <2>1. regAt[c] = "vault" /\ authHolder' = NoCall /\ UNCHANGED own
    BY <1>5 DEF SaveVault
  <2>2. auth.reg = own[c] /\ \A d \in RegCall : regAt[d] \in {"public", "vault"} => d = c
    BY <1>i, <2>1
  <2>3. \E place \in {"failed", "activate", "done"} : regAt' = [regAt EXCEPT ![c] = place]
    BY <1>5 DEF SaveVault, RegGo
  <2>4. \A d \in RegCall : regAt'[d] \notin {"public", "vault"}
    BY <1>0, <2>2, <2>3
  <2>5. (own[c] \in torn' /\ auth' = auth) \/ auth' = [auth EXCEPT !.activation = own[c]]
    BY <1>5 DEF SaveVault
  <2>6. auth'.reg \in torn' \/ auth'.reg = auth'.activation
    BY <1>0, <2>2, <2>5
  <2> QED
    BY <2>4, <2>6 DEF WholeInv, RegistrationIsWhole
<1>6. ASSUME NEW c \in RegCall, Trouble(c)
      PROVE  WholeInv'
  <2>1. /\ regAt' = [regAt EXCEPT ![c] = "failed"] /\ UNCHANGED <<auth, own>>
        /\ torn' = IF regAt[c] = "vault" THEN torn \cup {own[c]} ELSE torn
        /\ authHolder' = IF authHolder = c THEN NoCall ELSE authHolder
    BY <1>6 DEF Trouble, RegGo
  <2>2. \A d \in RegCall : regAt'[d] = IF d = c THEN "failed" ELSE regAt[d]
    BY <1>0, <2>1
  <2>3. \A d \in RegCall : /\ regAt'[d] \in {"public", "vault"} => authHolder' = d
                           /\ regAt'[d] = "vault" => auth'.reg = own'[d]
    BY <1>i, <2>1, <2>2
  <2>4. auth'.reg = auth'.activation \/ auth'.reg \in torn' \/ \E d \in RegCall : regAt'[d] = "vault"
    BY <1>0, <1>i, <2>1, <2>2
  <2> QED
    BY <2>3, <2>4 DEF WholeInv, RegistrationIsWhole
<1>7. ASSUME NEW r, Review(r)
      PROVE  WholeInv'
  BY <1>7 DEF Review, WholeInv, RegistrationIsWhole
<1> QED
  BY <1>1, <1>2, <1>3, <1>4, <1>5, <1>6, <1>7, <1>a DEF RegNext, Registering

LEMMA RenewStep ==
    ASSUME RegShape, RenewInv, [RegNext]_regVars
    PROVE  RenewInv'
<1>0. /\ regJob \in RegJobs /\ regAt \in [RegCall -> RegPlaces] /\ own \in [RegCall -> AnyNumber]
      /\ gatewayAuth \in [reg : AnyNumber, worker : AnyNumber]
  BY DEF RegShape
<1>i. /\ \A c, d \in RegCall : regAt[c] = "renewed" /\ regAt[d] = "renewed" => c = d
      /\ gatewayAuth.worker \in {gatewayAuth.reg, Enrolled} \/ gatewayAuth.reg \in overlapped
      /\ \A c \in RegCall : regAt[c] = "renewed" =>
            own[c] \in {gatewayAuth.reg, Enrolled} \/ gatewayAuth.reg \in overlapped
  BY DEF RenewInv, RepairIsKept
<1> USE DEF regServer, regFiles, regHistory
<1>a. CASE UNCHANGED regVars
  BY <1>a DEF regVars, RenewInv, RepairIsKept
<1>b. ASSUME NEW c \in RegCall, NEW place, regAt' = [regAt EXCEPT ![c] = place], place # "renewed",
             UNCHANGED <<gatewayAuth, overlapped>>, \A d \in RegCall : d # c => own'[d] = own[d]
      PROVE  RenewInv'
  <2>1. \A d \in RegCall : regAt'[d] = IF d = c THEN place ELSE regAt[d]
    BY <1>0, <1>b
  <2> QED
    BY <1>b, <1>i, <2>1 DEF RenewInv, RepairIsKept
<1>1. ASSUME NEW c \in RegCall, StartCall(c)
      PROVE  RenewInv'
  <2>1. \E place \in RegPlaces \ {"renewed"} : RegGo(c, place)
    BY <1>0, <1>1, StartPlace DEF RegPlaces
  <2>2. \A d \in RegCall : d # c => own'[d] = own[d]
    BY <1>0, <1>1 DEF StartCall, Own
  <2> QED
    BY <1>1, <1>b, <2>1, <2>2 DEF RegGo, StartCall
<1>2. ASSUME NEW c \in RegCall, Registering(c) \/ (Repairing(c) /\ ~ReplaceFile(c)) \/ Trouble(c)
      PROVE  RenewInv'
  <2>1. /\ UNCHANGED <<gatewayAuth, overlapped>>
        /\ \A d \in RegCall : d # c => own'[d] = own[d]
    <3>1. CASE Registering(c) \/ Trouble(c)
      BY <1>0, <3>1 DEF Registering, Preregister, LockAuth, SavePublic, SaveVault, Activate, ActivationTimesOut,
                        SaveWorker, Trouble, Own
    <3>2. CASE Repairing(c) /\ ~ReplaceFile(c)
      BY <1>0, <3>2 DEF Repairing, Mint, RegisterLocal, AcceptLocal, ActivateLocal, WriteTemporary, Own
    <3> QED
      BY <1>2, <3>1, <3>2
  <2>2. \E place \in RegPlaces \ {"renewed"} : regAt' = [regAt EXCEPT ![c] = place]
    <3>1. CASE Registering(c) \/ Trouble(c)
      <4>1. CASE SaveVault(c)
        BY <4>1 DEF SaveVault, RegGo, RegPlaces
      <4>2. CASE ~SaveVault(c)
        BY <3>1, <4>2 DEF Registering, Preregister, LockAuth, SavePublic, Activate, ActivationTimesOut,
                    SaveWorker, Trouble, RegGo, RegPlaces
      <4> QED
        BY <4>1, <4>2
    <3>2. CASE Repairing(c) /\ ~ReplaceFile(c)
      BY <3>2 DEF Repairing, Mint, RegisterLocal, AcceptLocal, ActivateLocal, WriteTemporary,
                  RegGo, RegPlaces
    <3> QED
      BY <1>2, <3>1, <3>2
  <2> QED
    BY <1>b, <2>1, <2>2
<1>3. ASSUME NEW c \in RegCall, ReplaceFile(c)
      PROVE  RenewInv'
  <2>1. CASE tmp = 0
    BY <1>3, <1>b, <2>1 DEF ReplaceFile, RegGo
  <2>2. CASE tmp # 0
    <3>1. /\ regAt' = [regAt EXCEPT ![c] = "done"] /\ UNCHANGED own
          /\ gatewayAuth' = [reg |-> tmp, worker |-> tmp]
          /\ overlapped' = IF \E d \in RegCall : regAt[d] = "renewed" THEN overlapped \cup {tmp} ELSE overlapped
      BY <1>3, <2>2 DEF ReplaceFile, RegGo
    <3>2. \A d \in RegCall : regAt'[d] = IF d = c THEN "done" ELSE regAt[d]
      BY <1>0, <3>1
    <3>3. gatewayAuth'.reg = tmp /\ gatewayAuth'.worker = tmp
      BY <3>1
    <3>4. \A b, d \in RegCall : regAt'[b] = "renewed" /\ regAt'[d] = "renewed" => b = d
      BY <1>i, <3>2
    <3>5. tmp \in overlapped' \/ \A d \in RegCall : regAt'[d] # "renewed"
      <4>1. CASE \E d \in RegCall : regAt[d] = "renewed"
        BY <3>1, <4>1
      <4>2. CASE \A d \in RegCall : regAt[d] # "renewed"
        BY <3>2, <4>2
      <4> QED
        BY <4>1, <4>2
    <3> QED
      BY <3>3, <3>4, <3>5 DEF RenewInv, RepairIsKept
  <2> QED
    BY <2>1, <2>2
<1>4. ASSUME NEW c \in RegCall, Renew(c)
      PROVE  RenewInv'
  <2>1. /\ regAt' = [regAt EXCEPT ![c] = "renewed"] /\ own' = [own EXCEPT ![c] = gatewayAuth.worker]
        /\ \A d \in RegCall : regAt[d] # "renewed"
        /\ UNCHANGED <<gatewayAuth, overlapped>>
    BY <1>4 DEF Renew, Renewable, RegGo, Own
  <2>2. \A d \in RegCall : /\ regAt'[d] = "renewed" => d = c
                           /\ own'[c] = gatewayAuth.worker
    BY <1>0, <2>1
  <2> QED
    BY <1>i, <2>1, <2>2 DEF RenewInv, RepairIsKept
<1>5. ASSUME NEW c \in RegCall, SaveRenewed(c)
      PROVE  RenewInv'
  <2>1. regAt[c] = "renewed" /\ regAt' = [regAt EXCEPT ![c] = "done"] /\ UNCHANGED <<own, overlapped>>
    BY <1>5 DEF SaveRenewed, RegGo
  <2>2. \A d \in RegCall : regAt'[d] # "renewed"
    BY <1>0, <1>i, <2>1
  <2>3. gatewayAuth'.reg = gatewayAuth.reg /\ gatewayAuth'.worker \in {own[c], Enrolled}
    BY <1>0, <1>5 DEF SaveRenewed
  <2> QED
    BY <1>i, <2>1, <2>2, <2>3 DEF RenewInv, RepairIsKept
<1>6. ASSUME NEW r, Review(r)
      PROVE  RenewInv'
  BY <1>6 DEF Review, RenewInv, RepairIsKept
<1> QED
  BY <1>1, <1>2, <1>3, <1>4, <1>5, <1>6, <1>a DEF RegNext

LEMMA RegNextInv == ASSUME RegInv, [RegNext]_regVars PROVE RegInv'
BY RegShapeStep, WholeStep, RenewStep DEF RegInv

LEMMA RegSpecInv == RegSpec => []RegInv
BY RegInitInv, RegNextInv, PTL DEF RegSpec

(* The registration the file names is the one whose activation token the   *)
(* vault holds, however many calls register at once, but for one that is   *)
(* being saved or whose own saving ended between the two.                  *)
THEOREM SpecRegistrationIsWhole == RegSpec => []RegistrationIsWhole
<1>1. RegInv => RegistrationIsWhole
  BY DEF RegInv, WholeInv
<1> QED
  BY <1>1, RegSpecInv, PTL

(* A repair is not undone by a gateway that was started before it, unless  *)
(* that one was renewing when the repair replaced the file.                *)
THEOREM SpecRepairIsKept == RegSpec => []RepairIsKept
<1>1. RegInv => RepairIsKept
  BY DEF RegInv, RenewInv
<1> QED
  BY <1>1, RegSpecInv, PTL
=============================================================================
