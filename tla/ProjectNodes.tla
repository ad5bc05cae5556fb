---------------------------- MODULE ProjectNodes ----------------------------
(***************************************************************************)
(* Calls of the MCP tools that change the nodes of one project.  A call    *)
(* reads what it is about to change, takes a lease on a node, a path or    *)
(* the whole project from the server, writes once or many times under that *)
(* lease and gives it back; the client may cancel it between any two of    *)
(* its requests, and the server's answer to a request may be lost.         *)
(*                                                                         *)
(* The server (grants of leases, what it does with a write) is external    *)
(* and modelled from what the calls rely on.  The local index, which the   *)
(* calls bring up to date after a write, is the module LocalIndex.         *)
(***************************************************************************)
EXTENDS Naturals, Sequences, FiniteSets

CONSTANTS
    Call,     \* the calls under way
    Node,     \* the nodes of the project
    Outcome,  \* the outcomes a plan may be closed with
    None,     \* no outcome
    Works,    \* the assignments of work to calls that are considered
    MaxLost   \* bound: answers of the server that are lost

(* The locked writes of each kind of call, in order.  A plan is closed by  *)
(* two of them, a card completed with a note by two; nap_finish_work runs  *)
(* several operations, here one that writes a note and one that links it,  *)
(* and under its policy "continue" goes on after one that failed.          *)
Sections(kind) ==
    CASE kind = "close"    -> <<"record", "archive">>
      [] kind = "complete" -> <<"card", "card">>
      [] kind = "bundle"   -> <<"upsert", "link">>
      [] OTHER             -> <<kind>>

Writes == {"patch", "edit", "card", "link", "move", "create", "agent", "archive", "restore", "purge",
           "bulk", "folder", "record"}
Steps == Writes \cup {"upsert"}
WorkKinds == (Steps \ {"record"}) \cup {"close", "complete", "bundle"}
States == {"absent", "active", "archived"}

(* Only a bulk call and a folder move are about several nodes; whoever     *)
(* closes a plan says with which outcome.                                  *)
ASSUME WorksAssumption ==
    /\ None \notin Outcome
    /\ MaxLost \in Nat
    /\ \A w \in Works :
          /\ w \in [Call -> [kind : WorkKinds, nodes : SUBSET Node, outcome : Outcome \cup {None}]]
          /\ \A c \in Call :
                /\ w[c].nodes # {}
                /\ w[c].kind \notin {"bulk", "folder"} => \E n \in Node : w[c].nodes = {n}
                /\ w[c].kind = "close" => w[c].outcome \in Outcome

VARIABLES
    work,       \* what each call is asked to do
    state,      \* the nodes at the server
    status,     \* the outcome in the metadata of each node
    lease,      \* the nodes each call has a lease on, at the server
    log,        \* history: the writes the server has made
    at,         \* where each call stands
    todo,       \* the locked writes each call has left
    left,       \* the nodes of the current one it has not written
    got,        \* the revision in its arguments, from an earlier read of its client
    seen,       \* the revision and outcome it has read itself
    ok,         \* whether its current locked write has gone well so far
    cancelled,  \* the calls the client has cancelled
    lost,       \* the answers lost so far
    strays,     \* the calls that lost the answer to a request about their lease
    looked      \* history: the length of log when a call last read or wrote the outcome of its plan
nodesVars == <<work, state, status, lease, log, at, todo, left, got, seen, ok, cancelled, lost, strays, looked>>
server == <<state, status, log>>

Entry == [call : Call, node : Node, op : Writes, status : Outcome \cup {None}]
Step(c) == Head(todo[c])
Target(c) == CHOOSE n \in work[c].nodes : TRUE
Rev(n) == Cardinality({i \in DOMAIN log : log[i].node = n})

NodesTypeOK ==
    /\ work \in Works
    /\ state \in [Node -> States]
    /\ status \in [Node -> Outcome \cup {None}]
    /\ lease \in [Call -> SUBSET Node]
    /\ log \in Seq(Entry)
    /\ at \in [Call -> {"new", "start", "ask", "asked", "hold", "written", "release", "done", "failed"}]
    /\ todo \in [Call -> Seq(Steps)]
    /\ left \in [Call -> SUBSET Node]
    /\ got \in [Call -> Nat]
    /\ seen \in [Call -> [rev : Nat, status : Outcome \cup {None}]]
    /\ ok \in [Call -> BOOLEAN]
    /\ cancelled \subseteq Call
    /\ lost \in 0..MaxLost
    /\ strays \subseteq Call
    /\ looked \in [Call -> Nat]

NodesInit ==
    /\ work \in Works
    /\ state \in [Node -> {"absent", "active", "archived"}]
    /\ status = [n \in Node |-> None]
    /\ lease = [c \in Call |-> {}]
    /\ log = <<>>
    /\ at = [c \in Call |-> IF work[c].kind = "patch" THEN "new" ELSE "start"]
    /\ todo = [c \in Call |-> Sections(work[c].kind)]
    /\ left = [c \in Call |-> {}]
    /\ got = [c \in Call |-> 0]
    /\ seen = [c \in Call |-> [rev |-> 0, status |-> None]]
    /\ ok = [c \in Call |-> TRUE]
    /\ cancelled = {}
    /\ lost = 0
    /\ strays = {}
    /\ looked = [c \in Call |-> 0]

Go(c, place) == at' = [at EXCEPT ![c] = place]

(* A locked write is over, or was not needed, or failed. *)
Continue(c, good) ==
    IF (good \/ work[c].kind = "bundle") /\ Len(todo[c]) > 1
    THEN Go(c, "start") /\ todo' = [todo EXCEPT ![c] = Tail(@)]
    ELSE Go(c, IF good THEN "done" ELSE "failed") /\ UNCHANGED todo

(* nap_node_get in its edit view: the revision the precondition names. *)
Get(c) ==
    /\ at[c] = "new"
    /\ got' = [got EXCEPT ![c] = Rev(Target(c))]
    /\ Go(c, "start")
    /\ UNCHANGED <<work, server, lease, todo, left, seen, ok, cancelled, lost, strays, looked>>

(* What a guarded patch gives as its precondition: what its caller read,   *)
(* whatever the call itself reads now.                                     *)
OwnRead(c) == seen[c].rev   \* mutant of Precondition
Precondition(c) == got[c]

(* The plan is already as this call would leave it: only the archiving is  *)
(* left to do.                                                             *)
MatchesAny(c) == status[Target(c)] # None   \* mutant of Matches
Matches(c) == status[Target(c)] = work[c].outcome

-----------------------------------------------------------------------------
(* What a call does before it takes the lease.  It reads the node it is to *)
(* change, fails when that is gone, and may end with nothing changed.      *)
Found(c) == state[Target(c)] = "active"

Begin(c, op, nodes) ==
    /\ todo' = [todo EXCEPT ![c] = <<op>> \o Tail(@)]
    /\ left' = [left EXCEPT ![c] = nodes]
    /\ seen' = [seen EXCEPT ![c] = [rev |-> Rev(Target(c)), status |-> status[Target(c)]]]
    /\ ok' = [ok EXCEPT ![c] = TRUE]
    /\ Go(c, "ask")

Skip(c, good) == Continue(c, good) /\ UNCHANGED <<left, seen, ok>>

(* A dry run, which no call makes of a write it has begun itself. *)
DryRun(c) == Len(todo[c]) = Len(Sections(work[c].kind)) /\ Skip(c, TRUE)

OnFound(c, op) ==
    /\ Step(c) = op
    /\ IF Found(c) THEN Begin(c, op, work[c].nodes) ELSE Skip(c, FALSE)

(* A patch is refused when it is about what the project keeps encrypted; a *)
(* dry run of one is left to the server, which writes nothing.             *)
GuardedNodePatch(c) ==
    \/ OnFound(c, "patch")
    \/ Step(c) = "patch" /\ Found(c) /\ (Skip(c, FALSE) \/ Begin(c, "patch", {}))

UpdateNodeByPath(c) == OnFound(c, "edit")

UpdateKanbanCard(c) == OnFound(c, "card")

(* A link that is there already is left alone. *)
LinkNodes(c) ==
    \/ OnFound(c, "link")
    \/ Step(c) = "link" /\ Found(c) /\ Skip(c, TRUE)

MoveNode(c) ==
    \/ OnFound(c, "move")
    \/ Step(c) = "move" /\ Found(c) /\ DryRun(c)

ArchiveNodeByPath(c) ==
    \/ OnFound(c, "archive")
    \/ Step(c) = "archive" /\ Found(c) /\ DryRun(c)

(* A path that leads to no active node is a node to create, a reference to *)
(* one is a failure.                                                       *)
UpsertNode(c) ==
    /\ Step(c) = "upsert"
    /\ \/ Begin(c, IF Found(c) THEN "edit" ELSE "create", work[c].nodes)
       \/ ~Found(c) /\ Skip(c, FALSE)

(* A new card has a path of its own, unless `upsert` says that one which   *)
(* is there is to be changed.                                              *)
CreateKanbanCard(c) ==
    /\ Step(c) = "create"
    /\ \/ Begin(c, "create", work[c].nodes)
       \/ Found(c) /\ Begin(c, "edit", work[c].nodes)

(* A reference is to a node that is changed, under a lease on it; a path   *)
(* is to one that is created, under a lease on the project, and must lead  *)
(* nowhere yet.                                                            *)
UpsertAgentNode(c) ==
    /\ Step(c) = "agent"
    /\ \/ Begin(c, IF Found(c) THEN "edit" ELSE "agent", work[c].nodes)
       \/ Skip(c, FALSE)

RestoreNode(c) == Step(c) = "restore" /\ Begin(c, "restore", work[c].nodes)

(* An archived node that is named by its path is looked for first. *)
DeleteArchivedNode(c) ==
    /\ Step(c) = "purge"
    /\ \/ Begin(c, "purge", work[c].nodes)
       \/ state[Target(c)] # "archived" /\ Skip(c, FALSE)

(* A plan that is archived already stays as it is, as in a dry run; one    *)
(* that is not has its outcome recorded, unless that is there, and is      *)
(* archived then.                                                          *)
PlanLifecycleUpdate(c) ==
    /\ Step(c) = "record"
    /\ \/ ~Found(c) /\ Skip(c, FALSE)
       \/ state[Target(c)] # "absent" /\ Go(c, "done") /\ UNCHANGED <<todo, left, seen, ok>>
       \/ Found(c) /\ Matches(c) /\ Skip(c, TRUE)
       \/ Found(c) /\ ~Matches(c) /\ Begin(c, "record", work[c].nodes)

(* The nodes of the folder are listed before the lease is taken. *)
MoveFolder(c) ==
    /\ Step(c) = "folder"
    /\ Begin(c, "folder", {n \in work[c].nodes : state[n] = "active"}) \/ DryRun(c)

BulkUpsertNodes(c) == Step(c) = "bulk" /\ (Begin(c, "bulk", work[c].nodes) \/ DryRun(c))

Read(c) ==
    /\ at[c] = "start"
    /\ \/ c \in cancelled /\ Skip(c, FALSE)
       \/ /\ c \notin cancelled
          /\ \/ GuardedNodePatch(c) \/ UpdateNodeByPath(c) \/ UpdateKanbanCard(c) \/ LinkNodes(c)
             \/ MoveNode(c) \/ ArchiveNodeByPath(c) \/ UpsertNode(c) \/ CreateKanbanCard(c)
             \/ UpsertAgentNode(c) \/ RestoreNode(c) \/ DeleteArchivedNode(c)
             \/ PlanLifecycleUpdate(c) \/ MoveFolder(c) \/ BulkUpsertNodes(c)
    /\ looked' = IF Step(c) = "record" THEN [looked EXCEPT ![c] = Len(log)] ELSE looked
    /\ UNCHANGED <<work, got, server, lease, cancelled, lost, strays>>

-----------------------------------------------------------------------------
(* The scope of the lease a locked write asks for. *)
Scope(c) == IF Step(c) \in {"bulk", "folder", "purge", "agent"} THEN Node ELSE work[c].nodes

(* POST .../locks: the server grants the lease unless another one meets it *)
(* (external).  The answer may be lost, with a lease the call never hears  *)
(* of.                                                                     *)
Ask(c) ==
    /\ at[c] = "ask"
    /\ \/ /\ c \in cancelled \/ \E d \in Call : lease[d] \cap Scope(c) # {}
          /\ Continue(c, FALSE)
          /\ UNCHANGED <<lease, lost, strays>>
       \/ /\ c \notin cancelled
          /\ \A d \in Call : lease[d] \cap Scope(c) = {}
          /\ lease' = [lease EXCEPT ![c] = Scope(c)]
          /\ \/ Go(c, "asked") /\ UNCHANGED <<todo, lost, strays>>
             \/ /\ lost < MaxLost
                /\ lost' = lost + 1
                /\ strays' = strays \cup {c}
                /\ Continue(c, FALSE)
    /\ UNCHANGED <<work, got, server, left, seen, ok, cancelled, looked>>

(* The answer is kept when the call was cancelled meanwhile, *)
(* preserve_response_on_cancel, so that the lease can be given back. *)
DropsOnCancel(c) == c \notin cancelled   \* mutant of Keeps
Keeps(c) == TRUE

Asked(c) ==
    /\ at[c] = "asked"
    /\ ok' = [ok EXCEPT ![c] = c \notin cancelled]
    /\ Go(c, IF ~Keeps(c) THEN "failed" ELSE IF c \in cancelled THEN "release" ELSE "hold")
    /\ UNCHANGED <<work, got, server, lease, todo, left, seen, cancelled, lost, strays, looked>>

(* What the server does with a write (external): it wants a live lease on  *)
(* the node and the node in the right state, and a guarded patch the       *)
(* revision it names.                                                      *)
Accepts(c, n) ==
    /\ n \in lease[c]
    /\ CASE Step(c) \in {"create", "agent"} -> state[n] = "absent"
         [] Step(c) = "bulk" -> state[n] # "archived"
         [] Step(c) \in {"restore", "purge"} -> state[n] = "archived"
         [] Step(c) = "patch" -> state[n] = "active" /\ Precondition(c) = Rev(n)
         [] OTHER -> state[n] = "active"
After(op) ==
    CASE op = "archive" -> "archived" [] op = "purge" -> "absent" [] OTHER -> "active"

(* What becomes of the outcome in the metadata.  A card sends back the     *)
(* metadata it has read, its own outcome changed; a caller that gives      *)
(* metadata of its own may drop the outcome or give another.               *)
StatusAfter(c, n) ==
    CASE Step(c) = "record" -> {work[c].outcome}
      [] Step(c) = "card" -> {seen[c].status}
      [] Step(c) \in {"edit", "patch", "bulk", "create", "agent"} -> Outcome \cup {None}
      [] Step(c) = "purge" -> {None}
      [] OTHER -> {status[n]}

Write(c) ==
    /\ at[c] = "hold"
    /\ \/ /\ c \in cancelled \/ left[c] = {}
          /\ ok' = [ok EXCEPT ![c] = c \notin cancelled]
          /\ Go(c, "release")
          /\ UNCHANGED <<server, left, lost, looked>>
       \/ \E n \in left[c] :
          /\ c \notin cancelled
          /\ ~Accepts(c, n)
          /\ ok' = [ok EXCEPT ![c] = FALSE]
          /\ Go(c, "release")
          /\ UNCHANGED <<server, left, lost, looked>>
       \/ \E n \in left[c] :
          /\ c \notin cancelled
          /\ Accepts(c, n)
          /\ state' = [state EXCEPT ![n] = After(Step(c))]
          /\ \E s \in StatusAfter(c, n) :
                /\ status' = [status EXCEPT ![n] = s]
                /\ log' = Append(log, [call |-> c, node |-> n, op |-> Step(c), status |-> s])
          /\ left' = [left EXCEPT ![c] = @ \ {n}]
          /\ looked' = IF Step(c) = "record" THEN [looked EXCEPT ![c] = Len(log')] ELSE looked
          /\ \/ Go(c, "written") /\ UNCHANGED <<ok, lost>>
             \/ /\ lost < MaxLost
                /\ lost' = lost + 1
                /\ ok' = [ok EXCEPT ![c] = FALSE]
                /\ Go(c, "release")
    /\ UNCHANGED <<work, got, lease, todo, seen, cancelled, strays>>

(* A call with more nodes to write goes on under the lease it has.         *)
AsksAgain(c) == "ask"   \* mutant of Onward
Onward(c) == "hold"

(* The answer to a write is thrown away when the call was cancelled while  *)
(* the server made it.                                                     *)
Written(c) ==
    /\ at[c] = "written"
    /\ ok' = [ok EXCEPT ![c] = c \notin cancelled]
    /\ Go(c, IF c \in cancelled \/ left[c] = {} THEN "release" ELSE Onward(c))
    /\ UNCHANGED <<work, got, server, lease, todo, left, seen, cancelled, lost, strays, looked>>

(* cleanup_project_lock(): one attempt, which no cancellation stops and    *)
(* whose failure is swallowed; then the next locked write of the call.     *)
UnlessCancelled(c) == c \notin cancelled   \* mutant of Releases
Releases(c) == TRUE

Release(c) ==
    /\ at[c] = "release"
    /\ \/ /\ lease' = [lease EXCEPT ![c] = IF Releases(c) THEN {} ELSE @]
          /\ UNCHANGED <<lost, strays>>
       \/ /\ lost < MaxLost
          /\ lost' = lost + 1
          /\ strays' = strays \cup {c}
          /\ UNCHANGED lease
    /\ Continue(c, ok[c])
    /\ UNCHANGED <<work, got, server, left, seen, ok, cancelled, looked>>

Cancel(c) ==
    /\ at[c] \notin {"new", "done", "failed"} /\ c \notin cancelled
    /\ cancelled' = cancelled \cup {c}
    /\ UNCHANGED <<work, got, server, lease, at, todo, left, seen, ok, lost, strays, looked>>

(* The server ends a lease after its ttl (external). *)
Expire(c) ==
    /\ lease[c] # {}
    /\ lease' = [lease EXCEPT ![c] = {}]
    /\ UNCHANGED <<work, got, server, at, todo, left, seen, ok, cancelled, lost, strays, looked>>

NodesNext == \E c \in Call :
    \/ Get(c) \/ Read(c) \/ Ask(c) \/ Asked(c) \/ Write(c) \/ Written(c) \/ Release(c)
    \/ Cancel(c) \/ Expire(c)

NodesSpec == NodesInit /\ [][NodesNext]_nodesVars

-----------------------------------------------------------------------------
(* A call that is over holds no lease, whenever it was cancelled and       *)
(* whichever of its writes failed, unless the answer to a request about    *)
(* the lease itself was lost: no cancelled call keeps the others out until *)
(* its lease runs out.                                                     *)
LeaseIsReleased ==
    \A c \in Call : at[c] \in {"done", "failed"} /\ c \notin strays => lease[c] = {}

(* Between two writes of one bulk call or of one folder move nobody else   *)
(* writes to the project, also when the lease runs out halfway.            *)
BulkIsNotInterleaved ==
    \A i, j, k \in DOMAIN log :
        i < j /\ j < k /\ log[i].call = log[k].call /\ log[k].op \in {"bulk", "folder"}
        => log[j].call = log[k].call

(* A guarded patch is only ever made to the revision its caller has read:  *)
(* it overwrites nothing that was written after that read, by whomever,    *)
(* although the call itself reads the node again before it writes.         *)
PatchOverwritesNothingUnseen ==
    \A k \in DOMAIN log : log[k].op = "patch" =>
        got[log[k].call] = Cardinality({i \in 1..k-1 : log[i].node = log[k].node})

(* What happened to a plan after a call had last read or written its       *)
(* outcome, and before the write k: somebody else gave it another one.     *)
Intruded(c, n, k) ==
    \E i \in looked[c]+1 .. k-1 : log[i].call # c /\ log[i].node = n /\ log[i].status # work[c].outcome

(* A plan that a call archives to close it has, when it is archived, the   *)
(* outcome it was to be closed with: whatever the call has found there of  *)
(* an earlier one that failed halfway, and whatever was written before it  *)
(* looked.  The two writes have no lease in common: only a write that      *)
(* another call makes between them can take the outcome away.              *)
ClosedPlanHasOutcome ==
    \A k \in DOMAIN log : LET c == log[k].call IN
        log[k].op = "archive" /\ work[c].kind = "close"
        => log[k].status = work[c].outcome \/ Intruded(c, log[k].node, k)

(* "Mark a /plans node completed [...] and archive it": a plan that a call *)
(* archives to close it has the outcome of that call, always.              *)
PlanIsClosedAsAsked ==
    \A k \in DOMAIN log : log[k].op = "archive" /\ work[log[k].call].kind = "close"
        => log[k].status = work[log[k].call].outcome
=============================================================================
