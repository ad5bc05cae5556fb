----------------------------- MODULE LocalIndex -----------------------------
(***************************************************************************)
(* The SQLite index of one machine beside the nodes of the server.  Calls  *)
(* of several processes write a node at the server and then bring its row  *)
(* up to date, rebuild the whole index from the pages of an inventory,     *)
(* synchronize it with what changed since its newest row, clear it, or     *)
(* browse it page by page.  Other machines write nodes without touching    *)
(* this index.                                                             *)
(*                                                                         *)
(* A row is the update time of the node it was made from; everything else  *)
(* in it (path, tags, links, text) is a function of that.  Writers hold    *)
(* the index file lock and one SQLite transaction, so that what one of     *)
(* them does is one step to the others, except for a rebuild, whose rows   *)
(* are put one by one while readers go on reading the last commit.         *)
(***************************************************************************)
EXTENDS Integers, FiniteSets, FiniteSetsExt

CONSTANTS
    IndexCall,  \* the calls under way
    NodeNo,     \* the nodes, by the number their identity sorts by
    NoRebuild,  \* no transaction
    IndexJobs,  \* the assignments of jobs to calls that are considered
    Lookback,   \* how far a synchronization goes back behind the newest row
    MaxTime     \* bound: the time of the last write

IndexKinds == {"edit", "restore", "move", "archive", "elsewhere", "rebuild", "sync", "clear", "browse"}
Writing == {"edit", "restore", "move", "archive", "elsewhere"}
Refreshing == {"rebuild", "sync"}

ASSUME IndexAssumption ==
    /\ NodeNo \subseteq Nat /\ IsFiniteSet(NodeNo) /\ Lookback \in Nat
    /\ MaxTime \in Nat /\ MaxTime >= 2   \* the time at the beginning
    /\ \A j \in IndexJobs : j \in [IndexCall -> [kind : IndexKinds, node : NodeNo]]

VARIABLES
    indexJob,  \* what each call does
    time,      \* the server's clock
    stamp,     \* updated_at of each node at the server
    gone,      \* the archived nodes
    row,       \* the row of each node, 0 when it has none
    complete,  \* graph_complete
    txn,       \* the rebuild that holds the index lock and its rows so far
    indexAt,   \* where each call stands
    unread,    \* the nodes a refreshing call has not listed yet
    listing,   \* what it has listed, what a writing call has got back
    mark,      \* the time a synchronization starts from
    cursor,    \* the last row a browsing call has been given
    listed,    \* how often it has been given each node
    quiet      \* history: the nodes nothing has interfered with for a call
indexVars == <<indexJob, time, stamp, gone, row, complete, txn, indexAt, unread, listing, mark, cursor, listed, quiet>>
serverNodes == <<time, stamp, gone>>
index == <<row, complete, txn>>

Times == 0..MaxTime
Unread == [stamp |-> 0, gone |-> FALSE]
View(n) == [stamp |-> stamp[n], gone |-> gone[n]]
RowOf(v) == IF v.gone THEN 0 ELSE v.stamp
Right(n) == RowOf(View(n))

IndexTypeOK ==
    /\ indexJob \in [IndexCall -> [kind : IndexKinds, node : NodeNo]]
    /\ time \in Times /\ stamp \in [NodeNo -> Times] /\ gone \in [NodeNo -> BOOLEAN]
    /\ row \in [NodeNo -> Times] /\ complete \in BOOLEAN
    /\ txn = NoRebuild \/ txn \in [owner : IndexCall, rows : [NodeNo -> Times]]
    /\ indexAt \in [IndexCall -> {"start", "wrote", "removed", "list", "apply", "rows", "page", "done", "failed"}]
    /\ unread \in [IndexCall -> SUBSET NodeNo]
    /\ listing \in [IndexCall -> [NodeNo -> [stamp : Times, gone : BOOLEAN]]]
    /\ mark \in [IndexCall -> Times]
    /\ cursor \in [IndexCall -> [stamp : Times \cup {MaxTime + 1}, node : NodeNo \cup {-1}]]
    /\ listed \in [IndexCall -> [NodeNo -> 0..2]]
    /\ quiet \in [IndexCall -> SUBSET NodeNo]

(* Other machines may have written before, so that rows may be behind.     *)
IndexInit ==
    /\ indexJob \in IndexJobs
    /\ time = 2
    /\ stamp \in [NodeNo -> 1..2] /\ gone \in [NodeNo -> BOOLEAN]
    /\ row \in [NodeNo -> 0..2] /\ \A n \in NodeNo : row[n] <= stamp[n]
    /\ complete \in BOOLEAN
    /\ txn = NoRebuild
    /\ indexAt = [c \in IndexCall |-> "start"]
    /\ unread = [c \in IndexCall |-> {}]
    /\ listing = [c \in IndexCall |-> [n \in NodeNo |-> Unread]]
    /\ mark = [c \in IndexCall |-> 0]
    /\ cursor = [c \in IndexCall |-> [stamp |-> MaxTime + 1, node |-> -1]]
    /\ listed = [c \in IndexCall |-> [n \in NodeNo |-> 0]]
    /\ quiet = [c \in IndexCall |-> {}]

IndexGo(c, place) == indexAt' = [indexAt EXCEPT ![c] = place]
IndexEnd(c, place) ==
    /\ IndexGo(c, place)
    /\ unread' = [unread EXCEPT ![c] = {}]
    /\ listing' = [listing EXCEPT ![c] = [n \in NodeNo |-> Unread]]
IndexKind(c) == indexJob[c].kind

-----------------------------------------------------------------------------
(* Writes.  The server stamps the node (external): two writes may get the  *)
(* same time.  A write of another machine, or one whose answer is lost or  *)
(* thrown away by a cancellation, leaves the row as it is.                 *)
WriteNode(c) ==
    LET n == indexJob[c].node IN
    /\ indexAt[c] = "start" /\ IndexKind(c) \in Writing
    /\ gone[n] = (IndexKind(c) = "restore")
    /\ \E t \in {time, time + 1} \cap Times : time' = t /\ stamp' = [stamp EXCEPT ![n] = t]
    /\ gone' = [gone EXCEPT ![n] = IndexKind(c) = "archive"]
    /\ \/ /\ IndexKind(c) # "elsewhere"
          /\ IndexGo(c, "wrote")
          /\ listing' = [listing EXCEPT ![c][n] = [stamp |-> time', gone |-> IndexKind(c) = "archive"]]
       \/ IndexGo(c, "done") /\ UNCHANGED listing
    /\ quiet' = [d \in IndexCall |-> quiet[d] \ {n}]
    /\ UNCHANGED <<indexJob, index, unread, mark, cursor, listed>>

(* remove_indexed_node() of an archived node; a move removes the row and   *)
(* then makes it anew.                                                     *)
RemoveRow(c) ==
    LET n == indexJob[c].node IN
    /\ indexAt[c] = "wrote" /\ IndexKind(c) \in {"archive", "move"} /\ txn = NoRebuild
    /\ row' = [row EXCEPT ![n] = 0]
    /\ IF IndexKind(c) = "move" THEN IndexGo(c, "removed") /\ UNCHANGED <<unread, listing>> ELSE IndexEnd(c, "done")
    /\ UNCHANGED <<indexJob, serverNodes, complete, txn, mark, cursor, listed, quiet>>

(* index_node(): the row becomes what the server answered, whatever is in  *)
(* it now.                                                                 *)
IndexNode(c) ==
    LET n == indexJob[c].node IN
    /\ txn = NoRebuild
    /\ \/ indexAt[c] = "removed"
       \/ indexAt[c] = "wrote" /\ IndexKind(c) \in {"edit", "restore"}
    /\ row' = [row EXCEPT ![n] = RowOf(listing[c][n])]
    /\ IndexEnd(c, "done")
    /\ UNCHANGED <<indexJob, serverNodes, complete, txn, mark, cursor, listed, quiet>>

-----------------------------------------------------------------------------
(* Rebuild and synchronization.                                            *)

Refreshers == {c \in IndexCall : IndexKind(c) \in Refreshing}
InFlight(c) == indexAt[c] \in {"wrote", "removed", "list", "apply"}
(* Nodes whose row a call that is under way may still change to something  *)
(* older than the node.                                                    *)
Threatened ==
    {n \in NodeNo : \E c \in IndexCall : InFlight(c) /\
        IF c \in Refreshers THEN n \notin unread[c] /\ listing[c][n] # View(n) ELSE indexJob[c].node = n}

(* sync_local_index() starts from its newest row when the graph is         *)
(* complete, and is a rebuild when it is not.                              *)
Newest == Max({row[n] : n \in NodeNo} \cup {0})
Unguarded(c) == IF IndexKind(c) = "sync" /\ complete THEN Newest - Lookback ELSE 0   \* mutant of From
From(c) == IF IndexKind(c) = "sync" /\ complete /\ Newest > Lookback THEN Newest - Lookback ELSE 0

Incremental(c) == IndexKind(c) = "sync" /\ complete

StartRefresh(c) ==
    /\ indexAt[c] = "start" /\ IndexKind(c) \in Refreshing
    /\ indexJob' = [indexJob EXCEPT ![c].kind = IF Incremental(c) THEN "sync" ELSE "rebuild"]
    /\ mark' = [mark EXCEPT ![c] = From(c)]
    /\ unread' = [unread EXCEPT ![c] = NodeNo]
    /\ quiet' = [quiet EXCEPT ![c] = NodeNo \ Threatened]
    /\ IndexGo(c, "list")
    /\ UNCHANGED <<serverNodes, index, listing, cursor, listed>>

(* The pages of the inventory: each node is listed as it is at some moment *)
(* of the listing (external).  A cancellation, a lost answer or a page     *)
(* that validate_reindex_page() rejects ends the call with the index       *)
(* untouched.                                                              *)
List(c) ==
    /\ indexAt[c] = "list"
    /\ \/ \E n \in unread[c] :
          /\ unread' = [unread EXCEPT ![c] = @ \ {n}]
          /\ listing' = [listing EXCEPT ![c][n] = View(n)]
          /\ UNCHANGED indexAt
       \/ /\ unread[c] # {}
          /\ IndexEnd(c, "failed")
    /\ UNCHANGED <<indexJob, serverNodes, index, mark, cursor, listed, quiet>>

(* reindex_project(): under the index lock, one transaction replaces every *)
(* row; until it commits readers see the rows of before.                   *)
DeletesInPlace(rows) == [n \in NodeNo |-> 0]   \* mutant of Replaced
Replaced(rows) == rows

BeginRebuild(c) ==
    /\ indexAt[c] = "list" /\ unread[c] = {} /\ IndexKind(c) = "rebuild" /\ txn = NoRebuild
    /\ txn' = [owner |-> c, rows |-> [n \in NodeNo |-> 0]]
    /\ row' = Replaced(row)
    /\ unread' = [unread EXCEPT ![c] = {}]
    /\ IndexGo(c, "apply")
    /\ UNCHANGED <<indexJob, serverNodes, complete, listing, mark, cursor, listed, quiet>>

PutRows(c) ==
    /\ indexAt[c] = "apply" /\ txn # NoRebuild /\ txn.owner = c
    /\ \E n \in NodeNo :
          /\ RowOf(listing[c][n]) # txn.rows[n]
          /\ \A m \in NodeNo : m < n => RowOf(listing[c][m]) = txn.rows[m]
          /\ txn' = [txn EXCEPT !.rows[n] = RowOf(listing[c][n])]
    /\ UNCHANGED <<indexJob, serverNodes, row, complete, indexAt, unread, listing, mark, cursor, listed, quiet>>

(* The transaction commits with the rows and the flag together, or a       *)
(* cancellation, a failure or the end of the process rolls it back.        *)
EndRebuild(c) ==
    /\ indexAt[c] = "apply" /\ txn # NoRebuild /\ txn.owner = c
    /\ \/ /\ txn.rows = [n \in NodeNo |-> RowOf(listing[c][n])]
          /\ row' = txn.rows
          /\ complete' = TRUE
          /\ IndexEnd(c, "done")
       \/ /\ IndexEnd(c, "failed")
          /\ UNCHANGED <<row, complete>>
    /\ txn' = NoRebuild
    /\ UNCHANGED <<indexJob, serverNodes, mark, cursor, listed, quiet>>

(* An incremental synchronization takes what changed after its mark, the   *)
(* archived nodes included, and brings one row after the other up to date; *)
(* it may fail in between.                                                 *)
KeepsArchived(v) == v.stamp   \* mutant of Synced
Synced(v) == RowOf(v)

SyncRows(c) ==
    /\ IndexKind(c) = "sync" /\ unread[c] = {} /\ indexAt[c] \in {"list", "apply"} /\ txn = NoRebuild
    /\ LET changed == {n \in NodeNo : listing[c][n].stamp > mark[c]} IN
       \/ \E n \in changed :
          /\ row' = [row EXCEPT ![n] = Synced(listing[c][n])]
          /\ listing' = [listing EXCEPT ![c][n] = Unread]
          /\ IndexGo(c, "apply")
          /\ UNCHANGED unread
       \/ /\ changed = {}
          /\ IndexEnd(c, "done")
          /\ UNCHANGED row
       \/ /\ changed # {}
          /\ IndexEnd(c, "failed")
          /\ UNCHANGED row
    /\ UNCHANGED <<indexJob, serverNodes, complete, txn, mark, cursor, listed, quiet>>

Clear(c) ==
    /\ indexAt[c] = "start" /\ IndexKind(c) = "clear" /\ txn = NoRebuild
    /\ row' = [n \in NodeNo |-> 0]
    /\ complete' = FALSE
    /\ quiet' = [d \in IndexCall |-> {}]
    /\ IndexEnd(c, "done")
    /\ UNCHANGED <<indexJob, serverNodes, txn, mark, cursor, listed>>

-----------------------------------------------------------------------------
(* A page of browse_project_nodes() looks first whether the index is       *)
(* complete: else the first page is the server's and a later one is        *)
(* refused.                                                                *)
LookWhetherComplete(c) ==
    /\ IndexKind(c) = "browse" /\ indexAt[c] \in {"start", "page"}
    /\ quiet' = [quiet EXCEPT ![c] =
           IF indexAt[c] = "start" THEN {n \in NodeNo : row[n] = Right(n)} \ Threatened ELSE @]
    /\ IndexGo(c, IF complete THEN "rows" ELSE "failed")
    /\ UNCHANGED <<indexJob, serverNodes, index, unread, listing, mark, cursor, listed>>

(* What a cursor stands for: everything behind the last row of the page    *)
(* before, newest first and nodes of one time by their identity.           *)
Before(n, m) == row[n] > row[m] \/ (row[n] = row[m] /\ n < m)

NoTieBreak(c, n) == row[n] < cursor[c].stamp   \* mutant of Behind
Behind(c, n) == row[n] < cursor[c].stamp \/ (row[n] = cursor[c].stamp /\ n > cursor[c].node)

(* browse_local_index() then reads the rows of the page, here one, in a    *)
(* snapshot of their own.                                                  *)
Browse(c) ==
    /\ indexAt[c] = "rows"
    /\ LET rest == {n \in NodeNo : row[n] # 0 /\ Behind(c, n)} IN
       \/ /\ rest = {}
          /\ IndexGo(c, "done")
          /\ UNCHANGED <<cursor, listed>>
       \/ \E n \in rest :
          /\ \A m \in rest \ {n} : Before(n, m)
          /\ listed[c][n] < 2
          /\ cursor' = [cursor EXCEPT ![c] = [stamp |-> row[n], node |-> n]]
          /\ listed' = [listed EXCEPT ![c][n] = @ + 1]
          /\ IndexGo(c, "page")
    /\ UNCHANGED <<indexJob, serverNodes, index, unread, listing, mark, quiet>>

IndexNext == \E c \in IndexCall :
    \/ WriteNode(c) \/ RemoveRow(c) \/ IndexNode(c)
    \/ StartRefresh(c) \/ List(c) \/ BeginRebuild(c) \/ PutRows(c) \/ EndRebuild(c) \/ SyncRows(c) \/ Clear(c)
    \/ LookWhetherComplete(c) \/ Browse(c)

IndexSpec == IndexInit /\ [][IndexNext]_indexVars

-----------------------------------------------------------------------------
(* Once a rebuild is over the row of every node is what the server has,    *)
(* and once a synchronization is over that of every node that changed      *)
(* after its mark: a node that nobody has written since the call began and *)
(* that no older call under way at that moment goes on to index.  Neither  *)
(* a rebuild nor a synchronization that came later and failed halfway      *)
(* spoils it.                                                              *)
RefreshedIsRight ==
    \A c \in Refreshers : indexAt[c] = "done" =>
        \A n \in quiet[c] : stamp[n] > mark[c] => row[n] = Right(n)

(* A browse that ran to its end has listed every active node exactly once  *)
(* whose row was right when it began and that nobody has written since:    *)
(* rows that move while the pages are read, and a rebuild that is under    *)
(* way, commits or is rolled back between two pages, neither hide nor      *)
(* repeat it.                                                              *)
BrowseListsTheUnchanged ==
    \A c \in IndexCall : IndexKind(c) = "browse" /\ indexAt[c] = "done" =>
        \A n \in quiet[c] : listed[c][n] = IF gone[n] THEN 0 ELSE 1
=============================================================================
