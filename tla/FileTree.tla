------------------------------ MODULE FileTree ------------------------------
(***************************************************************************)
(* The tree of folders and files (internal/files): create, rename, move,   *)
(* trash, restore and purge, called from concurrent HTTP handlers.         *)
(*                                                                         *)
(* Nothing locks the tree.  An operation reads the rows it needs in        *)
(* statements of their own (each a step here) and then writes in one       *)
(* statement or transaction, which sees the table as it is by then; only   *)
(* the constraints of the schema stand between it and a stale decision.    *)
(* Uploads pin the folders they name and add file rows (see Uploads).      *)
(***************************************************************************)
EXTENDS NodeTable, Naturals, FiniteSets

CONSTANTS NewFolder,  \* ids CreateFolder draws from
          Client,     \* HTTP handler threads
          Mover       \* bound: the threads that MoveNode requests come to

ASSUME NodeAssumption  == NewFolder \subseteq Node \ System
ASSUME MoverAssumption == Mover \subseteq Client

FileId == Node \ (System \cup NewFolder)

VARIABLES nodes,    \* table nodes
          older,    \* pairs of rows, the one with the smaller rowid first
          pinned,   \* folders that a row of uploads names (rows are never
                    \* deleted), but for the system nodes, which nobody deletes
          pc, job   \* per thread: next statement, and the locals it works with

threads == <<pc, job>>
vars    == <<nodes, older, pinned, pc, job>>

\* target: the new parent; at: where the walk of MoveNode is.
Job   == [node : Node, target : Node \cup {NoNode}, name : Name \cup {"root"}, at : Node]
Label == {"idle", "create", "rename", "walk", "move", "trash",
          "target", "restore", "purge"}

Idle == [node |-> Root, target |-> NoNode, name |-> "root", at |-> Root]

TypeOK ==
  /\ nodes \in [DOMAIN nodes -> NodeRow]
  /\ System \subseteq DOMAIN nodes /\ DOMAIN nodes \subseteq Node
  /\ older \subseteq (DOMAIN nodes) \X (DOMAIN nodes)
  /\ pinned \subseteq DOMAIN nodes
  /\ pc \in [Client -> Label]
  /\ job \in [Client -> Job]

Init ==
  /\ nodes = SystemRows
  /\ older = {<<Root, TrashRoot>>}
  /\ pinned = {}
  /\ pc = [p \in Client |-> "idle"]
  /\ job = [p \in Client |-> Idle]

-----------------------------------------------------------------------------
(* Threads.                                                                *)

\* The first read of a request is done, and l is the next statement.
Begin(p, l, j) == /\ pc[p] = "idle"
                  /\ pc' = [pc EXCEPT ![p] = l]
                  /\ job' = [job EXCEPT ![p] = j]
                  /\ UNCHANGED <<nodes, older, pinned>>

\* The handler returns.
Finish(p) == /\ pc' = [pc EXCEPT ![p] = "idle"]
             /\ job' = [job EXCEPT ![p] = Idle]

\* The last write of a request leaves the table as t, unless a constraint
\* rejects it (allowed is what the foreign keys say, and then there is the
\* sibling index), or the row is gone by now and the statement finds nothing.
Write(p, allowed, t) ==
  /\ nodes' = IF job[p].node \in DOMAIN nodes /\ allowed /\ UniqueSiblings(t)
                THEN t ELSE nodes
  /\ older' = older \cap ((DOMAIN nodes') \X (DOMAIN nodes'))
  /\ Finish(p)
  /\ UNCHANGED pinned

\* Mutant: is_system is not looked at.
WritableUnprotected(n) == n \in DOMAIN nodes

\* GetNode and the check that rename, move, trash and purge begin with.
Writable(n) == n \in DOMAIN nodes \ System

-----------------------------------------------------------------------------
(* CreateFolder, and what uploads do to the tree.                          *)

\* An id that no row, uploads row or request mentions: as good as a new one.
Fresh(n) == /\ n \notin DOMAIN nodes
            /\ \A m \in DOMAIN nodes : nodes[m].restore # n
            /\ \A p \in Client : n \notin {job[p].node, job[p].target, job[p].at}

\* Bound: there is a new id for each creation under way.
IdsLeft == Cardinality({p \in Client : pc[p] = "create"})
             < Cardinality({n \in NewFolder : Fresh(n)})

CreateCheck(p, parent, name) ==
  /\ IdsLeft
  /\ IsActiveFolder(nodes, parent)
  /\ Begin(p, "create", [Idle EXCEPT !.target = parent, !.name = name])

\* Mutant: parent_id is not a foreign key.
InsertableAnywhere(parent, name) == ~NameTaken(nodes, parent, name)

\* All that is checked again: the foreign key and the sibling index.
Insertable(parent, name) ==
  parent \in DOMAIN nodes /\ ~NameTaken(nodes, parent, name)

Insert(n, kind, parent, name) ==
  /\ Fresh(n)
  /\ Insertable(parent, name)
  /\ nodes' = Put(nodes, n, NewRow(parent, kind, name))
  /\ older' = older \cup ((DOMAIN nodes) \X {n})
  /\ UNCHANGED pinned

Create(p, n) ==
  /\ pc[p] = "create"
  /\ Insert(n, "folder", job[p].target, job[p].name)
  /\ Finish(p)

CreateRejected(p) ==
  /\ pc[p] = "create"
  /\ ~Insertable(job[p].target, job[p].name)
  /\ Finish(p)
  /\ UNCHANGED <<nodes, older, pinned>>

\* CreateUpload inserts its row: parent_id is a foreign key that restricts.
Admit(parent) ==
  /\ IsActiveFolder(nodes, parent) /\ parent \notin System
  /\ pinned' = pinned \cup {parent}
  /\ UNCHANGED <<nodes, older, threads>>

\* Phase C of an upload, which may come when its folder is not active any more.
PublishFile(n, parent, name) ==
  /\ parent \in pinned \cup System
  /\ Insert(n, "file", parent, name)
  /\ UNCHANGED threads

-----------------------------------------------------------------------------
(* RenameNode and MoveNode.                                                *)

RenameCheck(p, n, name) ==
  /\ Writable(n)
  /\ Begin(p, "rename", [Idle EXCEPT !.node = n, !.name = name])

Rename(p) ==
  /\ pc[p] = "rename"
  /\ Write(p, TRUE, [nodes EXCEPT ![job[p].node].name = job[p].name])

\* The node and its new parent are read.  Whether the node itself is trashed
\* is not asked.
MoveCheck(p, n, target) ==
  /\ p \in Mover
  /\ Writable(n) /\ n # target
  /\ IsActiveFolder(nodes, target)
  /\ Begin(p, "walk", [Idle EXCEPT !.node = n, !.target = target, !.at = target])

\* The walk has nowhere to go: a system node, or a row that is gone.
AtTop(n) == n \notin DOMAIN nodes \/ nodes[n].parent = NoNode

\* Mutant: the walk ends at the target, whose own ancestors are not looked at.
ClimbOnce(p) ==
  /\ pc[p] = "walk" /\ job[p].at # job[p].node
  /\ pc' = [pc EXCEPT ![p] = "move"]
  /\ UNCHANGED <<nodes, older, pinned, job>>

\* One SELECT of the walk from the target to its root, which looks for the node.
Climb(p) ==
  LET at == job[p].at IN
  /\ pc[p] = "walk" /\ at # job[p].node
  /\ IF AtTop(at)
       THEN pc' = [pc EXCEPT ![p] = "move"] /\ UNCHANGED job
       ELSE job' = [job EXCEPT ![p].at = nodes[at].parent] /\ UNCHANGED pc
  /\ UNCHANGED <<nodes, older, pinned>>

\* ErrCycleDetected.
CycleDetected(p) == /\ pc[p] = "walk" /\ job[p].at = job[p].node
                    /\ Finish(p)
                    /\ UNCHANGED <<nodes, older, pinned>>

Move(p) ==
  /\ pc[p] = "move"
  /\ Write(p, job[p].target \in DOMAIN nodes,
           [nodes EXCEPT ![job[p].node].parent = job[p].target])

-----------------------------------------------------------------------------
(* TrashNode, RestoreNode and PurgeNode.                                   *)

\* A trashed node can be trashed again.
TrashCheck(p, n) ==
  /\ Writable(n)
  /\ Begin(p, "trash", [Idle EXCEPT !.node = n])

Trash(p) ==
  /\ pc[p] = "trash"
  /\ Write(p, TRUE, Trashed(nodes, job[p].node))

RestoreCheck(p, n) ==
  /\ n \in DOMAIN nodes /\ nodes[n].trashed
  /\ Begin(p, "target", [Idle EXCEPT !.node = n, !.target = nodes[n].restore])

\* A second GetNode: is the remembered parent still there, and active?
ChooseTarget(p) ==
  /\ pc[p] = "target"
  /\ pc' = [pc EXCEPT ![p] = "restore"]
  /\ job' = [job EXCEPT ![p].target = IF IsActiveFolder(nodes, @) THEN @ ELSE Root]
  /\ UNCHANGED <<nodes, older, pinned>>

\* A target below the node would make the query for the descendants endless,
\* until the request is cancelled and the transaction rolled back.
Restorable(n, target) == target \in DOMAIN nodes /\ target \notin Subtree(nodes, n)

Restore(p) ==
  /\ pc[p] = "restore"
  /\ Write(p, Restorable(job[p].node, job[p].target),
           RestoredTo(nodes, job[p].node, job[p].target))

\* Mutant: trashed_at is not looked at.
TrashedOrActive(n) == Writable(n)

PurgeRequestable(n) == Writable(n) /\ nodes[n].trashed

PurgeCheck(p, n) ==
  /\ PurgeRequestable(n)
  /\ Begin(p, "purge", [Idle EXCEPT !.node = n])

\* Mutant: uploads.parent_id does not restrict the DELETE.
DeletableUnpinned(n) ==
  \A m \in Subtree(nodes, n) : \A c \in Children(nodes, m) : <<c, m>> \in older

\* The DELETE goes through the rows in the order of rowids, and both foreign
\* keys restrict: each row must be without children when its turn comes, and
\* without uploads.  No order does it on a cycle.
Deletable(n) ==
  \A m \in Subtree(nodes, n) :
    /\ m \notin pinned
    /\ \A c \in Children(nodes, m) : <<c, m>> \in older

\* All or nothing: the transaction is rolled back when the DELETE fails.
Purge(p) ==
  /\ pc[p] = "purge"
  /\ Write(p, Deletable(job[p].node), Drop(nodes, Subtree(nodes, job[p].node)))

-----------------------------------------------------------------------------
Step(p) ==
  \/ \E n \in NewFolder : Create(p, n)
  \/ CreateRejected(p) \/ Rename(p)
  \/ Climb(p) \/ CycleDetected(p) \/ Move(p)
  \/ Trash(p) \/ ChooseTarget(p) \/ Restore(p) \/ Purge(p)

Request(p) ==
  \/ \E parent \in Node, name \in Name : CreateCheck(p, parent, name)
  \/ \E n \in Node :
       \/ \E name \in Name : RenameCheck(p, n, name)
       \/ \E target \in Node : MoveCheck(p, n, target)
       \/ TrashCheck(p, n) \/ RestoreCheck(p, n) \/ PurgeCheck(p, n)

UploadService ==
  \/ \E parent \in Node : Admit(parent)
  \/ \E n \in FileId, parent \in Node, name \in Name : PublishFile(n, parent, name)

Next == (\E p \in Client : Request(p) \/ Step(p)) \/ UploadService

Spec == Init /\ [][Next]_vars

-----------------------------------------------------------------------------
(* Properties.                                                             *)

\* The system nodes stay as the migration made them, whatever requests name
\* them: RestoreNode and MoveNode's new parent are checked in other ways.
SystemIntact == \A n \in System : n \in DOMAIN nodes /\ nodes[n] = SystemRows[n]

\* Every node is below one of the two system nodes: no cycle, and no parent
\* that is gone.  (Plan 8.2: "target parent is not a descendant of node".)
Rooted == RootedTable(nodes)

\* A trashed folder has no active folder in it, so what leaves the listings
\* with it stays out of them ("descendants of a trashed folder can leak back
\* into active search results", plan 8.3).  Requests one at a time only: a
\* CreateFolder that checked its parent before TrashNode breaks it.  Files are
\* left out because an upload's Phase C does not look at its folder's trashed_at.
TrashClosed ==
  \A n \in DOMAIN nodes :
    nodes[n].kind = "folder" /\ nodes[n].parent \in DOMAIN nodes
      /\ nodes[nodes[n].parent].trashed => nodes[n].trashed

\* A restore directly after a trash gives back the tree as it was, if all of
\* it was active.
RestoreUndoesTrash ==
  (\A p \in Client : pc[p] = "idle") =>
    \A n \in DOMAIN nodes \ System :
      IsActiveFolder(nodes, nodes[n].parent)
        /\ (\A m \in Subtree(nodes, n) : ~nodes[m].trashed /\ nodes[m].restore = NoNode)
      => Restored(Trashed(nodes, n), n) = nodes

\* Only trashed nodes are deleted, descendants included.  Requests one at a time
\* only: PurgeNode looks at trashed_at before its transaction, so a restore
\* in between lets it delete an active subtree.
OnlyTrashedPurged ==
  [][\A n \in DOMAIN nodes \ DOMAIN nodes' : nodes[n].trashed]_vars

-----------------------------------------------------------------------------
(* The inductive invariant behind SystemIntact and, without moves, Rooted. *)

\* What a handler knows of the nodes it works with: the one it writes is no
\* system node (no request can change that), and the other one is a node.
JobInv ==
  \A p \in Client :
    /\ pc[p] \in Label \ {"idle", "create"} => job[p].node \notin System
    /\ pc[p] \in {"create", "walk", "move", "restore"} => job[p].target \in Node
    /\ pc[p] \in {"walk", "move"} => p \in Mover

TInv == TypeOK /\ SystemIntact /\ JobInv

-----------------------------------------------------------------------------
(* More of it for a server that gets one request at a time, which is what  *)
(* TrashClosed and OnlyTrashedPurged need, and Rooted with moves.          *)

OneHandler == \A p, q \in Client : p = q

\* What a request has read still holds when it writes: only uploads come in
\* between.  A walk that starts below the node will meet it.
ReadInv ==
  \A p \in Client :
    LET n == job[p].node
        target == job[p].target IN
    /\ pc[p] \in {"create", "walk", "move", "restore"} => IsActiveFolder(nodes, target)
    /\ pc[p] \in {"walk", "move", "purge"} => n \in DOMAIN nodes
    /\ pc[p] = "purge" => nodes[n].trashed
    /\ pc[p] = "walk" /\ target \in Subtree(nodes, n) => job[p].at \in Subtree(nodes, n)
    /\ pc[p] = "move" => target \notin Subtree(nodes, n)

\* Parents are folders, and so are the nodes that uploads name.
FolderInv ==
  /\ \A n \in DOMAIN nodes :
       nodes[n].parent \in DOMAIN nodes => nodes[nodes[n].parent].kind = "folder"
  /\ \A n \in pinned : nodes[n].kind = "folder"

\* TrashClosed for files as well: an active file in a trashed folder came from an
\* upload, whose row keeps the folder from being deleted.
HiddenInv ==
  \A n \in DOMAIN nodes :
    nodes[n].parent \in DOMAIN nodes /\ nodes[nodes[n].parent].trashed =>
      \/ nodes[n].trashed
      \/ nodes[n].kind = "file" /\ nodes[n].parent \in pinned

SoloInv == TInv /\ Rooted /\ ReadInv /\ FolderInv /\ HiddenInv
=============================================================================
