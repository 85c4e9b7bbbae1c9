--------------------------- MODULE FileTreeProofs ---------------------------
(***************************************************************************)
(* Safety of the file tree for every value of the constants, with any      *)
(* number of handlers at once.                                             *)
(*                                                                         *)
(* The inductive invariant is TInv of FileTree.  Three lemmas carry it     *)
(* through the three things a step can do to a thread (begin, finish, and  *)
(* finish with a write); the lemmas after them give each write the table   *)
(* it leaves.  Rooted is then proved for systems without moves: every      *)
(* write keeps it, however old the checks it rests on are.                 *)
(*                                                                         *)
(* The second half is about one request at a time (OneHandler), where what *)
(* a handler read is still so when it writes.  Its invariant is SoloInv.   *)
(***************************************************************************)
EXTENDS FileTree, NodeTableProofs

\* What the writes know of the table.
LEMMA TInvTable ==
  ASSUME TInv
  PROVE  Table(nodes) /\ \A s \in System : nodes[s].parent = NoNode /\ ~nodes[s].trashed
<1>1. \A s \in System : nodes[s] = SystemRows[s]
  BY DEF TInv, SystemIntact
<1>2. \A s \in System : SystemRows[s].parent = NoNode /\ ~SystemRows[s].trashed
  BY DEF SystemRows, NewRow
<1>3. Table(nodes)
  BY DEF TInv, TypeOK, Table
<1> QED
  BY <1>1, <1>2, <1>3

\* The migrated database and idle handlers.
LEMMA InitTInv == Init => TInv
<1> SUFFICES ASSUME Init PROVE TInv
  OBVIOUS
<1>1. SystemRows \in [System -> NodeRow] /\ DOMAIN SystemRows = System
  BY DEF SystemRows, NewRow, NodeRow
<1>2. Idle \in Job
  BY SystemNodesAssumption DEF Idle, Job
<1>3. System \subseteq Node
  BY SystemNodesAssumption DEF System
<1>4. TypeOK
  BY <1>1, <1>2, <1>3 DEF Init, TypeOK, Label, System
<1>5. SystemIntact
  BY <1>1 DEF Init, SystemIntact
<1>6. JobInv
  BY DEF Init, JobInv
<1> QED
  BY <1>4, <1>5, <1>6 DEF TInv

\* The first statement of a request.
LEMMA BeginTInv ==
  ASSUME TInv, NEW p \in Client, NEW l \in Label, NEW j \in Job, Begin(p, l, j),
         l \notin {"idle", "create"} => j.node \notin System,
         l \in {"create", "walk", "move", "restore"} => j.target \in Node,
         l \in {"walk", "move"} => p \in Mover
  PROVE  TInv'
<1>1. TypeOK'
  BY DEF TInv, TypeOK, Begin
<1>2. SystemIntact'
  BY DEF TInv, SystemIntact, Begin
<1>3. JobInv'
  BY DEF TInv, JobInv, TypeOK, Begin
<1> QED
  BY <1>1, <1>2, <1>3 DEF TInv

\* The return of a handler, whose last step left a table of nodes that keeps the
\* system rows and the folders that uploads name.
LEMMA FinishTInv ==
  ASSUME TInv, NEW p \in Client, Finish(p), Table(nodes)', SystemIntact',
         older' \subseteq (DOMAIN nodes') \X (DOMAIN nodes'),
         pinned' \subseteq DOMAIN nodes'
  PROVE  TInv'
<1>1. Idle \in Job
  BY SystemNodesAssumption DEF Idle, Job
<1>2. pc' \in [Client -> Label] /\ job' \in [Client -> Job]
  BY <1>1 DEF TInv, TypeOK, Finish, Label
<1>3. TypeOK'
  BY <1>2 DEF TypeOK, Table
<1>4. JobInv'
  BY DEF TInv, JobInv, TypeOK, Finish
<1> QED
  BY <1>3, <1>4 DEF TInv

\* A write: all that matters is what the table would be if it is accepted.
LEMMA WriteTInv ==
  ASSUME TInv, NEW p \in Client, NEW allowed, NEW t, Write(p, allowed, t),
         allowed /\ job[p].node \in DOMAIN nodes =>
           Table(t) /\ pinned \subseteq DOMAIN t /\ \A s \in System : t[s] = nodes[s]
  PROVE  TInv'
<1>1. CASE nodes' = nodes
  <2>1. Table(nodes)' /\ SystemIntact'
    BY <1>1, TInvTable DEF TInv, SystemIntact, Table
  <2>2. older' \subseteq (DOMAIN nodes') \X (DOMAIN nodes') /\ pinned' \subseteq DOMAIN nodes'
    BY <1>1 DEF TInv, TypeOK, Write
  <2> QED
    BY <2>1, <2>2, FinishTInv DEF Write
<1>2. CASE nodes' = t /\ allowed /\ job[p].node \in DOMAIN nodes
  <2>1. Table(nodes)'
    BY <1>2 DEF Table
  <2>2. SystemIntact'
    BY <1>2 DEF TInv, SystemIntact, Table
  <2>3. older' \subseteq (DOMAIN nodes') \X (DOMAIN nodes') /\ pinned' \subseteq DOMAIN nodes'
    BY <1>2 DEF Write
  <2> QED
    BY <2>1, <2>2, <2>3, FinishTInv DEF Write
<1> QED
  BY <1>1, <1>2 DEF Write

-----------------------------------------------------------------------------
(* Requests.                                                               *)

\* Every check that starts a request leaves the table and knows the nodes.
LEMMA RequestTInv ==
  ASSUME TInv, NEW p \in Client, Request(p)
  PROVE  TInv'
<1> USE SystemNodesAssumption DEF Label, Job, Idle
<1>1. ASSUME NEW parent \in Node, NEW name \in Name, CreateCheck(p, parent, name)
      PROVE  TInv'
  <2>1. [Idle EXCEPT !.target = parent, !.name = name] \in Job
    OBVIOUS
  <2> QED
    BY <1>1, <2>1, BeginTInv DEF CreateCheck
<1>2. ASSUME NEW n \in Node, NEW name \in Name, RenameCheck(p, n, name)
      PROVE  TInv'
  <2>1. [Idle EXCEPT !.node = n, !.name = name] \in Job
    OBVIOUS
  <2> QED
    BY <1>2, <2>1, BeginTInv DEF RenameCheck, Writable
<1>3. ASSUME NEW n \in Node, NEW target \in Node, MoveCheck(p, n, target)
      PROVE  TInv'
  <2>1. [Idle EXCEPT !.node = n, !.target = target, !.at = target] \in Job
    OBVIOUS
  <2> QED
    BY <1>3, <2>1, BeginTInv DEF MoveCheck, Writable
<1>4. ASSUME NEW n \in Node, TrashCheck(p, n)
      PROVE  TInv'
  <2>1. [Idle EXCEPT !.node = n] \in Job
    OBVIOUS
  <2> QED
    BY <1>4, <2>1, BeginTInv DEF TrashCheck, Writable
<1>5. ASSUME NEW n \in Node, RestoreCheck(p, n)
      PROVE  TInv'
  <2>1. nodes[n].restore \in Node \cup {NoNode} /\ n \notin System
    BY <1>5, TInvTable DEF RestoreCheck, Table, NodeRow
  <2>2. [Idle EXCEPT !.node = n, !.target = nodes[n].restore] \in Job
    BY <2>1
  <2> QED
    BY <1>5, <2>1, <2>2, BeginTInv DEF RestoreCheck
<1>6. ASSUME NEW n \in Node, PurgeCheck(p, n)
      PROVE  TInv'
  <2>1. [Idle EXCEPT !.node = n] \in Job
    OBVIOUS
  <2> QED
    BY <1>6, <2>1, BeginTInv DEF PurgeCheck, PurgeRequestable, Writable
<1> QED
  BY <1>1, <1>2, <1>3, <1>4, <1>5, <1>6 DEF Request

-----------------------------------------------------------------------------
(* Reads and writes.                                                       *)

\* A read between the check and the write moves the thread on.
LEMMA ReadTInv ==
  ASSUME TInv, NEW p \in Client, Climb(p) \/ ChooseTarget(p)
  PROVE  TInv'
<1>1. SystemIntact'
  BY DEF TInv, SystemIntact, Climb, ChooseTarget
<1>2. CASE Climb(p)
  <2> DEFINE at == job[p].at
  <2>1. job[p] \in Job /\ at \in Node
    BY DEF TInv, TypeOK, Job
  <2>2. ~AtTop(at) => nodes[at].parent \in Node
    BY TInvTable DEF AtTop, Table, NodeRow
  <2>3. ~AtTop(at) => [job[p] EXCEPT !.at = nodes[at].parent] \in Job
    BY <2>1, <2>2 DEF Job
  <2>4. pc' \in [Client -> Label] /\ job' \in [Client -> Job]
    BY <1>2, <2>3 DEF Climb, TInv, TypeOK, Label
  <2>5. TypeOK'
    BY <1>2, <2>4 DEF TInv, TypeOK, Climb
  <2>6. JobInv'
    BY <1>2, <2>1 DEF TInv, TypeOK, JobInv, Climb, Job, Label
  <2> QED
    BY <1>1, <2>5, <2>6 DEF TInv
<1>3. CASE ChooseTarget(p)
  <2> DEFINE target == IF IsActiveFolder(nodes, job[p].target) THEN job[p].target ELSE Root
  <2>1. job[p] \in Job
    BY DEF TInv, TypeOK
  <2>2. target \in Node
    BY SystemNodesAssumption DEF IsActiveFolder, TInv, TypeOK
  <2>3. job' = [job EXCEPT ![p] = [job[p] EXCEPT !.target = target]]
    BY <1>3, <2>1 DEF ChooseTarget, TInv, TypeOK
  <2> HIDE DEF target
  <2>4. [job[p] EXCEPT !.target = target] \in Job
    BY <2>1, <2>2 DEF Job
  <2>5. pc' \in [Client -> Label] /\ job' \in [Client -> Job]
    BY <1>3, <2>3, <2>4 DEF ChooseTarget, TInv, TypeOK, Label
  <2>6. TypeOK'
    BY <1>3, <2>5 DEF TInv, TypeOK, ChooseTarget
  <2>7. JobInv'
    BY <1>3, <2>1, <2>2, <2>3 DEF TInv, TypeOK, JobInv, ChooseTarget, Job, Label
  <2> QED
    BY <1>1, <2>6, <2>7 DEF TInv
<1> QED
  BY <1>2, <1>3

\* A new row, of CreateFolder or of an upload.
LEMMA InsertTable ==
  ASSUME TInv, NEW n \in Node, NEW kind \in {"file", "folder"}, NEW parent \in Node,
         NEW name \in Name \cup {"root"}, Insert(n, kind, parent, name)
  PROVE  /\ Table(nodes)' /\ SystemIntact' /\ n \notin DOMAIN nodes
         /\ older' \subseteq (DOMAIN nodes') \X (DOMAIN nodes')
         /\ pinned' \subseteq DOMAIN nodes'
<1>1. n \notin DOMAIN nodes
  BY DEF Insert, Fresh
<1>2. NewRow(parent, kind, name) \in NodeRow
  BY DEF NewRow, NodeRow
<1>3. /\ DOMAIN nodes' = DOMAIN nodes \cup {n} /\ nodes'[n] = NewRow(parent, kind, name)
      /\ \A m \in DOMAIN nodes : nodes'[m] = nodes[m]
      /\ nodes' = [m \in DOMAIN nodes' |-> nodes'[m]]
  BY <1>1 DEF Insert, Put
<1>4. Table(nodes)'
  BY <1>2, <1>3, TInvTable DEF Table
<1>5. SystemIntact'
  BY <1>3 DEF TInv, SystemIntact
<1>6. older' \subseteq (DOMAIN nodes') \X (DOMAIN nodes') /\ pinned' \subseteq DOMAIN nodes'
  BY <1>3 DEF TInv, TypeOK, Insert
<1> QED
  BY <1>1, <1>4, <1>5, <1>6

\* The statements that trash, restore, rename and move leave well-typed tables
\* with the same ids, and do not reach the system rows.
LEMMA RewriteTInv ==
  ASSUME TInv, NEW p \in Client, Rename(p) \/ Trash(p) \/ Restore(p) \/ Move(p)
  PROVE  TInv'
<1> DEFINE n == job[p].node
<1>1. job[p] \in Job /\ n \notin System /\ Table(nodes) /\ pinned \subseteq DOMAIN nodes
  BY TInvTable DEF TInv, TypeOK, JobInv, Rename, Trash, Restore, Move, Label
<1>2. n \in DOMAIN nodes => Subtree(nodes, n) \cap System = {}
  BY <1>1, TInvTable, SystemAbove
<1>3. CASE Rename(p)
  <2> DEFINE t == [nodes EXCEPT ![n].name = job[p].name]
  <2>1. n \in DOMAIN nodes => t \in [DOMAIN nodes -> NodeRow]
    BY <1>1 DEF Table, NodeRow, Job
  <2>2. n \in DOMAIN nodes =>
          Table(t) /\ pinned \subseteq DOMAIN t /\ \A s \in System : t[s] = nodes[s]
    BY <1>1, <2>1 DEF Table
  <2> QED
    BY <1>3, <2>2, WriteTInv DEF Rename
<1>4. CASE Trash(p)
  <2> DEFINE t == Trashed(nodes, n)
  <2>1. n \in DOMAIN nodes => t \in [DOMAIN nodes -> NodeRow]
    BY <1>1, TrashedType DEF Table
  <2>2. n \in DOMAIN nodes => \A s \in System : t[s] = nodes[s]
    BY <1>1, <1>2 DEF Trashed, Table
  <2> QED
    BY <1>1, <1>4, <2>1, <2>2, WriteTInv DEF Trash, Table
<1>5. CASE Restore(p)
  <2> DEFINE t == RestoredTo(nodes, n, job[p].target)
  <2>1. job[p].target \in Node
    BY <1>5 DEF TInv, JobInv, Restore
  <2>2. n \in DOMAIN nodes => t \in [DOMAIN nodes -> NodeRow]
    BY <1>1, <2>1, RestoredToType DEF Table
  <2>3. n \in DOMAIN nodes => \A s \in System : t[s] = nodes[s]
    BY <1>1, <1>2 DEF RestoredTo, Table
  <2> QED
    BY <1>1, <1>5, <2>2, <2>3, WriteTInv DEF Restore, Table
<1>6. CASE Move(p)
  <2> DEFINE t == [nodes EXCEPT ![n].parent = job[p].target]
  <2>1. job[p].target \in Node
    BY <1>6 DEF TInv, JobInv, Move
  <2>2. n \in DOMAIN nodes => t \in [DOMAIN nodes -> NodeRow]
    BY <1>1, <2>1 DEF Table, NodeRow
  <2>3. n \in DOMAIN nodes =>
          Table(t) /\ pinned \subseteq DOMAIN t /\ \A s \in System : t[s] = nodes[s]
    BY <1>1, <2>2 DEF Table
  <2> QED
    BY <1>6, <2>3, WriteTInv DEF Move
<1> QED
  BY <1>3, <1>4, <1>5, <1>6

\* A purge deletes rows that uploads do not name, and no system row.
LEMMA PurgeTInv ==
  ASSUME TInv, NEW p \in Client, Purge(p)
  PROVE  TInv'
<1> DEFINE n == job[p].node
           t == Drop(nodes, Subtree(nodes, n))
<1>1. n \notin System /\ Table(nodes) /\ pinned \subseteq DOMAIN nodes
  BY TInvTable DEF TInv, TypeOK, JobInv, Purge, Label
<1>2. DOMAIN t = DOMAIN nodes \ Subtree(nodes, n) /\ \A m \in DOMAIN t : t[m] = nodes[m]
  BY DEF Drop
<1>3. t \in [DOMAIN t -> NodeRow]
  BY <1>1 DEF Drop, Table
<1>4. n \in DOMAIN nodes => System \subseteq DOMAIN t
  BY <1>1, <1>2, TInvTable, SystemAbove DEF Table
<1>5. Deletable(n) => pinned \subseteq DOMAIN t
  BY <1>1, <1>2 DEF Deletable
<1> HIDE DEF t
<1>6. Deletable(n) /\ n \in DOMAIN nodes =>
        Table(t) /\ pinned \subseteq DOMAIN t /\ \A s \in System : t[s] = nodes[s]
  BY <1>1, <1>2, <1>3, <1>4, <1>5 DEF Table
<1> QED
  BY <1>6, WriteTInv DEF Purge, t

\* Every step of a handler that has begun.
LEMMA StepTInv ==
  ASSUME TInv, NEW p \in Client, Step(p)
  PROVE  TInv'
<1>1. ASSUME NEW n \in NewFolder, Create(p, n)
      PROVE  TInv'
  <2>1. job[p].target \in Node /\ job[p].name \in Name \cup {"root"} /\ n \in Node
    BY <1>1, NodeAssumption DEF TInv, TypeOK, JobInv, Create, Job
  <2> QED
    BY <1>1, <2>1, InsertTable, FinishTInv DEF Create
<1>2. CASE CreateRejected(p) \/ CycleDetected(p)
  <2>1. Table(nodes)' /\ SystemIntact'
    BY <1>2, TInvTable DEF CreateRejected, CycleDetected, TInv, SystemIntact, Table
  <2> QED
    BY <1>2, <2>1, FinishTInv DEF CreateRejected, CycleDetected, TInv, TypeOK
<1> QED
  BY <1>1, <1>2, ReadTInv, RewriteTInv, PurgeTInv DEF Step

\* The upload service reads and adds rows only.
LEMMA UploadServiceTInv ==
  ASSUME TInv, UploadService
  PROVE  TInv'
<1>1. UNCHANGED threads
  BY DEF UploadService, Admit, PublishFile
<1>2. JobInv'
  BY <1>1 DEF TInv, JobInv, threads
<1>3. ASSUME NEW parent \in Node, Admit(parent)
      PROVE  TInv'
  <2>1. TypeOK' /\ SystemIntact'
    BY <1>1, <1>3 DEF TInv, TypeOK, SystemIntact, Admit, IsActiveFolder, threads
  <2> QED
    BY <1>2, <2>1 DEF TInv
<1>4. ASSUME NEW n \in FileId, NEW parent \in Node, NEW name \in Name,
             PublishFile(n, parent, name)
      PROVE  TInv'
  <2>1. /\ Table(nodes)' /\ SystemIntact'
        /\ older' \subseteq (DOMAIN nodes') \X (DOMAIN nodes')
        /\ pinned' \subseteq DOMAIN nodes'
    BY <1>4, InsertTable DEF PublishFile, FileId
  <2>2. TypeOK'
    BY <1>1, <2>1 DEF TInv, TypeOK, Table, threads
  <2> QED
    BY <1>2, <2>1, <2>2 DEF TInv
<1> QED
  BY <1>3, <1>4 DEF UploadService

\* TInv is inductive.
LEMMA NextTInv == TInv /\ [Next]_vars => TInv'
<1>1. ASSUME TInv, UNCHANGED vars PROVE TInv'
  BY <1>1 DEF TInv, TypeOK, SystemIntact, JobInv, vars
<1> QED
  BY <1>1, RequestTInv, StepTInv, UploadServiceTInv DEF Next

\* The invariant of the file tree.
THEOREM TreeInvariant == Spec => []TInv
<1> QED
  BY InitTInv, NextTInv, PTL DEF Spec

\* Tables, insertion order, pins and threads are well typed, however requests
\* interleave.
THEOREM TreeTypeCorrect == Spec => []TypeOK
<1>1. TInv => TypeOK
  BY DEF TInv
<1> QED
  BY <1>1, TreeInvariant, PTL

\* No request changes, trashes, moves or deletes a system node.
THEOREM SystemStaysIntact == Spec => []SystemIntact
<1>1. TInv => SystemIntact
  BY DEF TInv
<1> QED
  BY <1>1, TreeInvariant, PTL

-----------------------------------------------------------------------------
(* The shape of the tree.                                                  *)

\* The system nodes alone.
LEMMA InitRooted == Init => Rooted
<1> SUFFICES ASSUME Init PROVE RootedTable(nodes)
  BY DEF Rooted
<1>1. DOMAIN nodes = System
  BY DEF Init, SystemRows
<1> QED
  BY <1>1, RootedIntro

\* A write of trash, restore or rename keeps every row below a system node:
\* TRASH_ROOT is in no other subtree, and a restore under the node itself would
\* not end.
LEMMA RewriteRooted ==
  ASSUME TInv, Rooted, NEW p \in Client, Rename(p) \/ Trash(p) \/ Restore(p),
         nodes' # nodes
  PROVE  Rooted'
<1> DEFINE n == job[p].node
<1>1. /\ n \in DOMAIN nodes \ System /\ Table(nodes) /\ RootedTable(nodes)
      /\ System \subseteq DOMAIN nodes
  BY TInvTable
  DEF TInv, TypeOK, JobInv, Rename, Trash, Restore, Write, Label, Rooted
<1> SUFFICES RootedTable(nodes')
  BY DEF Rooted
<1>2. CASE Rename(p)
  <2> DEFINE t == [nodes EXCEPT ![n].name = job[p].name]
  <2>1. DOMAIN t = DOMAIN nodes /\ \A m \in DOMAIN nodes : t[m].parent = nodes[m].parent
    BY <1>1 DEF Table, NodeRow
  <2>2. nodes' = t
    BY <1>2 DEF Rename, Write
  <2> HIDE DEF t
  <2> QED
    BY <1>1, <2>1, <2>2, RootedSame
<1>3. CASE Trash(p)
  <2> DEFINE t == Trashed(nodes, n)
  <2>1. DOMAIN t = DOMAIN nodes /\ \A m \in DOMAIN nodes \ {n} : t[m].parent = nodes[m].parent
    BY <1>1 DEF Trashed, Table, NodeRow
  <2>2. t[n].parent = TrashRoot
    BY <1>1 DEF Trashed, Table, NodeRow
  <2>3. TrashRoot \in DOMAIN nodes \ Subtree(nodes, n)
    BY <1>1, TInvTable, SystemAbove DEF System
  <2>4. nodes' = t
    BY <1>3 DEF Trash, Write
  <2> HIDE DEF t
  <2> QED
    BY <1>1, <2>1, <2>2, <2>3, <2>4, RootedReparent
<1>4. CASE Restore(p)
  <2> DEFINE target == job[p].target
             t == RestoredTo(nodes, n, target)
  <2>1. DOMAIN t = DOMAIN nodes /\ \A m \in DOMAIN nodes \ {n} : t[m].parent = nodes[m].parent
    BY <1>1 DEF RestoredTo, Table, NodeRow
  <2>2. t[n].parent = target
    BY <1>1 DEF RestoredTo, Table, NodeRow
  <2>3. target \in DOMAIN nodes \ Subtree(nodes, n)
    BY <1>4 DEF Restore, Restorable, Write
  <2>4. nodes' = t
    BY <1>4 DEF Restore, Write
  <2> HIDE DEF t
  <2> QED
    BY <1>1, <2>1, <2>2, <2>3, <2>4, RootedReparent
<1> QED
  BY <1>2, <1>3, <1>4

\* A purge takes whole subtrees.
LEMMA PurgeRooted ==
  ASSUME TInv, Rooted, NEW p \in Client, Purge(p), nodes' # nodes
  PROVE  Rooted'
<1> DEFINE n == job[p].node
<1>1. n \in DOMAIN nodes \ System /\ Table(nodes) /\ RootedTable(nodes)
  BY TInvTable DEF TInv, TypeOK, JobInv, Purge, Write, Label, Rooted
<1>2. nodes' = Drop(nodes, Subtree(nodes, n))
  BY DEF Purge, Write
<1>3. RootedTable(nodes')
  BY <1>1, <1>2, TInvTable, RootedPurge
<1> QED
  BY <1>3 DEF Rooted

\* A new row has a parent, by the foreign key.
LEMMA InsertRooted ==
  ASSUME TInv, Rooted, NEW n, NEW kind, NEW parent, NEW name, Insert(n, kind, parent, name)
  PROVE  Rooted'
<1>1. n \notin DOMAIN nodes /\ NewRow(parent, kind, name).parent \in DOMAIN nodes
  BY DEF Insert, Fresh, Insertable, NewRow
<1>2. RootedTable(nodes')
  BY <1>1, RootedInsert DEF Insert, Rooted, TInv, TypeOK
<1> QED
  BY <1>2 DEF Rooted

\* As long as nobody moves, every step keeps every row below a system node.
LEMMA NextRooted ==
  ASSUME Mover = {}, TInv, Rooted, [Next]_vars
  PROVE  Rooted'
<1>1. CASE nodes' = nodes
  BY <1>1 DEF Rooted
<1>2. ASSUME NEW p \in Client, Request(p)
      PROVE  nodes' = nodes
  BY <1>2 DEF Request, CreateCheck, RenameCheck, MoveCheck, TrashCheck, RestoreCheck,
              PurgeCheck, Begin
<1>3. ASSUME NEW p \in Client, Step(p), nodes' # nodes
      PROVE  Rooted'
  <2>1. ~Move(p)
    BY DEF TInv, JobInv, Move
  <2>2. ASSUME NEW n \in NewFolder, Create(p, n) PROVE Rooted'
    BY <2>2, InsertRooted DEF Create
  <2>3. ~(Climb(p) \/ CycleDetected(p) \/ ChooseTarget(p) \/ CreateRejected(p))
    BY <1>3 DEF Climb, CycleDetected, ChooseTarget, CreateRejected
  <2> QED
    BY <1>3, <2>1, <2>2, <2>3, RewriteRooted, PurgeRooted DEF Step
<1>4. CASE UploadService
  <2>1. ASSUME NEW parent \in Node, Admit(parent) PROVE Rooted'
    BY <2>1 DEF Admit, Rooted
  <2>2. ASSUME NEW n \in FileId, NEW parent \in Node, NEW name \in Name,
               PublishFile(n, parent, name)
        PROVE  Rooted'
    BY <2>2, InsertRooted DEF PublishFile
  <2> QED
    BY <1>4, <2>1, <2>2 DEF UploadService
<1> QED
  BY <1>1, <1>2, <1>3, <1>4 DEF Next, vars

\* Without moves, no interleaving of create, rename, trash, restore and purge makes
\* a cycle or an orphan: what the operations check before they write may be stale,
\* but the foreign key and the two system nodes are enough.
THEOREM RootedWithoutMoves == Mover = {} => (Spec => []Rooted)
<1>1. Mover = {} /\ TInv /\ Rooted /\ [Next]_vars => Rooted'
  BY NextRooted
<1>2. ASSUME Mover = {} PROVE Spec => []Rooted
  <2>1. TInv /\ Rooted /\ [Next]_vars => Rooted'
    BY <1>1, <1>2
  <2> QED
    BY <2>1, InitRooted, TreeInvariant, PTL DEF Spec
<1> QED
  BY <1>2

-----------------------------------------------------------------------------
(* One request at a time: the tree with moves, and what is trashed.        *)

\* A handler that returns has nothing more to remember.
LEMMA FinishRead ==
  ASSUME OneHandler, TInv, NEW p \in Client, Finish(p)
  PROVE  ReadInv'
<1>1. \A q \in Client : q = p /\ pc'[q] = "idle"
  BY DEF OneHandler, TInv, TypeOK, Finish
<1> QED
  BY <1>1 DEF ReadInv

\* Root and TRASH_ROOT are active folders.
LEMMA SystemActive == ASSUME TInv PROVE \A s \in System : IsActiveFolder(nodes, s)
<1>1. \A s \in System : SystemRows[s].kind = "folder" /\ ~SystemRows[s].trashed
  BY DEF SystemRows, NewRow
<1> QED
  BY <1>1 DEF TInv, SystemIntact, IsActiveFolder

\* A row is not its own parent, nor that of a row that is there already.
LEMMA FreshChildless ==
  ASSUME TInv, Rooted, NEW n \in Node, n \notin DOMAIN nodes
  PROVE  \A m \in DOMAIN nodes : nodes[m].parent # n
<1> SUFFICES ASSUME NEW m \in DOMAIN nodes PROVE nodes[m].parent # n
  OBVIOUS
<1>1. CASE m \in System
  BY <1>1, TInvTable, NoNodeAssumption
<1>2. CASE m \notin System
  <2>1. {m} \in SUBSET (DOMAIN nodes \ System) /\ {m} # {}
    BY <1>2
  <2>2. \E x \in {m} : nodes[x].parent \in DOMAIN nodes \ {m}
    BY <2>1 DEF Rooted, RootedTable
  <2> QED
    BY <2>2
<1> QED
  BY <1>1, <1>2

-----------------------------------------------------------------------------
(* The writes: folders stay above, and what is below trash stays trashed.  *)

\* A row that goes below another folder.
LEMMA ReparentFolders ==
  ASSUME FolderInv, TInv, NEW n \in DOMAIN nodes, NEW target,
         IsActiveFolder(nodes, target), DOMAIN nodes' = DOMAIN nodes, UNCHANGED pinned,
         nodes'[n].parent = target,
         \A m \in DOMAIN nodes \ {n} : nodes'[m].parent = nodes[m].parent,
         \A m \in DOMAIN nodes : nodes'[m].kind = nodes[m].kind
  PROVE  FolderInv'
<1>1. target \in DOMAIN nodes /\ nodes[target].kind = "folder"
  BY DEF IsActiveFolder
<1>2. pinned \subseteq DOMAIN nodes
  BY DEF TInv, TypeOK
<1> QED
  BY <1>1, <1>2 DEF FolderInv

LEMMA TrashHides ==
  ASSUME TInv, FolderInv, HiddenInv, NEW n \in DOMAIN nodes,
         nodes' = Trashed(nodes, n), UNCHANGED pinned
  PROVE  FolderInv' /\ HiddenInv'
<1>1. Table(nodes) /\ FoldersAbove(nodes)
  BY TInvTable DEF FolderInv, FoldersAbove
<1>2. /\ DOMAIN nodes' = DOMAIN nodes /\ nodes'[n].parent = TrashRoot
      /\ \A m \in DOMAIN nodes \ {n} : nodes'[m].parent = nodes[m].parent
      /\ \A m \in DOMAIN nodes :
           /\ nodes'[m].kind = nodes[m].kind
           /\ nodes'[m].trashed = (nodes[m].trashed \/ m \in Subtree(nodes, n))
  BY <1>1, TrashedRows
<1>3. n \in Subtree(nodes, n) /\ Closed(nodes, Subtree(nodes, n))
  BY SubtreeClosed
<1>4. FolderInv'
  BY <1>2, SystemActive, ReparentFolders DEF System
<1>5. ASSUME NEW m \in DOMAIN nodes, nodes'[m].parent \in DOMAIN nodes,
             nodes'[nodes'[m].parent].trashed
      PROVE  nodes'[m].trashed \/ (nodes'[m].kind = "file" /\ nodes'[m].parent \in pinned)
  <2>1. CASE m \in Subtree(nodes, n)
    BY <1>2, <2>1
  <2>2. CASE m \notin Subtree(nodes, n)
    <3>1. m # n /\ nodes'[m].parent = nodes[m].parent
          /\ nodes[m].parent \notin Subtree(nodes, n)
      BY <1>2, <1>3, <2>2 DEF Closed
    <3>2. nodes[nodes[m].parent].trashed
      BY <1>2, <1>5, <3>1
    <3> QED
      BY <1>2, <1>5, <3>1, <3>2 DEF HiddenInv
  <2> QED
    BY <2>1, <2>2
<1> QED
  BY <1>2, <1>4, <1>5 DEF HiddenInv

LEMMA RestoreHides ==
  ASSUME TInv, FolderInv, HiddenInv, NEW n \in DOMAIN nodes, NEW target,
         IsActiveFolder(nodes, target),
         nodes' = RestoredTo(nodes, n, target), UNCHANGED pinned
  PROVE  FolderInv' /\ HiddenInv'
<1>1. Table(nodes) /\ FoldersAbove(nodes)
  BY TInvTable DEF FolderInv, FoldersAbove
<1>2. /\ DOMAIN nodes' = DOMAIN nodes /\ nodes'[n].parent = target
      /\ \A m \in DOMAIN nodes \ {n} : nodes'[m].parent = nodes[m].parent
      /\ \A m \in DOMAIN nodes :
           /\ nodes'[m].kind = nodes[m].kind
           /\ nodes'[m].trashed = (nodes[m].trashed /\ m \notin Subtree(nodes, n))
  BY <1>1, RestoredToRows
<1>3. FolderInv'
  BY <1>2, ReparentFolders
<1>4. ASSUME NEW m \in DOMAIN nodes, nodes'[m].parent \in DOMAIN nodes,
             nodes'[nodes'[m].parent].trashed
      PROVE  nodes'[m].trashed \/ (nodes'[m].kind = "file" /\ nodes'[m].parent \in pinned)
  <2>1. m # n
    BY <1>2, <1>4 DEF IsActiveFolder
  <2>2. /\ nodes[m].parent \in DOMAIN nodes /\ nodes[nodes[m].parent].trashed
        /\ nodes[m].parent \notin Subtree(nodes, n)
    BY <1>2, <1>4, <2>1
  <2>3. m \notin Subtree(nodes, n)
    BY <2>1, <2>2, SubtreeParents
  <2> QED
    BY <1>2, <2>1, <2>2, <2>3 DEF HiddenInv
<1> QED
  BY <1>2, <1>3, <1>4 DEF HiddenInv

LEMMA MoveHides ==
  ASSUME TInv, FolderInv, HiddenInv, NEW n \in DOMAIN nodes, NEW target,
         IsActiveFolder(nodes, target),
         nodes' = [nodes EXCEPT ![n].parent = target], UNCHANGED pinned
  PROVE  FolderInv' /\ HiddenInv'
<1>1. nodes[n] \in NodeRow
  BY DEF TInv, TypeOK
<1>2. /\ DOMAIN nodes' = DOMAIN nodes /\ nodes'[n].parent = target
      /\ \A m \in DOMAIN nodes \ {n} : nodes'[m] = nodes[m]
      /\ nodes'[n].kind = nodes[n].kind /\ nodes'[n].trashed = nodes[n].trashed
  BY <1>1 DEF NodeRow
<1>3. FolderInv'
  BY <1>2, ReparentFolders
<1>4. \A m \in DOMAIN nodes : nodes'[m].trashed = nodes[m].trashed /\ nodes'[m].kind = nodes[m].kind
  BY <1>2
<1>5. HiddenInv'
  BY <1>2, <1>4 DEF HiddenInv, IsActiveFolder
<1> QED
  BY <1>3, <1>5

LEMMA RenameHides ==
  ASSUME TInv, FolderInv, HiddenInv, NEW n \in DOMAIN nodes, NEW name,
         nodes' = [nodes EXCEPT ![n].name = name], UNCHANGED pinned
  PROVE  FolderInv' /\ HiddenInv'
<1>1. nodes[n] \in NodeRow /\ pinned \subseteq DOMAIN nodes
  BY DEF TInv, TypeOK
<1>2. /\ DOMAIN nodes' = DOMAIN nodes
      /\ \A m \in DOMAIN nodes : /\ nodes'[m].parent = nodes[m].parent
                                 /\ nodes'[m].kind = nodes[m].kind
                                 /\ nodes'[m].trashed = nodes[m].trashed
  BY <1>1 DEF NodeRow
<1> QED
  BY <1>1, <1>2 DEF FolderInv, HiddenInv

\* Rows that are deleted leave the others as they are.
LEMMA PurgeHides ==
  ASSUME TInv, TInv', FolderInv, HiddenInv, NEW S, nodes' = Drop(nodes, S), UNCHANGED pinned
  PROVE  FolderInv' /\ HiddenInv'
<1>1. DOMAIN nodes' = DOMAIN nodes \ S /\ \A m \in DOMAIN nodes' : nodes'[m] = nodes[m]
  BY DEF Drop
<1>2. pinned \subseteq DOMAIN nodes'
  BY DEF TInv, TypeOK
<1> QED
  BY <1>1, <1>2 DEF FolderInv, HiddenInv

\* A new row below a folder; a new folder below an active one.
LEMMA InsertHides ==
  ASSUME TInv, Rooted, FolderInv, HiddenInv,
         NEW n \in Node, NEW kind \in {"file", "folder"}, NEW parent, NEW name,
         Insert(n, kind, parent, name), nodes[parent].kind = "folder",
         IsActiveFolder(nodes, parent) \/ (kind = "file" /\ parent \in pinned)
  PROVE  FolderInv' /\ HiddenInv'
<1>1. n \notin DOMAIN nodes /\ parent \in DOMAIN nodes /\ UNCHANGED pinned
  BY DEF Insert, Fresh, Insertable
<1>2. /\ DOMAIN nodes' = DOMAIN nodes \cup {n}
      /\ nodes'[n].parent = parent /\ nodes'[n].kind = kind
      /\ \A m \in DOMAIN nodes : nodes'[m] = nodes[m]
  BY <1>1 DEF Insert, Put, NewRow
<1>3. \A m \in DOMAIN nodes : nodes[m].parent # n
  BY <1>1, FreshChildless
<1>4. pinned \subseteq DOMAIN nodes
  BY DEF TInv, TypeOK
<1>5. FolderInv'
  BY <1>1, <1>2, <1>3, <1>4 DEF FolderInv
<1>6. HiddenInv'
  BY <1>1, <1>2, <1>3 DEF HiddenInv, IsActiveFolder
<1> QED
  BY <1>5, <1>6

-----------------------------------------------------------------------------
(* The steps.                                                              *)

LEMMA InitSolo == Init => SoloInv
<1> SUFFICES ASSUME Init PROVE SoloInv
  OBVIOUS
<1>1. \A n \in DOMAIN nodes : nodes[n].parent = NoNode
  BY DEF Init, SystemRows, NewRow
<1>2. DOMAIN nodes = System /\ NoNode \notin System
  BY SystemNodesAssumption, NoNodeAssumption DEF Init, SystemRows, System
<1>3. FolderInv /\ HiddenInv
  BY <1>1, <1>2 DEF Init, FolderInv, HiddenInv
<1>4. ReadInv
  BY DEF Init, ReadInv
<1> QED
  BY <1>3, <1>4, InitTInv, InitRooted DEF SoloInv

\* A request is read while the table stays as it is.
LEMMA RequestSolo ==
  ASSUME OneHandler, SoloInv, NEW p \in Client, Request(p)
  PROVE  SoloInv'
<1>1. UNCHANGED <<nodes, pinned>>
  BY DEF Request, CreateCheck, RenameCheck, MoveCheck, TrashCheck, RestoreCheck, PurgeCheck,
         Begin
<1>2. TInv' /\ Rooted' /\ FolderInv' /\ HiddenInv'
  BY <1>1, RequestTInv DEF SoloInv, Rooted, FolderInv, HiddenInv
<1>3. ASSUME NEW l \in Label, NEW j \in Job, Begin(p, l, j)
      PROVE  \A q \in Client : q = p /\ pc'[q] = l /\ job'[q] = j
  BY <1>3 DEF OneHandler, SoloInv, TInv, TypeOK, Begin
<1> USE SystemNodesAssumption DEF Label, Job, Idle
<1>4. ASSUME NEW parent \in Node, NEW name \in Name, CreateCheck(p, parent, name)
      PROVE  ReadInv'
  <2> DEFINE j == [Idle EXCEPT !.target = parent, !.name = name]
  <2>1. j \in Job /\ j.target = parent
    OBVIOUS
  <2> HIDE DEF j
  <2> QED
    BY <1>1, <1>3, <1>4, <2>1 DEF CreateCheck, ReadInv, j
<1>5. ASSUME NEW n \in Node, NEW name \in Name, RenameCheck(p, n, name)
      PROVE  ReadInv'
  <2>1. [Idle EXCEPT !.node = n, !.name = name] \in Job
    OBVIOUS
  <2> QED
    BY <1>3, <1>5, <2>1 DEF RenameCheck, ReadInv
<1>6. ASSUME NEW n \in Node, NEW target \in Node, MoveCheck(p, n, target)
      PROVE  ReadInv'
  <2> DEFINE j == [Idle EXCEPT !.node = n, !.target = target, !.at = target]
  <2>1. j \in Job /\ j.node = n /\ j.target = target /\ j.at = target
    OBVIOUS
  <2> HIDE DEF j
  <2>2. \A q \in Client : q = p /\ pc'[q] = "walk" /\ job'[q] = j
    BY <1>3, <1>6, <2>1 DEF MoveCheck, j
  <2> QED
    BY <1>1, <1>6, <2>1, <2>2 DEF MoveCheck, ReadInv, Writable
<1>7. ASSUME NEW n \in Node, TrashCheck(p, n)
      PROVE  ReadInv'
  <2>1. [Idle EXCEPT !.node = n] \in Job
    OBVIOUS
  <2> QED
    BY <1>3, <1>7, <2>1 DEF TrashCheck, ReadInv
<1>8. ASSUME NEW n \in Node, RestoreCheck(p, n)
      PROVE  ReadInv'
  <2>1. nodes[n].restore \in Node \cup {NoNode}
    BY <1>8 DEF RestoreCheck, SoloInv, TInv, TypeOK, NodeRow
  <2>2. [Idle EXCEPT !.node = n, !.target = nodes[n].restore] \in Job
    BY <2>1
  <2> QED
    BY <1>3, <1>8, <2>2 DEF RestoreCheck, ReadInv
<1>9. ASSUME NEW n \in Node, PurgeCheck(p, n)
      PROVE  ReadInv'
  <2> DEFINE j == [Idle EXCEPT !.node = n]
  <2>1. j \in Job /\ j.node = n
    OBVIOUS
  <2> HIDE DEF j
  <2>2. \A q \in Client : q = p /\ pc'[q] = "purge" /\ job'[q] = j
    BY <1>3, <1>9, <2>1 DEF PurgeCheck, j
  <2> QED
    BY <1>1, <1>9, <2>1, <2>2 DEF PurgeCheck, PurgeRequestable, ReadInv, Writable
<1> QED
  BY <1>2, <1>4, <1>5, <1>6, <1>7, <1>8, <1>9 DEF Request, SoloInv

\* The walk of MoveNode meets the node if it starts below it.
LEMMA ReadSolo ==
  ASSUME OneHandler, SoloInv, NEW p \in Client, Climb(p) \/ ChooseTarget(p)
  PROVE  SoloInv'
<1> DEFINE n == job[p].node
           target == job[p].target
           at == job[p].at
<1>1. UNCHANGED <<nodes, pinned>>
  BY DEF Climb, ChooseTarget
<1>2. TInv' /\ Rooted' /\ FolderInv' /\ HiddenInv'
  BY <1>1, ReadTInv DEF SoloInv, Rooted, FolderInv, HiddenInv
<1>3. \A q \in Client : q = p
  BY DEF OneHandler
<1>4. job[p] \in Job /\ pc[p] \in Label
  BY DEF SoloInv, TInv, TypeOK
<1>5. CASE Climb(p)
  <2>1. /\ pc[p] = "walk" /\ at # n
        /\ IsActiveFolder(nodes, target) /\ n \in DOMAIN nodes
        /\ target \in Subtree(nodes, n) => at \in Subtree(nodes, n)
    BY <1>5 DEF Climb, SoloInv, ReadInv
  <2>2. target \in Subtree(nodes, n) => nodes[at].parent \in Subtree(nodes, n)
    BY <2>1, SubtreeParents
  <2>3. Subtree(nodes, n) \subseteq DOMAIN nodes
    BY <2>1, SubtreeClosed
  <2>4. CASE AtTop(at)
    <3>1. pc'[p] = "move" /\ job'[p] = job[p]
      BY <1>5, <2>4 DEF Climb, SoloInv, TInv, TypeOK
    <3>2. target \notin Subtree(nodes, n)
      BY <2>1, <2>2, <2>3, <2>4, TInvTable, NoNodeAssumption DEF AtTop, SoloInv, Table
    <3>3. ReadInv'
      BY <1>1, <1>3, <2>1, <3>1, <3>2 DEF ReadInv
    <3> QED
      BY <1>2, <3>3 DEF SoloInv
  <2>5. CASE ~AtTop(at)
    <3>1. pc'[p] = "walk" /\ job'[p] = [job[p] EXCEPT !.at = nodes[at].parent]
      BY <1>5, <2>1, <2>5 DEF Climb, SoloInv, TInv, TypeOK
    <3>2. job'[p].node = n /\ job'[p].target = target /\ job'[p].at = nodes[at].parent
      BY <1>4, <3>1 DEF Job
    <3>3. ReadInv'
      BY <1>1, <1>3, <2>1, <2>2, <3>1, <3>2 DEF ReadInv
    <3> QED
      BY <1>2, <3>3 DEF SoloInv
  <2> QED
    BY <2>4, <2>5
<1>6. CASE ChooseTarget(p)
  <2>1. /\ pc'[p] = "restore"
        /\ job'[p].target = IF IsActiveFolder(nodes, target) THEN target ELSE Root
    BY <1>4, <1>6 DEF ChooseTarget, SoloInv, TInv, TypeOK, Job
  <2>2. IsActiveFolder(nodes, job'[p].target)
    BY <2>1, SystemActive DEF SoloInv, System
  <2>3. IsActiveFolder(nodes', job'[p].target)
    BY <1>1, <2>2 DEF IsActiveFolder
  <2>4. ReadInv'
    BY <1>3, <2>1, <2>3 DEF ReadInv
  <2> QED
    BY <1>2, <2>4 DEF SoloInv
<1> QED
  BY <1>5, <1>6

\* A request that writes, and ends.
LEMMA RewriteSolo ==
  ASSUME OneHandler, SoloInv, NEW p \in Client,
         Rename(p) \/ Move(p) \/ Trash(p) \/ Restore(p) \/ Purge(p)
  PROVE  SoloInv'
<1> DEFINE n == job[p].node
           target == job[p].target
<1>1. TInv /\ Rooted /\ FolderInv /\ HiddenInv /\ ReadInv
  BY DEF SoloInv
<1>2. TInv' /\ ReadInv' /\ UNCHANGED pinned
  BY <1>1, RewriteTInv, PurgeTInv, FinishRead DEF Rename, Move, Trash, Restore, Purge, Write
<1>3. CASE nodes' = nodes
  <2>1. Rooted' /\ FolderInv' /\ HiddenInv'
    BY <1>1, <1>2, <1>3 DEF Rooted, FolderInv, HiddenInv
  <2> QED
    BY <1>2, <2>1 DEF SoloInv
<1>4. CASE nodes' # nodes
  <2>1. n \in DOMAIN nodes
    BY <1>4 DEF Rename, Move, Trash, Restore, Purge, Write
  <2>2. CASE Rename(p)
    <3>1. nodes' = [nodes EXCEPT ![n].name = job[p].name]
      BY <1>4, <2>2 DEF Rename, Write
    <3> QED
      BY <1>1, <1>2, <1>4, <2>1, <2>2, <3>1, RewriteRooted, RenameHides DEF SoloInv
  <2>3. CASE Trash(p)
    <3>1. nodes' = Trashed(nodes, n)
      BY <1>4, <2>3 DEF Trash, Write
    <3> QED
      BY <1>1, <1>2, <1>4, <2>1, <2>3, <3>1, RewriteRooted, TrashHides DEF SoloInv
  <2>4. CASE Restore(p)
    <3>1. nodes' = RestoredTo(nodes, n, target) /\ IsActiveFolder(nodes, target)
      BY <1>1, <1>4, <2>4 DEF Restore, Write, ReadInv
    <3> QED
      BY <1>1, <1>2, <1>4, <2>1, <2>4, <3>1, RewriteRooted, RestoreHides DEF SoloInv
  <2>5. CASE Move(p)
    <3>1. /\ nodes' = [nodes EXCEPT ![n].parent = target]
          /\ IsActiveFolder(nodes, target) /\ target \notin Subtree(nodes, n)
      BY <1>1, <1>4, <2>5 DEF Move, Write, ReadInv
    <3>2. nodes[n] \in NodeRow
      BY <1>1, <2>1 DEF TInv, TypeOK
    <3>3. /\ DOMAIN nodes' = DOMAIN nodes /\ nodes'[n].parent = target
          /\ \A m \in DOMAIN nodes \ {n} : nodes'[m].parent = nodes[m].parent
      BY <2>1, <3>1, <3>2 DEF NodeRow
    <3>4. RootedTable(nodes')
      BY <1>1, <2>1, <3>1, <3>3, RootedReparent
      DEF IsActiveFolder, Rooted, TInv, TypeOK
    <3> QED
      BY <1>1, <1>2, <2>1, <3>1, <3>4, MoveHides DEF SoloInv, Rooted
  <2>6. CASE Purge(p)
    <3>1. nodes' = Drop(nodes, Subtree(nodes, n))
      BY <1>4, <2>6 DEF Purge, Write
    <3> QED
      BY <1>1, <1>2, <1>4, <2>6, <3>1, PurgeRooted, PurgeHides DEF SoloInv
  <2> QED
    BY <2>2, <2>3, <2>4, <2>5, <2>6
<1> QED
  BY <1>3, <1>4

LEMMA StepSolo ==
  ASSUME OneHandler, SoloInv, NEW p \in Client, Step(p)
  PROVE  SoloInv'
<1>1. TInv' /\ TInv /\ Rooted /\ ReadInv /\ FolderInv /\ HiddenInv
  BY StepTInv DEF SoloInv
<1>2. ASSUME NEW n \in NewFolder, Create(p, n)
      PROVE  SoloInv'
  <2>1. n \in Node /\ Insert(n, "folder", job[p].target, job[p].name)
        /\ IsActiveFolder(nodes, job[p].target)
    BY <1>1, <1>2, NodeAssumption DEF Create, ReadInv
  <2>2. Rooted' /\ FolderInv' /\ HiddenInv'
    BY <1>1, <2>1, InsertRooted, InsertHides DEF IsActiveFolder
  <2>3. ReadInv'
    BY <1>1, <1>2, FinishRead DEF Create
  <2> QED
    BY <1>1, <2>2, <2>3 DEF SoloInv
<1>3. CASE CreateRejected(p) \/ CycleDetected(p)
  <2>1. Rooted' /\ FolderInv' /\ HiddenInv'
    BY <1>1, <1>3 DEF CreateRejected, CycleDetected, Rooted, FolderInv, HiddenInv
  <2>2. ReadInv'
    BY <1>1, <1>3, FinishRead DEF CreateRejected, CycleDetected
  <2> QED
    BY <1>1, <2>1, <2>2 DEF SoloInv
<1> QED
  BY <1>2, <1>3, ReadSolo, RewriteSolo DEF Step

\* Uploads come between the reads and the writes, and do not make them stale.
LEMMA UploadServiceSolo ==
  ASSUME SoloInv, UploadService
  PROVE  SoloInv'
<1>1. TInv' /\ TInv /\ Rooted /\ ReadInv /\ FolderInv /\ HiddenInv /\ UNCHANGED threads
  BY UploadServiceTInv DEF SoloInv, UploadService, Admit, PublishFile
<1>2. ASSUME NEW parent \in Node, Admit(parent)
      PROVE  SoloInv'
  <2>1. UNCHANGED nodes /\ pinned' = pinned \cup {parent} /\ nodes[parent].kind = "folder"
    BY <1>2 DEF Admit, IsActiveFolder
  <2>2. Rooted' /\ FolderInv' /\ HiddenInv'
    BY <1>1, <2>1 DEF Rooted, FolderInv, HiddenInv
  <2>3. ReadInv'
    BY <1>1, <2>1 DEF ReadInv, threads
  <2> QED
    BY <1>1, <2>2, <2>3 DEF SoloInv
<1>3. ASSUME NEW n \in FileId, NEW parent \in Node, NEW name \in Name,
             PublishFile(n, parent, name)
      PROVE  SoloInv'
  <2>1. /\ n \in Node /\ parent \in Node /\ n \notin DOMAIN nodes /\ parent \in DOMAIN nodes
        /\ Insert(n, "file", parent, name)
    BY <1>3 DEF PublishFile, Insert, Fresh, Insertable, FileId
  <2>2. nodes[parent].kind = "folder" /\ (parent \in pinned \/ IsActiveFolder(nodes, parent))
    BY <1>1, <1>3, SystemActive DEF PublishFile, FolderInv, IsActiveFolder
  <2>3. Rooted' /\ FolderInv' /\ HiddenInv'
    BY <1>1, <2>1, <2>2, InsertRooted, InsertHides
  <2> DEFINE row == NewRow(parent, "file", name)
  <2>4. nodes' = Put(nodes, n, row) /\ row.parent # n
    BY <2>1 DEF Insert, NewRow
  <2>5. /\ DOMAIN nodes' = DOMAIN nodes \cup {n}
        /\ \A m \in DOMAIN nodes : nodes'[m] = nodes[m]
    BY <2>1, <2>4 DEF Put
  <2> HIDE DEF row
  <2>6. \A x, y \in DOMAIN nodes : y \in Subtree(nodes', x) <=> y \in Subtree(nodes, x)
    BY <1>1, <2>1, <2>4, FreshChildless, SubtreePut
  <2>7. ReadInv'
    <3> SUFFICES ASSUME NEW p \in Client
                 PROVE  LET x == job[p].node
                            target == job[p].target IN
      /\ pc[p] \in {"create", "walk", "move", "restore"} => IsActiveFolder(nodes', target)
      /\ pc[p] \in {"walk", "move", "purge"} => x \in DOMAIN nodes'
      /\ pc[p] = "purge" => nodes'[x].trashed
      /\ pc[p] = "walk" /\ target \in Subtree(nodes', x) => job[p].at \in Subtree(nodes', x)
      /\ pc[p] = "move" => target \notin Subtree(nodes', x)
      BY <1>1 DEF ReadInv, threads
    <3> DEFINE x == job[p].node
               target == job[p].target
    <3>1. pc[p] \in {"create", "walk", "move", "restore"} =>
            IsActiveFolder(nodes, target) /\ target \in DOMAIN nodes
      BY <1>1 DEF ReadInv, IsActiveFolder
    <3>2. pc[p] \in {"walk", "move", "purge"} => x \in DOMAIN nodes
      BY <1>1 DEF ReadInv
    <3>3. pc[p] \in {"create", "walk", "move", "restore"} => IsActiveFolder(nodes', target)
      BY <2>5, <3>1 DEF IsActiveFolder
    <3>4. pc[p] \in {"walk", "move", "purge"} => x \in DOMAIN nodes'
      BY <2>5, <3>2
    <3>5. pc[p] = "purge" => nodes'[x].trashed
      BY <1>1, <2>5, <3>2 DEF ReadInv
    <3>6. pc[p] = "walk" /\ target \in Subtree(nodes', x) => job[p].at \in Subtree(nodes', x)
      <4>1. x \in DOMAIN nodes => Subtree(nodes, x) \subseteq DOMAIN nodes
        BY SubtreeClosed
      <4> QED
        BY <1>1, <2>6, <3>1, <3>2, <4>1 DEF ReadInv
    <3>7. pc[p] = "move" => target \notin Subtree(nodes', x)
      BY <1>1, <2>6, <3>1, <3>2 DEF ReadInv
    <3> QED
      BY <3>3, <3>4, <3>5, <3>6, <3>7
  <2> QED
    BY <1>1, <2>3, <2>7 DEF SoloInv
<1> QED
  BY <1>2, <1>3 DEF UploadService

LEMMA NextSolo == OneHandler /\ SoloInv /\ [Next]_vars => SoloInv'
<1>1. ASSUME SoloInv, UNCHANGED vars PROVE SoloInv'
  <2>1. TInv'
    BY <1>1, NextTInv DEF SoloInv
  <2>2. Rooted' /\ ReadInv' /\ FolderInv' /\ HiddenInv'
    BY <1>1 DEF SoloInv, vars, Rooted, ReadInv, FolderInv, HiddenInv
  <2> QED
    BY <2>1, <2>2 DEF SoloInv
<1> QED
  BY <1>1, RequestSolo, StepSolo, UploadServiceSolo DEF Next

\* Only a purge deletes rows; it finds nothing in the subtree that uploads name, so
\* everything below the trashed node is trashed.
LEMMA NextDeletes ==
  ASSUME SoloInv, [Next]_vars
  PROVE  \A m \in DOMAIN nodes \ DOMAIN nodes' : nodes[m].trashed
<1>1. ASSUME NEW p \in Client, Purge(p), nodes' # nodes
      PROVE  \A m \in DOMAIN nodes \ DOMAIN nodes' : nodes[m].trashed
  <2> DEFINE n == job[p].node
             S == {m \in Subtree(nodes, n) : nodes[m].trashed}
  <2>1. /\ n \in DOMAIN nodes /\ nodes[n].trashed /\ Deletable(n)
        /\ nodes' = Drop(nodes, Subtree(nodes, n))
    BY <1>1 DEF Purge, Write, SoloInv, ReadInv
  <2>2. n \in Subtree(nodes, n) /\ Subtree(nodes, n) \subseteq DOMAIN nodes
        /\ Closed(nodes, Subtree(nodes, n))
    BY <2>1, SubtreeClosed
  <2>3. Closed(nodes, S)
    <3> SUFFICES ASSUME NEW m \in DOMAIN nodes, nodes[m].parent \in S PROVE m \in S
      BY DEF Closed
    <3>1. m \in Subtree(nodes, n)
      BY <2>2 DEF Closed
    <3>2. nodes[m].parent \in DOMAIN nodes \ pinned
      BY <2>1, <2>2 DEF Deletable
    <3>3. nodes[m].trashed
      BY <3>2 DEF SoloInv, HiddenInv
    <3> QED
      BY <3>1, <3>3
  <2>4. Subtree(nodes, n) \subseteq S
    BY <2>1, <2>2, <2>3, SubtreeLeast
  <2> QED
    BY <2>1, <2>4 DEF Drop
<1>2. ASSUME NEW p \in Client, Rename(p) \/ Move(p) \/ Trash(p) \/ Restore(p)
      PROVE  DOMAIN nodes' = DOMAIN nodes
  BY <1>2 DEF Rename, Move, Trash, Restore, Write, Trashed, RestoredTo
<1>3. ASSUME NEW n, NEW kind, NEW parent, NEW name, Insert(n, kind, parent, name)
      PROVE  DOMAIN nodes \subseteq DOMAIN nodes'
  BY <1>3 DEF Insert, Put
<1>4. CASE UNCHANGED nodes
  BY <1>4
<1>5. ASSUME NEW p \in Client, Step(p)
      PROVE  nodes' = nodes \/ DOMAIN nodes \subseteq DOMAIN nodes' \/ Purge(p)
  BY <1>2, <1>3, <1>5 DEF Step, Create, CreateRejected, Climb, CycleDetected, ChooseTarget
<1>6. ASSUME NEW p \in Client, Request(p) PROVE UNCHANGED nodes
  BY <1>6 DEF Request, CreateCheck, RenameCheck, MoveCheck, TrashCheck, RestoreCheck,
              PurgeCheck, Begin
<1>7. ASSUME UploadService PROVE DOMAIN nodes \subseteq DOMAIN nodes'
  BY <1>3, <1>7 DEF UploadService, Admit, PublishFile
<1> QED
  BY <1>1, <1>4, <1>5, <1>6, <1>7 DEF Next, vars

-----------------------------------------------------------------------------
(* A trash taken back.                                                     *)

\* A node's parent is not below the node.
LEMMA ParentOutside ==
  ASSUME NEW t, Table(t), RootedTable(t), \A s \in System : t[s].parent = NoNode,
         NEW n \in DOMAIN t \ System
  PROVE  t[n].parent \notin Subtree(t, n)
<1> SUFFICES ASSUME t[n].parent \in Subtree(t, n) PROVE FALSE
  OBVIOUS
<1> DEFINE S == DOMAIN t \ Subtree(t, n)
<1>1. System \subseteq S
  BY SystemAbove DEF Table
<1>2. Closed(t, S)
  BY SubtreeParents DEF Closed
<1>3. S = DOMAIN t
  BY <1>1, <1>2, RootedElim
<1> QED
  BY <1>3, SubtreeClosed

\* TrashNode takes the node's descendants along.
LEMMA TrashedSubtree ==
  ASSUME NEW t, Table(t), NEW n \in DOMAIN t
  PROVE  Subtree(Trashed(t, n), n) = Subtree(t, n)
<1> DEFINE t1 == Trashed(t, n)
<1>1. DOMAIN t1 = DOMAIN t /\ \A m \in DOMAIN t \ {n} : t1[m].parent = t[m].parent
  BY DEF Trashed, Table, NodeRow
<1> HIDE DEF t1
<1>2. ASSUME NEW S, n \in S PROVE Closed(t1, S) <=> Closed(t, S)
  BY <1>1, <1>2 DEF Closed
<1>3. Subtree(t1, n) \subseteq Subtree(t, n)
  BY <1>1, <1>2, SubtreeClosed, SubtreeLeast
<1>4. Subtree(t, n) \subseteq Subtree(t1, n)
  BY <1>1, <1>2, SubtreeClosed, SubtreeLeast
<1> QED
  BY <1>3, <1>4 DEF t1

LEMMA RestoreAfterTrash ==
  ASSUME NEW t, Table(t), RootedTable(t), \A s \in System : t[s].parent = NoNode,
         NEW n \in DOMAIN t \ System, IsActiveFolder(t, t[n].parent),
         \A m \in Subtree(t, n) : ~t[m].trashed /\ t[m].restore = NoNode
  PROVE  Restored(Trashed(t, n), n) = t
<1> DEFINE below == IF t[n].kind = "folder" THEN Subtree(t, n) \ {n} ELSE {}
           t1 == Trashed(t, n)
           q == t[n].parent
           t2 == RestoredTo(t1, n, q)
<1>1. \A m \in DOMAIN t : t[m] \in NodeRow
  BY DEF Table
<1>2. n \in Subtree(t, n) /\ q \notin Subtree(t, n)
  BY SubtreeClosed, ParentOutside
<1>3. /\ DOMAIN t1 = DOMAIN t
      /\ t1[n] = [t[n] EXCEPT !.trashed = TRUE, !.restore = q, !.parent = TrashRoot]
      /\ \A m \in DOMAIN t \ {n} :
           t1[m] = IF m \in below THEN [t[m] EXCEPT !.trashed = TRUE] ELSE t[m]
  BY DEF Trashed
<1>4. t1[n].restore = q /\ t1[n].kind = t[n].kind
  BY <1>1, <1>3 DEF NodeRow
<1>5. Subtree(t1, n) = Subtree(t, n)
  BY TrashedSubtree
<1>6. RestoreTarget(t1, n) = q
  BY <1>2, <1>3, <1>4 DEF RestoreTarget, IsActiveFolder
<1> HIDE DEF t1
<1>7. t2 = [m \in DOMAIN t |->
              IF m = n THEN [t1[n] EXCEPT !.trashed = FALSE, !.restore = NoNode, !.parent = q]
              ELSE IF m \in below THEN [t1[m] EXCEPT !.trashed = FALSE]
              ELSE t1[m]]
  BY <1>3, <1>4, <1>5 DEF RestoredTo
<1>8. [t1[n] EXCEPT !.trashed = FALSE, !.restore = NoNode, !.parent = q] = t[n]
  BY <1>1, <1>2, <1>3 DEF NodeRow
<1>9. \A m \in below : m \in DOMAIN t \ {n} /\ [t1[m] EXCEPT !.trashed = FALSE] = t[m]
  <2> SUFFICES ASSUME NEW m \in below
               PROVE  m \in DOMAIN t \ {n} /\ [t1[m] EXCEPT !.trashed = FALSE] = t[m]
    OBVIOUS
  <2>1. m \in Subtree(t, n) /\ m \in DOMAIN t \ {n}
    BY SubtreeClosed
  <2>2. t[m] \in NodeRow /\ ~t[m].trashed
    BY <1>1, <2>1
  <2> QED
    BY <1>3, <2>1, <2>2 DEF NodeRow
<1>10. \A m \in DOMAIN t : t2[m] = t[m]
  BY <1>3, <1>7, <1>8, <1>9
<1>11. t2 = t
  BY <1>7, <1>10 DEF Table
<1> QED
  BY <1>6, <1>11 DEF Restored, t1

\* All it takes is that the rows are a tree.
LEMMA RootedUndoes == TInv /\ Rooted => RestoreUndoesTrash
BY TInvTable, RestoreAfterTrash DEF Rooted, RestoreUndoesTrash

-----------------------------------------------------------------------------
(* The invariant of a server that gets one request at a time, with uploads *)
(* going on.                                                               *)
THEOREM SoloInvariant == OneHandler => (Spec => []SoloInv)
<1>1. ASSUME OneHandler PROVE Spec => []SoloInv
  <2>1. SoloInv /\ [Next]_vars => SoloInv'
    BY <1>1, NextSolo
  <2> QED
    BY <2>1, InitSolo, PTL DEF Spec
<1> QED
  BY <1>1

\* Moves one at a time, with any other requests between them and uploads at any
\* moment, keep the tree: the walk of MoveNode does find the node it starts below.
THEOREM RootedOneAtATime == OneHandler => (Spec => []Rooted)
<1>1. ASSUME OneHandler PROVE Spec => []Rooted
  <2>1. SoloInv => Rooted
    BY DEF SoloInv
  <2> QED
    BY <1>1, <2>1, SoloInvariant, PTL
<1> QED
  BY <1>1

\* Requests one at a time never leave an active folder in a trashed one.
THEOREM TrashStaysClosed == OneHandler => (Spec => []TrashClosed)
<1>1. ASSUME OneHandler PROVE Spec => []TrashClosed
  <2>1. SoloInv => TrashClosed
    BY DEF SoloInv, HiddenInv, TrashClosed
  <2> QED
    BY <1>1, <2>1, SoloInvariant, PTL
<1> QED
  BY <1>1

\* And PurgeNode deletes nothing that is active, files that an upload put into the
\* trashed folder included: their folder cannot be deleted.
THEOREM OnlyTrashedIsPurged == OneHandler => (Spec => OnlyTrashedPurged)
<1>1. ASSUME OneHandler PROVE Spec => OnlyTrashedPurged
  <2>1. SoloInv /\ [Next]_vars =>
          [\A n \in DOMAIN nodes \ DOMAIN nodes' : nodes[n].trashed]_vars
    BY NextDeletes
  <2> QED
    BY <1>1, <2>1, SoloInvariant, PTL DEF Spec, OnlyTrashedPurged
<1> QED
  BY <1>1

\* RestoreNode undoes TrashNode whatever happened before, if requests came one
\* at a time, or if none of them was a move.
THEOREM TrashCanBeUndone == OneHandler \/ Mover = {} => (Spec => []RestoreUndoesTrash)
<1>1. ASSUME OneHandler PROVE Spec => []RestoreUndoesTrash
  BY <1>1, RootedOneAtATime, TreeInvariant, RootedUndoes, PTL
<1>2. ASSUME Mover = {} PROVE Spec => []RestoreUndoesTrash
  BY <1>2, RootedWithoutMoves, TreeInvariant, RootedUndoes, PTL
<1> QED
  BY <1>1, <1>2
=============================================================================
