---------------------------- MODULE BrowseProofs ----------------------------
(***************************************************************************)
(* Proofs about Browse: the download channels count what runs, a download  *)
(* finds no object only when its file has been purged, and a visitor gets  *)
(* only what the share showed.                                             *)
(***************************************************************************)
EXTENDS Browse, NodeTableProofs, FiniteSetTheorems

\* Only downloads of files get to a channel.
KindsRight ==
  \A p \in Visitor :
    /\ pc[p] \in {"admit", "open", "copy"} => job[p].what \in DOMAIN Slots
    /\ pc[p] \in {"open", "copy"} => job[p].node \in File
    /\ pc[p] = "read" /\ job[p].what = "list" => job[p].node # Target

\* A file in the table has its object.
ObjectsKept == File \cap DOMAIN nodes \subseteq objects

Running(k) == {p \in Visitor : pc[p] \in {"open", "copy"} /\ job[p].what = k}

BrowseInv == TypeOK /\ KindsRight /\ ObjectsKept /\ SlotsExact

LEMMA SlotKinds == DOMAIN Slots = {"public", "admin"} /\ \A k \in DOMAIN Slots : Slots[k] \in Nat
BY SlotsAssumption

LEMMA RunningFinite == \A k : IsFiniteSet(Running(k)) /\ Cardinality(Running(k)) \in Nat
<1> SUFFICES ASSUME NEW k PROVE IsFiniteSet(Running(k)) /\ Cardinality(Running(k)) \in Nat
  OBVIOUS
<1>1. Running(k) \in SUBSET Visitor  BY DEF Running
<1> QED BY <1>1, VisitorAssumption, FS_Subset, FS_CardinalityType

\* SlotsExact says this of each kind.
LEMMA SlotsCountRunning == SlotsExact <=> \A k \in DOMAIN Slots : used[k] = Cardinality(Running(k))
BY DEF SlotsExact, Running

-----------------------------------------------------------------------------
LEMMA NewRowType ==
  ASSUME NEW parent \in Node \cup {NoNode}, NEW kind \in {"file", "folder"},
         NEW name \in Name \cup {"root", "trash"}
  PROVE  NewRow(parent, kind, name) \in NodeRow
BY DEF NewRow, NodeRow

LEMMA InitHolds == Init => BrowseInv
<1> SUFFICES ASSUME Init PROVE BrowseInv
  OBVIOUS
<1> USE DEF Init
<1>1. SystemRows \in [System -> NodeRow]
  BY NewRowType DEF SystemRows
<1>2. Target \in Node /\ Target \in Name /\ Root \in Node /\ System \subseteq Node
  BY KindAssumption, NameAssumption, SystemNodesAssumption DEF System
<1>3. nodes \in [System \cup {Target} -> NodeRow]
  BY <1>1, <1>2, NewRowType DEF Put
<1>4. used \in [DOMAIN Slots -> Nat] /\ pc \in [Visitor -> Label] /\ job \in [Visitor -> Job]
  BY <1>2 DEF Label, Job, Idle
<1>5. TypeOK  BY <1>2, <1>3, <1>4 DEF TypeOK
<1>6. KindsRight  BY DEF KindsRight
<1>7. ObjectsKept  BY <1>3, KindAssumption DEF ObjectsKept
<1>8. \A k : Running(k) = {}  BY DEF Running
<1>9. SlotsExact  BY <1>8, FS_EmptySet, SlotsCountRunning
<1> QED BY <1>5, <1>6, <1>7, <1>9 DEF BrowseInv

-----------------------------------------------------------------------------
\* A handler's step: who runs, and what it does to the two tables.
LEMMA GotoQuiet ==
  ASSUME BrowseInv, NEW p \in Visitor, NEW l \in Label, Goto(p, l), UNCHANGED used,
         pc[p] \in {"open", "copy"} <=> l \in {"open", "copy"},
         l \in {"admit", "open", "copy"} => job[p].what \in DOMAIN Slots,
         l \in {"open", "copy"} => job[p].node \in File, l # "read"
  PROVE  BrowseInv'
<1> USE DEF Goto
<1>1. TypeOK'  BY DEF BrowseInv, TypeOK
<1>2. KindsRight'  BY DEF BrowseInv, TypeOK, KindsRight
<1>3. ObjectsKept'  BY DEF BrowseInv, ObjectsKept
<1>4. \A k : Running(k)' = Running(k)  BY DEF BrowseInv, TypeOK, Running
<1>5. SlotsExact'  BY <1>4 DEF BrowseInv, SlotsExact, Running
<1> QED BY <1>1, <1>2, <1>3, <1>5 DEF BrowseInv

LEMMA EndType ==
  ASSUME BrowseInv, NEW p \in Visitor, End(p), used' \in [DOMAIN Slots -> Nat]
  PROVE  TypeOK' /\ KindsRight' /\ ObjectsKept'
<1> USE DEF End
<1>0. Idle \in Job  BY SystemNodesAssumption DEF Idle, Job
<1>1. TypeOK'  BY <1>0 DEF BrowseInv, TypeOK, Label
<1>2. KindsRight'  BY DEF BrowseInv, TypeOK, KindsRight
<1>3. ObjectsKept'  BY DEF BrowseInv, ObjectsKept
<1> QED BY <1>1, <1>2, <1>3

LEMMA EndQuiet ==
  ASSUME BrowseInv, NEW p \in Visitor, End(p), UNCHANGED used,
         pc[p] \notin {"open", "copy"}
  PROVE  BrowseInv'
<1>1. TypeOK' /\ KindsRight' /\ ObjectsKept'  BY EndType DEF BrowseInv, TypeOK
<1>2. \A k : Running(k)' = Running(k)  BY DEF BrowseInv, TypeOK, Running, End
<1>3. SlotsExact'  BY <1>2 DEF BrowseInv, SlotsExact, Running
<1> QED BY <1>1, <1>3 DEF BrowseInv

\* A download that ends gives back its place.
LEMMA EndReleases ==
  ASSUME BrowseInv, NEW p \in Visitor, End(p), Release(p), pc[p] \in {"open", "copy"}
  PROVE  BrowseInv'
<1> DEFINE w == job[p].what
<1>1. w \in DOMAIN Slots  BY DEF BrowseInv, KindsRight
<1>2. /\ \A k : k # w => Running(k)' = Running(k)
      /\ \A k : k = w => Running(k)' = Running(k) \ {p}
      /\ p \in Running(w)
  <2>1. pc'[p] = "idle"  BY DEF BrowseInv, TypeOK, End
  <2>2. \A q \in Visitor \ {p} : pc'[q] = pc[q] /\ job'[q] = job[q]
    BY DEF BrowseInv, TypeOK, End
  <2>3. \A k : Running(k)' = {q \in Visitor \ {p} : pc[q] \in {"open", "copy"} /\ job[q].what = k}
    BY <2>1, <2>2 DEF Running
  <2>4. ASSUME NEW k, k # w PROVE Running(k)' = Running(k)  BY <2>3, <2>4 DEF Running
  <2>5. ASSUME NEW k, k = w PROVE Running(k)' = Running(k) \ {p}  BY <2>3, <2>5 DEF Running
  <2>6. p \in Running(w)  BY DEF Running
  <2> QED BY <2>4, <2>5, <2>6
<1>3. /\ \A k \in DOMAIN Slots : used[k] = Cardinality(Running(k))
      /\ used \in [DOMAIN Slots -> Nat]
  BY SlotsCountRunning DEF BrowseInv, TypeOK
<1>4. Cardinality(Running(w) \ {p}) = Cardinality(Running(w)) - 1
      /\ Cardinality(Running(w) \ {p}) \in Nat
  <2>1. IsFiniteSet(Running(w) \ {p})
        /\ Cardinality(Running(w) \ {p}) = Cardinality(Running(w)) - 1
    BY <1>2, RunningFinite, FS_RemoveElement
  <2> QED BY <2>1, FS_CardinalityType
<1>5. used' = [used EXCEPT ![w] = Cardinality(Running(w) \ {p})]
  BY <1>1, <1>3, <1>4 DEF Release
<1>6. used' \in [DOMAIN Slots -> Nat]  BY <1>3, <1>4, <1>5
<1>7. TypeOK' /\ KindsRight' /\ ObjectsKept'  BY <1>6, EndType
<1>8. \A k \in DOMAIN Slots : used'[k] = Cardinality(Running(k)')
  <2> SUFFICES ASSUME NEW k \in DOMAIN Slots PROVE used'[k] = Cardinality(Running(k)')
    OBVIOUS
  <2>1. CASE k = w
    <3>1. used'[k] = Cardinality(Running(w) \ {p})  BY <1>1, <1>3, <1>5, <2>1
    <3> QED BY <1>2, <2>1, <3>1
  <2>2. CASE k # w
    <3>1. used'[k] = used[k]  BY <1>3, <1>5, <2>2
    <3> QED BY <1>2, <1>3, <2>2, <3>1
  <2> QED BY <2>1, <2>2
<1>9. SlotsExact'  BY <1>8 DEF SlotsExact, Running
<1> QED BY <1>7, <1>9 DEF BrowseInv

\* A download that is admitted takes a place.
LEMMA AdmitHolds ==
  ASSUME BrowseInv, NEW p \in Visitor, Admit(p)
  PROVE  BrowseInv'
<1> DEFINE w == job[p].what
<1>0. pc[p] = "admit" /\ w \in DOMAIN Slots  BY DEF BrowseInv, KindsRight, Admit
<1>1. CASE End(p) /\ UNCHANGED used
  BY <1>0, <1>1, EndQuiet
<1>2. CASE /\ used' = [used EXCEPT ![w] = @ + 1] /\ Goto(p, "open")
           /\ job[p].node \in File
  <2> USE <1>2 DEF Goto
  <2>1. used \in [DOMAIN Slots -> Nat]  BY DEF BrowseInv, TypeOK
  <2>2. used' \in [DOMAIN Slots -> Nat]  BY <1>0, <2>1
  <2>3. TypeOK'  BY <2>2 DEF BrowseInv, TypeOK, Label
  <2>4. KindsRight'  BY <1>0 DEF BrowseInv, TypeOK, KindsRight
  <2>5. ObjectsKept'  BY DEF BrowseInv, ObjectsKept
  <2>6. /\ \A k : k # w => Running(k)' = Running(k)
        /\ Running(w)' = Running(w) \cup {p} /\ p \notin Running(w)
    BY <1>0 DEF BrowseInv, TypeOK, Running
  <2>7. Cardinality(Running(w) \cup {p}) = Cardinality(Running(w)) + 1
    BY <2>6, RunningFinite, FS_AddElement
  <2>8. \A k \in DOMAIN Slots : used'[k] = Cardinality(Running(k)')
    BY <1>0, <2>1, <2>6, <2>7, SlotsCountRunning DEF BrowseInv
  <2>9. SlotsExact'  BY <2>8 DEF SlotsExact, Running
  <2> QED BY <2>3, <2>4, <2>5, <2>9 DEF BrowseInv
<1> QED BY <1>1, <1>2 DEF Admit

\* A listing is answered: the handler keeps its page until that is sent.
LEMMA ListHolds ==
  ASSUME BrowseInv, NEW p \in Visitor, List(p)
  PROVE  BrowseInv'
<1> USE DEF List
<1>1. Listable(job[p]) \subseteq Node
  BY DEF BrowseInv, TypeOK, Listable, Children, Active
<1>2. [Idle EXCEPT !.given = Listable(job[p])] \in Job
  BY <1>1, SystemNodesAssumption DEF Idle, Job
<1>3. TypeOK'  BY <1>2 DEF BrowseInv, TypeOK, Label
<1>4. KindsRight'  BY DEF BrowseInv, TypeOK, KindsRight
<1>5. ObjectsKept'  BY DEF BrowseInv, ObjectsKept
<1>6. \A k : Running(k)' = Running(k)  BY DEF BrowseInv, TypeOK, Running
<1>7. SlotsExact'  BY <1>6 DEF BrowseInv, SlotsExact, Running
<1> QED BY <1>3, <1>4, <1>5, <1>7 DEF BrowseInv

LEMMA HandlerHolds ==
  ASSUME BrowseInv, NEW p \in Visitor, Handler(p)
  PROVE  BrowseInv'
<1>1. CASE Read(p)
  <2>1. CASE End(p) /\ UNCHANGED used
    BY <1>1, <2>1, EndQuiet DEF Read
  <2>2. CASE /\ Goto(p, "admit") /\ UNCHANGED used
             /\ job[p].what = "admin" \/ job[p].node = Target
    <3>1. job[p].what \in DOMAIN Slots
      BY <1>1, <2>2, SlotKinds DEF Read, BrowseInv, TypeOK, KindsRight, Job
    <3> QED BY <1>1, <2>2, <3>1, GotoQuiet DEF Read, Label
  <2>3. CASE Goto(p, "inside") /\ UNCHANGED used
    BY <1>1, <2>3, GotoQuiet DEF Read, Label
  <2> QED BY <1>1, <2>1, <2>2, <2>3 DEF Read
<1>2. CASE Inside(p)
  <2>1. CASE End(p) /\ UNCHANGED used
    BY <1>2, <2>1, EndQuiet DEF Inside
  <2>2. CASE Goto(p, "list") /\ UNCHANGED used
    BY <1>2, <2>2, GotoQuiet DEF Inside, Label
  <2>3. CASE Goto(p, "admit") /\ UNCHANGED used /\ job[p].what # "list"
    <3>1. job[p].what \in DOMAIN Slots
      BY <2>3, SlotKinds DEF BrowseInv, TypeOK, Job
    <3> QED BY <1>2, <2>3, <3>1, GotoQuiet DEF Inside, Label
  <2> QED BY <1>2, <2>1, <2>2, <2>3 DEF Inside
<1>3. CASE List(p)
  BY <1>3, ListHolds
<1>4. CASE Admit(p)
  BY <1>4, AdmitHolds
<1>5. CASE Open(p)
  <2>1. CASE Goto(p, "copy") /\ UNCHANGED used
    BY <1>5, <2>1, GotoQuiet DEF Open, Label, BrowseInv, KindsRight
  <2>2. CASE End(p) /\ Release(p)
    BY <1>5, <2>2, EndReleases DEF Open
  <2> QED BY <1>5, <2>1, <2>2 DEF Open
<1>6. CASE Copy(p)
  BY <1>6, EndReleases DEF Copy
<1>7. CASE Answer(p)
  BY <1>7, EndQuiet DEF Answer
<1> QED BY <1>1, <1>2, <1>3, <1>4, <1>5, <1>6, <1>7 DEF Handler

LEMMA BeginHolds ==
  ASSUME BrowseInv, NEW p \in Visitor, NEW what \in {"list", "public", "admin"},
         NEW n \in Folder \cup File, NEW search \in BOOLEAN, Begin(p, what, n, search)
  PROVE  BrowseInv'
<1> DEFINE l == IF what = "list" /\ n = Target THEN "list" ELSE "read"
<1> USE DEF Begin
<1>1. n \in Node  BY KindAssumption
<1>2. TypeOK'  BY <1>1 DEF BrowseInv, TypeOK, Label, Job
<1>3. KindsRight'  BY DEF BrowseInv, TypeOK, KindsRight
<1>4. ObjectsKept'  BY DEF BrowseInv, ObjectsKept
<1>5. \A k : Running(k)' = Running(k)  BY DEF BrowseInv, TypeOK, Running
<1>6. SlotsExact'  BY <1>5 DEF BrowseInv, SlotsExact, Running
<1> QED BY <1>2, <1>3, <1>4, <1>6 DEF BrowseInv

-----------------------------------------------------------------------------
\* The tree changes under the requests, which go on as they are.
LEMMA BecomesHolds ==
  ASSUME BrowseInv, NEW t, NEW strays, BecomesWith(t, strays),
         t \in [DOMAIN t -> NodeRow], DOMAIN t \subseteq Node,
         objects' \subseteq File, File \cap DOMAIN t \subseteq objects'
  PROVE  BrowseInv'
<1> USE DEF BecomesWith
<1>1. \A p \in Visitor : /\ job'[p].what = job[p].what /\ job'[p].node = job[p].node
                         /\ job'[p] \in Job
  BY DEF BrowseInv, TypeOK, Job
<1>2. job' \in [Visitor -> Job]  BY <1>1
<1>3. TypeOK'  BY <1>2 DEF BrowseInv, TypeOK
<1>4. KindsRight'  BY <1>1 DEF BrowseInv, KindsRight
<1>5. ObjectsKept'  BY DEF ObjectsKept
<1>6. \A k : Running(k)' = Running(k)  BY <1>1 DEF Running
<1>7. SlotsExact'  BY <1>6 DEF BrowseInv, SlotsExact, Running
<1> QED BY <1>3, <1>4, <1>5, <1>7 DEF BrowseInv

LEMMA PutType ==
  ASSUME BrowseInv, NEW n \in Folder \cup File, NEW parent \in DOMAIN nodes,
         NEW kind \in {"file", "folder"}, NEW t, t = Put(nodes, n, NewRow(parent, kind, n))
  PROVE  t \in [DOMAIN t -> NodeRow] /\ DOMAIN t = DOMAIN nodes \cup {n} /\ DOMAIN t \subseteq Node
<1>1. nodes \in [DOMAIN nodes -> NodeRow] /\ DOMAIN nodes \subseteq Node
  BY DEF BrowseInv, TypeOK
<1>2. n \in Node /\ n \in Name  BY KindAssumption, NameAssumption
<1>3. NewRow(parent, kind, n) \in NodeRow  BY <1>1, <1>2, NewRowType
<1> QED BY <1>1, <1>2, <1>3 DEF Put

LEMMA TreeHolds == ASSUME BrowseInv, Tree PROVE BrowseInv'
<1>0. /\ nodes \in [DOMAIN nodes -> NodeRow] /\ DOMAIN nodes \subseteq Node
      /\ objects \subseteq File /\ File \cap DOMAIN nodes \subseteq objects
  BY DEF BrowseInv, TypeOK, ObjectsKept
<1>1. ASSUME NEW n \in Folder, NEW parent \in Parent, AddFolder(n, parent) PROVE BrowseInv'
  <2> DEFINE t == Put(nodes, n, NewRow(parent, "folder", n))
  <2>1. parent \in DOMAIN nodes /\ BecomesWith(t, {}) /\ UNCHANGED objects
    BY <1>1 DEF AddFolder, IsActiveFolder, Becomes
  <2>2. t \in [DOMAIN t -> NodeRow] /\ DOMAIN t = DOMAIN nodes \cup {n} /\ DOMAIN t \subseteq Node
    BY <2>1, PutType
  <2>3. File \cap DOMAIN t \subseteq objects'  BY <1>0, <2>1, <2>2, KindAssumption
  <2> HIDE DEF t
  <2> QED BY <1>0, <2>1, <2>2, <2>3, BecomesHolds
<1>2. ASSUME NEW n \in File, NEW parent \in Parent, AddFile(n, parent) PROVE BrowseInv'
  <2> DEFINE t == Put(nodes, n, NewRow(parent, "file", n))
  <2>1. parent \in DOMAIN nodes /\ BecomesWith(t, {}) /\ objects' = objects \cup {n}
    BY <1>2 DEF AddFile, Becomes
  <2>2. t \in [DOMAIN t -> NodeRow] /\ DOMAIN t = DOMAIN nodes \cup {n} /\ DOMAIN t \subseteq Node
    BY <2>1, PutType
  <2>3. File \cap DOMAIN t \subseteq objects' /\ objects' \subseteq File
    BY <1>0, <2>1, <2>2
  <2> HIDE DEF t
  <2> QED BY <2>1, <2>2, <2>3, BecomesHolds
<1>3. ASSUME NEW n \in Moved, NEW target \in Parent, MoveNode(n, target) PROVE BrowseInv'
  <2> DEFINE t == [nodes EXCEPT ![n].parent = target]
  <2>1. /\ n \in DOMAIN nodes /\ target \in Node /\ UNCHANGED objects
        /\ \E strays : BecomesWith(t, strays)
    BY <1>0, <1>3 DEF MoveNode, IsActiveFolder
  <2>2. [nodes[n] EXCEPT !.parent = target] \in NodeRow
    BY <1>0, <2>1 DEF NodeRow
  <2>3. t \in [DOMAIN nodes -> NodeRow]  BY <1>0, <2>2
  <2> HIDE DEF t
  <2> QED BY <1>0, <2>1, <2>3, BecomesHolds
<1>4. ASSUME NEW n \in Node, TrashNode(n) PROVE BrowseInv'
  <2> DEFINE t == Trashed(nodes, n)
  <2>1. n \in DOMAIN nodes /\ BecomesWith(t, {}) /\ UNCHANGED objects
    BY <1>4 DEF TrashNode, Becomes
  <2>2. t \in [DOMAIN nodes -> NodeRow]  BY <1>0, <2>1, TrashedType
  <2> HIDE DEF t
  <2> QED BY <1>0, <2>1, <2>2, BecomesHolds
<1>5. ASSUME NEW n \in Node, RestoreNode(n) PROVE BrowseInv'
  <2> DEFINE t == Restored(nodes, n)
  <2>1. n \in DOMAIN nodes /\ BecomesWith(t, {}) /\ UNCHANGED objects
    BY <1>5 DEF RestoreNode, Becomes
  <2>2. t \in [DOMAIN nodes -> NodeRow]  BY <1>0, <2>1, RestoredType
  <2> HIDE DEF t
  <2> QED BY <1>0, <2>1, <2>2, BecomesHolds
<1>6. ASSUME NEW n \in Node, PurgeNode(n) PROVE BrowseInv'
  <2> DEFINE t == Drop(nodes, {n})
  <2>1. BecomesWith(t, {}) /\ UNCHANGED objects
    BY <1>6 DEF PurgeNode, Becomes
  <2>2. t \in [DOMAIN nodes \ {n} -> NodeRow]  BY <1>0 DEF Drop
  <2> HIDE DEF t
  <2> QED BY <1>0, <2>1, <2>2, BecomesHolds
<1>7. ASSUME NEW n \in File, Unlink(n) PROVE BrowseInv'
  <2> USE <1>7 DEF Unlink, threads
  <2>1. TypeOK' /\ KindsRight' /\ SlotsExact'
    BY DEF BrowseInv, TypeOK, KindsRight, SlotsExact
  <2>2. ObjectsKept'  BY <1>0 DEF ObjectsKept
  <2> QED BY <2>1, <2>2 DEF BrowseInv
<1> QED BY <1>1, <1>2, <1>3, <1>4, <1>5, <1>6, <1>7 DEF Tree

LEMMA NextHolds == BrowseInv /\ [Next]_vars => BrowseInv'
<1> SUFFICES ASSUME BrowseInv, [Next]_vars PROVE BrowseInv'
  OBVIOUS
<1>1. CASE UNCHANGED vars
  BY <1>1 DEF vars, threads, BrowseInv, TypeOK, KindsRight, ObjectsKept, SlotsExact
<1>2. ASSUME NEW p \in Visitor, Request(p) PROVE BrowseInv'
  BY <1>2, BeginHolds DEF Request
<1> QED BY <1>1, <1>2, HandlerHolds, TreeHolds DEF Next

\* The inductive invariant holds in every reachable state.
THEOREM BrowseInvariant == Spec => []BrowseInv
<1> QED BY InitHolds, NextHolds, PTL DEF Spec

\* Type correctness: no channel counts below zero, requests are well formed.
THEOREM BrowseTypeCorrect == Spec => []TypeOK
BY BrowseInvariant, PTL DEF BrowseInv

\* The semaphores of downloads.ServeDownload neither leak nor release twice.
THEOREM SlotsStayExact == Spec => []SlotsExact
BY BrowseInvariant, PTL DEF BrowseInv

\* os.Open fails in a download only when the file was purged meanwhile.
THEOREM OnlyPurgedFilesAreEmpty == Spec => []EmptyOnlyIfPurged
<1>1. BrowseInv => EmptyOnlyIfPurged
  BY DEF BrowseInv, KindsRight, ObjectsKept, EmptyOnlyIfPurged
<1> QED BY <1>1, BrowseInvariant, PTL

-----------------------------------------------------------------------------
(* Why a visitor gets only what the share showed.  Between its two reads a *)
(* request works with a node that the share did not show: the node is not  *)
(* below the shared folder, and if it is trashed, so is all that is above  *)
(* it.  Only a move of trashed nodes could take it there unseen, and such  *)
(* a move counts as a showing.                                             *)

\* The system rows stay, files are leaves, and parents are rows (foreign key).
Sound(t) ==
  /\ Table(t)
  /\ \A s \in System : t[s].parent = NoNode /\ ~t[s].trashed
  /\ \A m \in DOMAIN t : /\ t[m].kind = "file" <=> m \in File
                         /\ t[m].parent \in (DOMAIN t \ File) \cup {NoNode}

\* Below(t, Target), without the case of a shared folder that has gone.
InShare(t, x) == Target \in DOMAIN t /\ x # Target /\ x \in Subtree(t, Target)

TrashedAbove(t, x) ==
  \A y \in DOMAIN t \ System : x \in Subtree(t, y) => t[y].trashed

Away(t, x) ==
  /\ ~InShare(t, x)
  /\ x \in DOMAIN t /\ t[x].trashed => TrashedAbove(t, x)

Unshown(p) == job[p].what # "admin" /\ ~job[p].shown

ShownInv ==
  /\ Sound(nodes)
  /\ \A p \in Visitor : Unshown(p) =>
       /\ pc[p] = "read"   => job[p].node \notin Shown(nodes)
       /\ pc[p] = "inside" => Away(nodes, job[p].node) /\ job[p].node # Target
       /\ pc[p] \in {"list", "admit", "open", "copy"} => job[p].node = Target

LEMMA BelowIsInShare == ASSUME NEW t, NEW x PROVE x \in Below(t, Target) <=> InShare(t, x)
BY DEF Below, InShare

LEMMA ShownIsInShare ==
  ASSUME NEW t, NEW x
  PROVE  x \in Shown(t) <=> InShare(t, x) /\ ~t[x].trashed
BY BelowIsInShare DEF Shown

\* So files are leaves, as the lemmas about statements need it.
LEMMA SoundFolders == ASSUME NEW t, Sound(t) PROVE Table(t) /\ FoldersAbove(t)
<1>1. \A m \in DOMAIN t : t[m].kind \in {"file", "folder"}
  BY DEF Sound, Table, NodeRow
<1> QED
  BY <1>1, NoNodeAssumption DEF Sound, FoldersAbove, Table

-----------------------------------------------------------------------------
\* Each statement keeps the table sound.
LEMMA PutSound ==
  ASSUME NEW t, Sound(t), NEW n \in Folder \cup File, n \notin DOMAIN t,
         NEW parent \in DOMAIN t \ File, NEW kind \in {"file", "folder"},
         kind = "file" <=> n \in File,
         NEW t2, t2 = Put(t, n, NewRow(parent, kind, n))
  PROVE  Sound(t2)
<1>1. n \in Node \ System /\ n \in Name
  BY KindAssumption, NameAssumption
<1>2. parent \in Node
  BY DEF Sound, Table
<1>3. NewRow(parent, kind, n) \in NodeRow
  BY <1>1, <1>2, NewRowType
<1>4. /\ DOMAIN t2 = DOMAIN t \cup {n} /\ t2[n] = NewRow(parent, kind, n)
      /\ \A m \in DOMAIN t : t2[m] = t[m]
  BY DEF Put
<1>5. t2 \in [DOMAIN t2 -> NodeRow]
  BY <1>3 DEF Put, Sound, Table
<1>6. t2[n].kind = kind /\ t2[n].parent = parent
  BY <1>4 DEF NewRow
<1>7. Table(t2)
  BY <1>1, <1>4, <1>5 DEF Sound, Table
<1>8. \A s \in System : t2[s].parent = NoNode /\ ~t2[s].trashed
  BY <1>1, <1>4 DEF Sound, Table
<1>9. \A m \in DOMAIN t2 : /\ t2[m].kind = "file" <=> m \in File
                           /\ t2[m].parent \in (DOMAIN t2 \ File) \cup {NoNode}
  BY <1>4, <1>6 DEF Sound
<1> QED
  BY <1>7, <1>8, <1>9 DEF Sound

\* A leaf is deleted.
LEMMA DropSound ==
  ASSUME NEW t, Sound(t), NEW n \in DOMAIN t \ System, Children(t, n) = {},
         NEW t2, t2 = Drop(t, {n})
  PROVE  Sound(t2)
<1>1. DOMAIN t2 = DOMAIN t \ {n} /\ \A m \in DOMAIN t2 : t2[m] = t[m]
  BY DEF Drop
<1>2. t2 \in [DOMAIN t2 -> NodeRow]
  BY DEF Drop, Sound, Table
<1>3. \A m \in DOMAIN t : t[m].parent # n
  BY DEF Children
<1>4. Table(t2)
  BY <1>1, <1>2 DEF Sound, Table
<1> QED
  BY <1>1, <1>3, <1>4 DEF Sound, Table

\* A row gets another parent, and trashed_at changes in its subtree: all three
\* of MoveNode, TrashNode and RestoreNode.
LEMMA ReparentSound ==
  ASSUME NEW t, Sound(t), NEW n \in DOMAIN t \ System, NEW target \in DOMAIN t \ File,
         NEW t2, t2 \in [DOMAIN t -> NodeRow], t2[n].parent = target,
         \A m \in DOMAIN t \ {n} : t2[m].parent = t[m].parent,
         \A m \in DOMAIN t : t2[m].kind = t[m].kind,
         \A s \in System : ~t2[s].trashed
  PROVE  Sound(t2)
<1>1. DOMAIN t2 = DOMAIN t
  OBVIOUS
<1>2. Table(t2)
  BY <1>1 DEF Sound, Table
<1>3. \A m \in DOMAIN t : /\ t2[m].kind = "file" <=> m \in File
                          /\ t2[m].parent \in (DOMAIN t \ File) \cup {NoNode}
  BY DEF Sound
<1>4. \A s \in System : t2[s].parent = NoNode
  BY DEF Sound, Table
<1> QED
  BY <1>1, <1>2, <1>3, <1>4 DEF Sound

\* No file is a system node, and no active folder is a file.
LEMMA FoldersAreNoFiles ==
  ASSUME NEW t, Sound(t)
  PROVE  /\ System \subseteq DOMAIN t \ File
         /\ \A n : IsActiveFolder(t, n) => n \in DOMAIN t \ File
         /\ \A n \in DOMAIN t : RestoreTarget(t, n) \in DOMAIN t \ File
<1>1. System \subseteq DOMAIN t \ File
  BY KindAssumption DEF Sound, Table
<1>2. \A n : IsActiveFolder(t, n) => n \in DOMAIN t \ File
  BY DEF IsActiveFolder, Sound
<1> QED
  BY <1>1, <1>2 DEF RestoreTarget, System

-----------------------------------------------------------------------------
\* What is away from the share stays away, unless it is shown.

\* Nothing joins another subtree when rows outside n's subtree stay in place.
LEMMA OutsideStays ==
  ASSUME NEW t, NEW t2, DOMAIN t2 = DOMAIN t, NEW n \in DOMAIN t, NEW y \in DOMAIN t,
         \A m \in DOMAIN t \ {n} : t2[m].parent = t[m].parent
  PROVE  Subtree(t2, y) \subseteq Subtree(t, y) \cup Subtree(t, n)
<1> DEFINE S == Subtree(t, y) \cup Subtree(t, n)
<1>1. S \subseteq DOMAIN t /\ y \in S /\ n \in S /\ Closed(t, S)
  BY SubtreeClosed DEF Closed
<1>2. Closed(t2, S)
  BY <1>1 DEF Closed
<1> QED
  BY <1>1, <1>2, SubtreeLeast

\* So a node that was away, and is not in the subtree that moves, stays away.
LEMMA AwayOutside ==
  ASSUME NEW t, NEW t2, DOMAIN t2 = DOMAIN t, NEW n \in DOMAIN t,
         \A m \in DOMAIN t \ {n} : t2[m].parent = t[m].parent,
         \A m \in DOMAIN t \ Subtree(t, n) : t2[m].trashed = t[m].trashed,
         NEW x, Away(t, x), x \notin Subtree(t, n)
  PROVE  Away(t2, x)
<1>1. \A y \in DOMAIN t : x \in Subtree(t2, y) => x \in Subtree(t, y)
  BY OutsideStays
<1>2. ~InShare(t2, x)
  BY <1>1 DEF Away, InShare
<1>3. ASSUME x \in DOMAIN t, t2[x].trashed, NEW y \in DOMAIN t \ System, x \in Subtree(t2, y)
      PROVE  t2[y].trashed
  <2>1. x \in Subtree(t, y) /\ t[y].trashed
    BY <1>1, <1>3 DEF Away, TrashedAbove
  <2>2. y \notin Subtree(t, n)
    BY <2>1, SubtreeTransitive
  <2> QED
    BY <2>1, <2>2
<1> QED
  BY <1>2, <1>3 DEF Away, TrashedAbove

\* A node that is active and not shown is away.
LEMMA ActiveAway ==
  ASSUME NEW t, NEW x, x \in DOMAIN t => ~t[x].trashed, x \notin Shown(t)
  PROVE  Away(t, x)
<1>1. ~InShare(t, x)
  <2> SUFFICES ASSUME InShare(t, x) PROVE FALSE
    OBVIOUS
  <2>1. x \in DOMAIN t
    BY SubtreeClosed DEF InShare
  <2> QED
    BY <2>1, ShownIsInShare
<1> QED
  BY <1>1 DEF Away

LEMMA TrashAway ==
  ASSUME NEW t, Sound(t), NEW n \in DOMAIN t \ System, NEW t2, t2 = Trashed(t, n),
         NEW x, Away(t, x)
  PROVE  Away(t2, x)
<1>1. /\ DOMAIN t2 = DOMAIN t /\ t2[n].parent = TrashRoot
      /\ \A m \in DOMAIN t \ {n} : t2[m].parent = t[m].parent
      /\ \A m \in DOMAIN t : t2[m].trashed = (t[m].trashed \/ m \in Subtree(t, n))
  BY SoundFolders, TrashedRows
<1>2. n \in Subtree(t, n) /\ Closed(t, Subtree(t, n)) /\ Subtree(t, n) \subseteq DOMAIN t
  BY SubtreeClosed
<1>3. ASSUME NEW y \in DOMAIN t \ System PROVE Subtree(t2, y) \subseteq Subtree(t, y)
  <2>1. y \in Subtree(t, y) /\ Closed(t, Subtree(t, y)) /\ Subtree(t, y) \subseteq DOMAIN t
    BY SubtreeClosed
  <2>2. TrashRoot \notin Subtree(t, y)
    BY SystemAbove DEF Sound, System
  <2>3. Closed(t2, Subtree(t, y))
    BY <1>1, <2>1, <2>2 DEF Closed
  <2> QED
    BY <1>1, <2>1, <2>3, SubtreeLeast
<1>4. ~InShare(t2, x)
  <2>1. Target \notin System
    BY KindAssumption
  <2> QED
    BY <1>1, <1>3, <2>1 DEF Away, InShare
<1>5. CASE x \notin Subtree(t, n)
  <2>1. \A m \in DOMAIN t \ Subtree(t, n) : t2[m].trashed = t[m].trashed
    BY <1>1 DEF Sound, Table, NodeRow
  <2> QED
    BY <1>1, <1>5, <2>1, AwayOutside
<1>6. CASE x \in Subtree(t, n)
  <2> SUFFICES ASSUME NEW y \in DOMAIN t \ System, x \in Subtree(t2, y), y \notin Subtree(t, n)
               PROVE  FALSE
    BY <1>1, <1>4 DEF Away, TrashedAbove
  <2> DEFINE S == (DOMAIN t \ Subtree(t, n)) \ {TrashRoot}
  <2>1. ASSUME NEW m \in DOMAIN t, t2[m].parent \in S PROVE m \in S
    <3>1. m # n /\ t[m].parent \in S
      BY <1>1, <2>1
    <3>2. m \notin Subtree(t, n)
      BY <3>1, SubtreeParents
    <3>3. m # TrashRoot
      BY <3>1, NoNodeAssumption DEF Sound, Table, System
    <3> QED
      BY <3>2, <3>3
  <2>2. Closed(t2, S)
    BY <1>1, <2>1 DEF Closed
  <2>3. y \in S
    BY DEF System
  <2>4. Subtree(t2, y) \subseteq S
    BY <1>1, <2>2, <2>3, SubtreeLeast
  <2> QED
    BY <1>6, <2>4
<1> QED
  BY <1>5, <1>6

LEMMA RestoreAway ==
  ASSUME NEW t, Sound(t), NEW n \in DOMAIN t, NEW t2, t2 = Restored(t, n),
         NEW x, Away(t, x), x \notin Shown(t2)
  PROVE  Away(t2, x)
<1>1. /\ DOMAIN t2 = DOMAIN t
      /\ \A m \in DOMAIN t \ {n} : t2[m].parent = t[m].parent
      /\ \A m \in DOMAIN t : t2[m].trashed = (t[m].trashed /\ m \notin Subtree(t, n))
  BY SoundFolders, RestoredRows
<1>2. CASE x \in Subtree(t, n)
  BY <1>1, <1>2, ActiveAway
<1>3. CASE x \notin Subtree(t, n)
  <2>1. \A m \in DOMAIN t \ Subtree(t, n) : t2[m].trashed = t[m].trashed
    BY <1>1 DEF Sound, Table, NodeRow
  <2> QED
    BY <1>1, <1>3, <2>1, AwayOutside
<1> QED
  BY <1>2, <1>3

LEMMA MoveAway ==
  ASSUME NEW t, Sound(t), NEW n \in DOMAIN t \ System, NEW target \in Node,
         NEW t2, t2 = [t EXCEPT ![n].parent = target],
         NEW x, Away(t, x), x \notin Shown(t2),
         x \in Subtree(t, n) => ~t[n].trashed
  PROVE  Away(t2, x)
<1>1. /\ DOMAIN t2 = DOMAIN t
      /\ \A m \in DOMAIN t \ {n} : t2[m].parent = t[m].parent
      /\ \A m \in DOMAIN t : t2[m].trashed = t[m].trashed
  BY DEF Sound, Table, NodeRow
<1>2. CASE x \in Subtree(t, n)
  <2>1. x \in DOMAIN t => ~t[x].trashed
    BY <1>2 DEF Away, TrashedAbove
  <2> QED
    BY <1>1, <2>1, ActiveAway
<1>3. CASE x \notin Subtree(t, n)
  BY <1>1, <1>3, AwayOutside
<1> QED
  BY <1>2, <1>3

LEMMA PutAway ==
  ASSUME NEW t, Sound(t), NEW n \in Node, n \notin DOMAIN t, n # Target, NEW row,
         row.parent \in DOMAIN t, NEW t2, t2 = Put(t, n, row),
         NEW x, Away(t, x), x # n
  PROVE  Away(t2, x)
<1>1. /\ DOMAIN t2 = DOMAIN t \cup {n} /\ t2[n] = row
      /\ \A m \in DOMAIN t : t2[m] = t[m]
  BY DEF Put
<1>2. \A m \in DOMAIN t2 : t2[m].parent # n
  BY <1>1, NoNodeAssumption DEF Sound
<1>3. Subtree(t2, n) \subseteq {n}
  BY <1>1, <1>2, SubtreeLeast DEF Closed
<1>4. ASSUME NEW y \in DOMAIN t PROVE Subtree(t2, y) \subseteq Subtree(t, y) \cup {n}
  <2> DEFINE S == Subtree(t, y) \cup {n}
  <2>1. y \in S /\ S \subseteq DOMAIN t2 /\ Closed(t2, S)
    BY <1>1, <1>2, SubtreeClosed DEF Closed
  <2> QED
    BY <2>1, SubtreeLeast
<1>5. ~InShare(t2, x)
  BY <1>1, <1>4 DEF Away, InShare
<1>6. ASSUME x \in DOMAIN t2, t2[x].trashed, NEW y \in DOMAIN t2 \ System, x \in Subtree(t2, y)
      PROVE  t2[y].trashed
  BY <1>1, <1>3, <1>4, <1>6 DEF Away, TrashedAbove
<1> QED
  BY <1>5, <1>6 DEF Away, TrashedAbove

LEMMA PurgeAway ==
  ASSUME NEW t, NEW n \in DOMAIN t, Children(t, n) = {},
         NEW t2, t2 = Drop(t, {n}), NEW x, Away(t, x)
  PROVE  Away(t2, x)
<1>1. DOMAIN t2 = DOMAIN t \ {n} /\ \A m \in DOMAIN t2 : t2[m] = t[m]
  BY DEF Drop
<1>2. ASSUME NEW y \in DOMAIN t2 PROVE Subtree(t2, y) \subseteq Subtree(t, y)
  <2> DEFINE S == Subtree(t, y) \ {n}
  <2>1. y \in S /\ S \subseteq DOMAIN t2 /\ Closed(t2, S)
    BY <1>1, SubtreeClosed DEF Closed
  <2> QED
    BY <2>1, SubtreeLeast
<1>3. ~InShare(t2, x)
  BY <1>1, <1>2 DEF Away, InShare
<1>4. ASSUME x \in DOMAIN t2, t2[x].trashed, NEW y \in DOMAIN t2 \ System, x \in Subtree(t2, y)
      PROVE  t2[y].trashed
  BY <1>1, <1>2, <1>4 DEF Away, TrashedAbove
<1> QED
  BY <1>3, <1>4 DEF Away, TrashedAbove

-----------------------------------------------------------------------------
\* Every step keeps ShownInv.
LEMMA InitShown == Init => ShownInv
<1> SUFFICES ASSUME Init PROVE ShownInv
  OBVIOUS
<1> USE DEF Init
<1>1. /\ DOMAIN SystemRows = System
      /\ \A s \in System : /\ SystemRows[s].parent = NoNode /\ ~SystemRows[s].trashed
                           /\ SystemRows[s].kind = "folder"
      /\ \A s \in System : SystemRows[s] \in NodeRow
  BY NewRowType DEF SystemRows, NewRow
<1>2. Table(SystemRows)
  <2>1. SystemRows \in [System -> NodeRow]
    BY NewRowType DEF SystemRows
  <2> QED
    BY <1>1, <2>1, SystemNodesAssumption DEF Table, System
<1>3. Sound(SystemRows)
  BY <1>1, <1>2, KindAssumption DEF Sound
<1>4. Target \in Folder \cup File /\ Target \notin DOMAIN SystemRows /\ Target \notin File
      /\ Root \in DOMAIN SystemRows \ File
  BY <1>1, KindAssumption DEF System
<1>5. Sound(nodes)
  BY <1>3, <1>4, PutSound
<1> QED
  BY <1>5 DEF ShownInv

\* A step of a handler, which leaves the table and the other handlers alone.
LEMMA HandlerShown ==
  ASSUME BrowseInv, ShownInv, NEW p \in Visitor, UNCHANGED nodes,
         \A q \in Visitor \ {p} : pc'[q] = pc[q] /\ job'[q] = job[q],
         Unshown(p)' =>
           /\ pc'[p] = "read"   => job'[p].node \notin Shown(nodes)
           /\ pc'[p] = "inside" => Away(nodes, job'[p].node) /\ job'[p].node # Target
           /\ pc'[p] \in {"list", "admit", "open", "copy"} => job'[p].node = Target
  PROVE  ShownInv'
<1>1. Shown(nodes)' = Shown(nodes) /\ \A x : Away(nodes, x)' = Away(nodes, x)
  BY DEF Shown, Below, Away, InShare, TrashedAbove
<1>2. Sound(nodes)'
  BY DEF ShownInv
<1>3. ASSUME NEW q \in Visitor, Unshown(q)'
      PROVE  /\ pc'[q] = "read"   => job'[q].node \notin Shown(nodes)'
             /\ pc'[q] = "inside" => Away(nodes, job[q].node)' /\ job'[q].node # Target
             /\ pc'[q] \in {"list", "admit", "open", "copy"} => job'[q].node = Target
  <2>1. CASE q = p
    BY <1>1, <1>3, <2>1 DEF Away, InShare, TrashedAbove
  <2>2. CASE q # p
    <3>1. Unshown(q) /\ pc'[q] = pc[q] /\ job'[q] = job[q]
      BY <1>3, <2>2 DEF Unshown
    <3> QED
      BY <1>1, <3>1 DEF ShownInv, Away, InShare, TrashedAbove
  <2> QED
    BY <2>1, <2>2
<1> QED
  BY <1>2, <1>3 DEF ShownInv

LEMMA GotoShown ==
  ASSUME BrowseInv, ShownInv, NEW p \in Visitor, NEW l \in Label \ {"read"}, Goto(p, l),
         Unshown(p) =>
           /\ l = "inside" => Away(nodes, job[p].node) /\ job[p].node # Target
           /\ l \in {"list", "admit", "open", "copy"} => job[p].node = Target
  PROVE  ShownInv'
<1>1. /\ UNCHANGED <<nodes, job>> /\ pc'[p] = l
      /\ \A q \in Visitor \ {p} : pc'[q] = pc[q]
  BY DEF Goto, BrowseInv, TypeOK
<1>2. Unshown(p)' => Unshown(p)
  BY <1>1 DEF Unshown
<1> QED
  BY <1>1, <1>2, HandlerShown

LEMMA EndShown ==
  ASSUME BrowseInv, ShownInv, NEW p \in Visitor, End(p)
  PROVE  ShownInv'
<1>1. /\ UNCHANGED nodes /\ pc'[p] = "idle"
      /\ \A q \in Visitor \ {p} : pc'[q] = pc[q] /\ job'[q] = job[q]
  BY DEF End, BrowseInv, TypeOK
<1> QED
  BY <1>1, HandlerShown

LEMMA HandlersShown ==
  ASSUME BrowseInv, ShownInv, NEW p \in Visitor, Handler(p)
  PROVE  ShownInv'
<1> DEFINE x == job[p].node
<1>1. CASE Read(p)
  <2>1. CASE End(p)
    BY <2>1, EndShown
  <2>2. CASE Goto(p, "admit") /\ (job[p].what = "admin" \/ x = Target)
    BY <2>2, GotoShown DEF Label, Unshown
  <2>3. CASE Goto(p, "inside") /\ Found(x) /\ x # Target
    <3>1. Unshown(p) => Away(nodes, x)
      BY <1>1, <2>3, ActiveAway DEF Read, Found, ShownInv
    <3> QED
      BY <2>3, <3>1, GotoShown DEF Label
  <2> QED
    BY <1>1, <2>1, <2>2, <2>3 DEF Read
<1>2. CASE Inside(p)
  <2>1. CASE End(p)
    BY <2>1, EndShown
  <2>2. CASE x \in Below(nodes, Target) /\ \E l \in {"list", "admit"} : Goto(p, l)
    <3>1. ~Unshown(p)
      BY <1>2, <2>2, BelowIsInShare DEF Inside, ShownInv, Away
    <3> QED
      BY <2>2, <3>1, GotoShown DEF Label
  <2> QED
    BY <1>2, <2>1, <2>2 DEF Inside
<1>3. CASE Answer(p) \/ Copy(p)
  BY <1>3, EndShown DEF Answer, Copy
<1>4. CASE Admit(p)
  <2>1. CASE End(p)
    BY <2>1, EndShown
  <2>2. CASE Goto(p, "open")
    BY <1>4, <2>2, GotoShown DEF Admit, Label, ShownInv
  <2> QED
    BY <1>4, <2>1, <2>2 DEF Admit
<1>5. CASE Open(p)
  <2>1. CASE End(p)
    BY <2>1, EndShown
  <2>2. CASE Goto(p, "copy")
    BY <1>5, <2>2, GotoShown DEF Open, Label, ShownInv
  <2> QED
    BY <1>5, <2>1, <2>2 DEF Open
<1>6. CASE List(p)
  <2>1. /\ UNCHANGED nodes /\ pc'[p] = "answer"
        /\ \A q \in Visitor \ {p} : pc'[q] = pc[q] /\ job'[q] = job[q]
    BY <1>6 DEF List, BrowseInv, TypeOK
  <2> QED
    BY <2>1, HandlerShown
<1> QED
  BY <1>1, <1>2, <1>3, <1>4, <1>5, <1>6 DEF Handler

LEMMA BeginShown ==
  ASSUME BrowseInv, ShownInv, NEW p \in Visitor, NEW what \in {"list", "public", "admin"},
         NEW n, NEW search, Begin(p, what, n, search)
  PROVE  ShownInv'
<1>1. /\ UNCHANGED nodes
      /\ \A q \in Visitor \ {p} : pc'[q] = pc[q] /\ job'[q] = job[q]
      /\ pc'[p] = IF what = "list" /\ n = Target THEN "list" ELSE "read"
      /\ job'[p].node = n /\ job'[p].what = what
      /\ job'[p].shown = (what # "admin" /\ n \in Shown(nodes))
  BY DEF Begin, BrowseInv, TypeOK
<1> QED
  BY <1>1, HandlerShown DEF Unshown

\* The table becomes t: a request that does not note a showing has a node that
\* t does not show.
LEMMA BecomesShown ==
  ASSUME BrowseInv, ShownInv, NEW t, NEW strays, BecomesWith(t, strays), Sound(t),
         \A p \in Visitor :
           /\ pc[p] = "inside" /\ Away(nodes, job[p].node)
           /\ job[p].node \notin Shown(t) \cup strays
           => Away(t, job[p].node)
  PROVE  ShownInv'
<1>1. nodes' = t /\ UNCHANGED pc
  BY DEF BecomesWith
<1>2. Shown(nodes)' = Shown(t) /\ \A x : Away(nodes', x) <=> Away(t, x)
  BY <1>1 DEF Shown, Below
<1>3. ASSUME NEW p \in Visitor
      PROVE  /\ job'[p].what = job[p].what /\ job'[p].node = job[p].node
             /\ job'[p].shown =
                  (job[p].shown \/ (pc[p] \in {"read", "inside"} /\ job[p].what # "admin"
                                      /\ job[p].node \in Shown(t) \cup strays))
  BY DEF BecomesWith, BrowseInv, TypeOK, Job
<1>4. ASSUME NEW p \in Visitor, Unshown(p)'
      PROVE  /\ pc'[p] = "read"   => job'[p].node \notin Shown(nodes)'
             /\ pc'[p] = "inside" => Away(nodes', job'[p].node) /\ job'[p].node # Target
             /\ pc'[p] \in {"list", "admit", "open", "copy"} => job'[p].node = Target
  <2>1. /\ Unshown(p)
        /\ pc[p] \in {"read", "inside"} => job[p].node \notin Shown(t) \cup strays
    BY <1>3, <1>4 DEF Unshown
  <2> QED
    BY <1>1, <1>2, <1>3, <2>1 DEF ShownInv
<1>5. Sound(nodes')
  BY <1>1
<1> QED
  BY <1>4, <1>5 DEF ShownInv

LEMMA TreeShown == ASSUME BrowseInv, ShownInv, Tree PROVE ShownInv'
<1>0. Sound(nodes) /\ nodes \in [DOMAIN nodes -> NodeRow]
  BY DEF ShownInv, Sound, Table
<1>1. ASSUME NEW n \in Folder \cup File, Fresh(n), NEW parent \in DOMAIN nodes \ File,
             NEW kind \in {"file", "folder"}, kind = "file" <=> n \in File,
             Becomes(Put(nodes, n, NewRow(parent, kind, n)))
      PROVE  ShownInv'
  <2> DEFINE row == NewRow(parent, kind, n)
             t == Put(nodes, n, row)
  <2>1. Sound(t) /\ row.parent \in DOMAIN nodes /\ n \in Node
    BY <1>0, <1>1, PutSound, KindAssumption DEF Fresh, NewRow
  <2>2. ASSUME NEW p \in Visitor, pc[p] = "inside", Away(nodes, job[p].node)
        PROVE  Away(t, job[p].node)
    <3>1. n \notin DOMAIN nodes /\ n # Target /\ job[p].node # n
      BY <1>1, <2>2 DEF Fresh
    <3> QED
      BY <1>0, <2>1, <2>2, <3>1, PutAway
  <2> HIDE DEF t
  <2>3. BecomesWith(t, {})
    BY <1>1 DEF Becomes, t
  <2> QED
    BY <2>1, <2>2, <2>3, BecomesShown
<1>2. ASSUME NEW n \in Folder, NEW parent \in Parent, AddFolder(n, parent) PROVE ShownInv'
  BY <1>0, <1>1, <1>2, FoldersAreNoFiles, KindAssumption DEF AddFolder
<1>3. ASSUME NEW n \in File, NEW parent \in Parent, AddFile(n, parent) PROVE ShownInv'
  BY <1>1, <1>3 DEF AddFile
<1>4. ASSUME NEW n \in Moved, NEW target \in Parent, MoveNode(n, target) PROVE ShownInv'
  <2> DEFINE t == [nodes EXCEPT ![n].parent = target]
             strays == IF nodes[n].trashed THEN Subtree(nodes, n) ELSE {}
  <2>1. /\ n \in DOMAIN nodes \ System /\ target \in DOMAIN nodes \ File
        /\ BecomesWith(t, strays)
    BY <1>0, <1>4, FoldersAreNoFiles DEF MoveNode
  <2>2. target \in Node
    BY <1>0, <2>1 DEF Sound, Table
  <2>3. Sound(t)
    <3>1. t \in [DOMAIN nodes -> NodeRow]
      <4>1. [nodes[n] EXCEPT !.parent = target] \in NodeRow
        BY <1>0, <2>1, <2>2 DEF NodeRow
      <4> QED
        BY <1>0, <4>1
    <3>2. /\ t[n].parent = target
          /\ \A m \in DOMAIN nodes \ {n} : t[m] = nodes[m]
          /\ t[n].kind = nodes[n].kind
      BY <1>0, <2>1 DEF NodeRow
    <3>3. \A s \in System : ~t[s].trashed
      BY <1>0, <2>1, <3>2 DEF Sound, Table
    <3> HIDE DEF t
    <3> QED
      BY <1>0, <2>1, <3>1, <3>2, <3>3, ReparentSound
  <2>4. ASSUME NEW p \in Visitor, Away(nodes, job[p].node),
               job[p].node \notin Shown(t) \cup strays
        PROVE  Away(t, job[p].node)
    BY <1>0, <2>1, <2>2, <2>4, MoveAway
  <2> HIDE DEF t, strays
  <2> QED
    BY <2>1, <2>3, <2>4, BecomesShown
<1>5. ASSUME NEW n \in Node, TrashNode(n) PROVE ShownInv'
  <2> DEFINE t == Trashed(nodes, n)
  <2>1. n \in DOMAIN nodes \ System /\ BecomesWith(t, {})
    BY <1>5 DEF TrashNode, Becomes
  <2>2. t \in [DOMAIN nodes -> NodeRow]
    BY <1>0, <2>1, TrashedType DEF Sound, Table
  <2>3. Sound(t)
    <3>1. Subtree(nodes, n) \cap System = {}
      BY <1>0, <2>1, SystemAbove DEF Sound
    <3>2. \A s \in System : ~t[s].trashed
      BY <1>0, <2>1, <3>1, SoundFolders, TrashedRows DEF Sound, Table
    <3>3. TrashRoot \in DOMAIN nodes \ File
      BY <1>0, FoldersAreNoFiles DEF System
    <3> HIDE DEF t
    <3> QED
      BY <1>0, <2>1, <2>2, <3>2, <3>3, SoundFolders, TrashedRows, ReparentSound DEF t
  <2>4. \A p \in Visitor : Away(nodes, job[p].node) => Away(t, job[p].node)
    BY <1>0, <2>1, TrashAway
  <2> HIDE DEF t
  <2> QED
    BY <2>1, <2>3, <2>4, BecomesShown
<1>6. ASSUME NEW n \in Node, RestoreNode(n) PROVE ShownInv'
  <2> DEFINE t == Restored(nodes, n)
  <2>1. n \in DOMAIN nodes \ System /\ BecomesWith(t, {})
    BY <1>0, <1>6 DEF RestoreNode, Becomes, Sound
  <2>2. t \in [DOMAIN nodes -> NodeRow]
    BY <1>0, <2>1, RestoredType DEF Sound, Table
  <2>3. Sound(t)
    <3>1. \A s \in System : ~t[s].trashed
      BY <1>0, <2>1, SoundFolders, RestoredRows DEF Sound, Table
    <3>2. RestoreTarget(nodes, n) \in DOMAIN nodes \ File
      BY <1>0, <2>1, FoldersAreNoFiles
    <3> HIDE DEF t
    <3> QED
      BY <1>0, <2>1, <2>2, <3>1, <3>2, SoundFolders, RestoredRows, ReparentSound DEF t
  <2>4. ASSUME NEW p \in Visitor, Away(nodes, job[p].node), job[p].node \notin Shown(t)
        PROVE  Away(t, job[p].node)
    BY <1>0, <2>1, <2>4, RestoreAway
  <2> HIDE DEF t
  <2> QED
    BY <2>1, <2>3, <2>4, BecomesShown
<1>7. ASSUME NEW n \in Node, PurgeNode(n) PROVE ShownInv'
  <2> DEFINE t == Drop(nodes, {n})
  <2>1. /\ n \in DOMAIN nodes \ System /\ Children(nodes, n) = {}
        /\ BecomesWith(t, {})
    BY <1>7 DEF PurgeNode, Becomes
  <2>2. Sound(t)
    BY <1>0, <2>1, DropSound
  <2>3. \A p \in Visitor : Away(nodes, job[p].node) => Away(t, job[p].node)
    BY <2>1, PurgeAway
  <2> HIDE DEF t
  <2> QED
    BY <2>1, <2>2, <2>3, BecomesShown
<1>8. ASSUME NEW n \in File, Unlink(n) PROVE ShownInv'
  BY <1>8 DEF Unlink, threads, ShownInv, Unshown, Shown, Below, Away, InShare, TrashedAbove
<1> QED
  BY <1>2, <1>3, <1>4, <1>5, <1>6, <1>7, <1>8 DEF Tree

LEMMA NextShown == BrowseInv /\ ShownInv /\ [Next]_vars => ShownInv'
<1> SUFFICES ASSUME BrowseInv, ShownInv, [Next]_vars PROVE ShownInv'
  OBVIOUS
<1>1. CASE UNCHANGED vars
  BY <1>1 DEF vars, ShownInv, Unshown, Shown, Below, Away, InShare, TrashedAbove
<1>2. ASSUME NEW p \in Visitor, Request(p) PROVE ShownInv'
  BY <1>2, BeginShown DEF Request
<1> QED
  BY <1>1, <1>2, HandlersShown, TreeShown DEF Next

\* A listing is answered only by List.
LEMMA OnlyListLists ==
  ASSUME BrowseInv, [Next]_vars, NEW p \in Visitor, Lists(p)
  PROVE  List(p)
<1> USE DEF Lists
<1>1. CASE UNCHANGED vars
  BY <1>1 DEF vars, threads
<1>2. ASSUME NEW q \in Visitor, q # p, Request(q) \/ Handler(q) PROVE FALSE
  <2>1. pc'[p] = pc[p]
    BY <1>2 DEF BrowseInv, TypeOK, Request, Begin, Handler, Read, Inside, List, Answer,
                Admit, Open, Copy, Goto, End
  <2> QED
    BY <2>1
<1>3. CASE Request(p) \/ Handler(p)
  BY <1>3 DEF Request, Begin, Handler, Read, Inside, Answer, Admit, Open, Copy
<1>4. CASE Tree
  BY <1>4 DEF Tree, AddFolder, AddFile, MoveNode, TrashNode, RestoreNode, PurgeNode, Unlink,
              Becomes, BecomesWith, threads
<1> QED
  BY <1>1, <1>2, <1>3, <1>4 DEF Next

\* The active children of a folder of the share are of the share.
LEMMA ListedInShare ==
  ASSUME BrowseInv, ShownInv, NEW p \in Visitor, List(p), ~job[p].search,
         job[p].node \in {Target} \cup Below(nodes, Target)
  PROVE  job'[p].given \subseteq Share(nodes)
<1> DEFINE n == job[p].node
<1>1. job'[p].given = Children(nodes, n) \cap Active(nodes)
  BY DEF List, Listable, BrowseInv, TypeOK, Idle
<1>2. SUFFICES ASSUME NEW x \in Children(nodes, n) \cap Active(nodes)
               PROVE  x \in Share(nodes)
  BY <1>1
<1>3. /\ x \in DOMAIN nodes /\ nodes[x].parent = n /\ ~nodes[x].trashed
      /\ n \in Node /\ n \in DOMAIN nodes
  BY NoNodeAssumption DEF Children, Active, ShownInv, Sound, BrowseInv, TypeOK, Job
<1>4. Target \in DOMAIN nodes /\ n \in Subtree(nodes, Target)
  BY <1>3, SubtreeClosed DEF Below
<1>5. x \in Subtree(nodes, Target)
  BY <1>3, <1>4, SubtreeClosed DEF Closed
<1> QED
  BY <1>3, <1>4, <1>5 DEF Share, Shown, Below

\* What a visitor lists or downloads was in the share at some moment of the
\* request, although CheckNodeInShare reads the node and the tree one after the
\* other, while nodes are moved, trashed, restored and purged; and ListNodes gives
\* only what the share shows, unless it was given a search text or its folder has
\* left the share since.
THEOREM VisitorsSeeWhatWasShown == Spec => ServesWhatWasShown
<1> DEFINE Seen == \A p \in Visitor :
             /\ pc[p] \in {"list", "admit", "open", "copy"} /\ job[p].what # "admin"
                  => job[p].shown \/ job[p].node = Target
             /\ Lists(p) /\ ~job[p].search /\ job[p].node \in {Target} \cup Below(nodes, Target)
                  => job'[p].given \subseteq Share(nodes)
<1>1. BrowseInv /\ ShownInv /\ [Next]_vars => [Seen]_vars
  <2> SUFFICES ASSUME BrowseInv, ShownInv, [Next]_vars, NEW p \in Visitor
               PROVE  /\ pc[p] \in {"list", "admit", "open", "copy"} /\ job[p].what # "admin"
                           => job[p].shown \/ job[p].node = Target
                      /\ Lists(p) /\ ~job[p].search
                         /\ job[p].node \in {Target} \cup Below(nodes, Target)
                           => job'[p].given \subseteq Share(nodes)
    OBVIOUS
  <2>1. pc[p] \in {"list", "admit", "open", "copy"} /\ job[p].what # "admin"
          => job[p].shown \/ job[p].node = Target
    BY DEF ShownInv, Unshown
  <2>2. Lists(p) /\ ~job[p].search /\ job[p].node \in {Target} \cup Below(nodes, Target)
          => job'[p].given \subseteq Share(nodes)
    BY OnlyListLists, ListedInShare
  <2> QED
    BY <2>1, <2>2
<1> QED
  BY <1>1, InitShown, NextShown, BrowseInvariant, PTL DEF Spec, ServesWhatWasShown
=============================================================================
