------------------------------- MODULE Browse -------------------------------
(***************************************************************************)
(* What a visitor of a public share reads: listings and downloads          *)
(* (CheckNodeInShare, ListNodes and downloads.ServeDownload), and the      *)
(* admin's downloads, while the tree changes under them.                   *)
(*                                                                         *)
(* A request has passed the checks of Shares on the share's row.  From     *)
(* there it reads the node, then the tree, then the children or the object *)
(* on disk, each in a statement or system call of its own.                 *)
(***************************************************************************)
EXTENDS NodeTable, Naturals, FiniteSets

CONSTANTS Folder, File,   \* node ids by kind
          Target,         \* the shared folder
          Visitor,        \* HTTP handler threads
          Offered,        \* bound: what comes to each of them
          Moved,          \* bound: the nodes that are moved
          Slots           \* per kind of download, how many may run at once

ASSUME KindAssumption ==
  Folder \cap File = {} /\ Folder \cup File = Node \ System /\ Target \in Folder
ASSUME NameAssumption == Folder \cup File \subseteq Name   \* no two share a name
ASSUME OfferedAssumption == Offered \in [Visitor -> SUBSET {"list", "public", "admin"}]
ASSUME VisitorAssumption == IsFiniteSet(Visitor)
ASSUME SlotsAssumption == Slots \in [{"public", "admin"} -> Nat \ {0}]

VARIABLES nodes,     \* table nodes
          objects,   \* files whose object is on disk
          used,      \* per kind of download, the occupied places of its channel
          pc, job    \* per handler: next step, and what it works with

threads == <<pc, job>>
vars    == <<nodes, objects, used, pc, job>>

\* search: a listing comes with a search text.  given: the page that it answers.
\* shown is not a local of the handler: it says whether the node was shown by the
\* share, or moved while in the trash, at some moment since the request began.
Job   == [what : {"list", "public", "admin"}, node : Node, search : BOOLEAN,
          given : SUBSET Node, shown : BOOLEAN]
Label == {"idle", "read", "inside", "list", "answer", "admit", "open", "copy"}

Idle == [what |-> "list", node |-> Root, search |-> FALSE, given |-> {}, shown |-> FALSE]

TypeOK ==
  /\ nodes \in [DOMAIN nodes -> NodeRow] /\ DOMAIN nodes \subseteq Node
  /\ objects \subseteq File
  /\ used \in [DOMAIN Slots -> Nat]
  /\ pc \in [Visitor -> Label]
  /\ job \in [Visitor -> Job]

Init ==
  /\ nodes = Put(SystemRows, Target, NewRow(Root, "folder", Target))
  /\ objects = {}
  /\ used = [k \in DOMAIN Slots |-> 0]
  /\ pc = [p \in Visitor |-> "idle"]
  /\ job = [p \in Visitor |-> Idle]

Below(t, n) == IF n \in DOMAIN t THEN Subtree(t, n) \ {n} ELSE {}

\* What the share shows: the active nodes below its folder.
Shown(t) == {n \in Below(t, Target) : ~t[n].trashed}

-----------------------------------------------------------------------------
(* Handlers.                                                               *)

Goto(p, l) == /\ pc' = [pc EXCEPT ![p] = l]
              /\ UNCHANGED <<nodes, objects, job>>

End(p) == /\ pc' = [pc EXCEPT ![p] = "idle"]
          /\ job' = [job EXCEPT ![p] = Idle]
          /\ UNCHANGED <<nodes, objects>>

\* A share goes with its folder (ON DELETE CASCADE).  A listing of the shared
\* folder itself is not checked any further.
Begin(p, what, n, search) ==
  /\ pc[p] = "idle" /\ what \in Offered[p]
  /\ what # "admin" => Target \in DOMAIN nodes
  /\ pc' = [pc EXCEPT ![p] = IF what = "list" /\ n = Target THEN "list" ELSE "read"]
  /\ job' = [job EXCEPT ![p] = [what |-> what, node |-> n, search |-> search, given |-> {},
                                shown |-> what # "admin" /\ n \in Shown(nodes)]]
  /\ UNCHANGED <<nodes, objects, used>>

\* Mutant: trashed_at is not looked at.
FoundInTrash(n) == n \in DOMAIN nodes

Found(n) == n \in DOMAIN nodes /\ ~nodes[n].trashed

\* GetNode.  The admin handler asks for a file, which ids say here.
Read(p) ==
  LET n == job[p].node IN
  /\ pc[p] = "read"
  /\ UNCHANGED used
  /\ IF ~Found(n) THEN End(p)
     ELSE Goto(p, IF job[p].what = "admin" \/ n = Target THEN "admit" ELSE "inside")

\* Is the node below the shared folder?  One recursive query.
Inside(p) ==
  /\ pc[p] = "inside"
  /\ UNCHANGED used
  /\ IF job[p].node \notin Below(nodes, Target) THEN End(p)
     ELSE Goto(p, IF job[p].what = "list" THEN "list" ELSE "admit")

Active(t) == {n \in DOMAIN t \ System : ~t[n].trashed}

\* Mutant: trashed_at is not looked at.
ListableWithTrash(j) == IF j.search THEN DOMAIN nodes \ System ELSE Children(nodes, j.node)

\* The rows that ListNodes looks for, as they are by now: the active children of
\* the folder or, with a search text, active nodes wherever they are.
Listable(j) == IF j.search THEN Active(nodes) ELSE Children(nodes, j.node) \cap Active(nodes)

\* Which of them match the text, and fit on a page, is left out: all are given.
List(p) ==
  /\ pc[p] = "list"
  /\ job' = [job EXCEPT ![p] = [Idle EXCEPT !.given = Listable(job[p])]]
  /\ pc' = [pc EXCEPT ![p] = "answer"]
  /\ UNCHANGED <<nodes, objects, used>>

\* The page is sent.
Answer(p) == pc[p] = "answer" /\ End(p) /\ UNCHANGED used

\* ServeDownload: a place in the channel, or ErrDownloadLimitReached.  A node
\* that is no file is turned away before.
Admit(p) ==
  LET k == job[p].what IN
  /\ pc[p] = "admit"
  /\ IF job[p].node \in File /\ used[k] < Slots[k]
       THEN used' = [used EXCEPT ![k] = @ + 1] /\ Goto(p, "open")
       ELSE UNCHANGED used /\ End(p)

Release(p) == used' = [used EXCEPT ![job[p].what] = @ - 1]

\* Mutant: the place is given back only after a copy.
OpenKeepsSlot(p) ==
  /\ pc[p] = "open"
  /\ IF job[p].node \in objects THEN Goto(p, "copy") ELSE End(p)
  /\ UNCHANGED used

\* The object may be gone by now; the handler then answers nothing, which
\* net/http turns into an empty 200.
Open(p) ==
  /\ pc[p] = "open"
  /\ IF job[p].node \in objects
       THEN Goto(p, "copy") /\ UNCHANGED used
       ELSE End(p) /\ Release(p)

\* Mutant: the place is given back by the copy and by the deferred function.
CopyReleasesTwice(p) ==
  /\ pc[p] = "copy" /\ End(p) /\ used' = [used EXCEPT ![job[p].what] = @ - 2]

\* The content is sent, or the visitor hangs up.  The open file outlives its
\* name, so a purge does not disturb this.
Copy(p) == pc[p] = "copy" /\ End(p) /\ Release(p)

-----------------------------------------------------------------------------
(* The files service and uploads, in single steps (FileTree has the finer  *)
(* ones).                                                                  *)

\* The table becomes t while requests are under way; strays are the trashed nodes
\* that MoveNode takes elsewhere and leaves trashed.
BecomesWith(t, strays) ==
  /\ nodes' = t
  /\ job' = [p \in Visitor |->
               [job[p] EXCEPT !.shown =
                  @ \/ (pc[p] \in {"read", "inside"} /\ job[p].what # "admin"
                           /\ job[p].node \in Shown(t) \cup strays)]]
  /\ UNCHANGED <<used, pc>>

Becomes(t) == BecomesWith(t, {})

\* Ids are new: nothing mentions them.
Fresh(n) == /\ n \notin DOMAIN nodes \cup objects
            /\ \A m \in DOMAIN nodes : nodes[m].restore # n
            /\ \A p \in Visitor : pc[p] # "idle" => n \notin {job[p].node, Target}

AddFolder(n, parent) ==
  /\ Fresh(n) /\ IsActiveFolder(nodes, parent)
  /\ Becomes(Put(nodes, n, NewRow(parent, "folder", n)))
  /\ UNCHANGED objects

\* Phase C of an upload: its folder may be in the trash by now.
AddFile(n, parent) ==
  /\ Fresh(n) /\ parent \in DOMAIN nodes /\ parent \notin File
  /\ Becomes(Put(nodes, n, NewRow(parent, "file", n)))
  /\ objects' = objects \cup {n}

MoveNode(n, target) ==
  /\ n \in DOMAIN nodes \ System
  /\ IsActiveFolder(nodes, target) /\ target \notin Subtree(nodes, n)
  /\ BecomesWith([nodes EXCEPT ![n].parent = target],
                 IF nodes[n].trashed THEN Subtree(nodes, n) ELSE {})
  /\ UNCHANGED objects

TrashNode(n) ==
  /\ n \in DOMAIN nodes \ System
  /\ Becomes(Trashed(nodes, n))
  /\ UNCHANGED objects

RestoreNode(n) ==
  /\ n \in DOMAIN nodes /\ nodes[n].trashed
  /\ RestoreTarget(nodes, n) \notin Subtree(nodes, n)
  /\ Becomes(Restored(nodes, n))
  /\ UNCHANGED objects

\* A folder with children goes after them here.
PurgeNode(n) ==
  /\ n \in DOMAIN nodes \ System
  /\ nodes[n].trashed /\ Children(nodes, n) = {}
  /\ Becomes(Drop(nodes, {n}))
  /\ UNCHANGED objects

\* Mutant: the purge removes the object and then deletes the row.
UnlinkTrashed(n) ==
  /\ n \in objects /\ (n \in DOMAIN nodes => nodes[n].trashed)
  /\ objects' = objects \ {n}
  /\ UNCHANGED <<nodes, used, threads>>

\* The purge handler removes the object of the row it deleted, soon or never.
Unlink(n) ==
  /\ n \in objects \ DOMAIN nodes
  /\ objects' = objects \ {n}
  /\ UNCHANGED <<nodes, used, threads>>

-----------------------------------------------------------------------------
Handler(p) == \/ Read(p) \/ Inside(p) \/ List(p) \/ Answer(p)
              \/ Admit(p) \/ Open(p) \/ Copy(p)

\* Bound: only the shared folder is searched.
Request(p) ==
  \/ \E n \in Folder : \E search \in {FALSE, n = Target} : Begin(p, "list", n, search)
  \/ \E n \in File : Begin(p, "public", n, FALSE)
  \/ \E n \in File : Begin(p, "admin", n, FALSE)

\* Bound: no request names TRASH_ROOT as a parent.
Parent == Folder \cup {Root}

Tree ==
  \/ \E n \in Folder, parent \in Parent : AddFolder(n, parent)
  \/ \E n \in File, parent \in Parent : AddFile(n, parent)
  \/ \E n \in Moved, target \in Parent : MoveNode(n, target)
  \/ \E n \in Node : TrashNode(n) \/ RestoreNode(n) \/ PurgeNode(n)
  \/ \E n \in File : Unlink(n)

Next == (\E p \in Visitor : Request(p) \/ Handler(p)) \/ Tree

Spec == Init /\ [][Next]_vars

\* Handlers go on; the server's WriteTimeout ends even a copy that stalls.
FairSpec == Spec /\ \A p \in Visitor : WF_vars(Handler(p))

-----------------------------------------------------------------------------
(* Properties.                                                             *)

\* The places that a channel counts as taken are those of the downloads that
\* run, whichever way a download ends: none leaks, none is given back twice.
SlotsExact ==
  \A k \in DOMAIN Slots :
    used[k] = Cardinality({p \in Visitor : pc[p] \in {"open", "copy"} /\ job[p].what = k})

\* The shared folder and what it shows.
Share(t) == {Target} \cup Shown(t)

\* A listing is answered.
Lists(p) == pc[p] = "list" /\ pc'[p] = "answer"

\* A folder that a visitor lists, or a file that is downloaded, was in the share
\* at some moment of the request, although it was read, and then looked for below
\* the shared folder, while it moved and was trashed.  (Unless it was moved while
\* trashed, which MoveNode allows: it is in the share then, and not in its
\* listings.)  And a listing gives only what the share shows, unless its folder
\* has left the share since it was looked for, or it comes with a search text:
\* ListNodes then gives nodes of the whole tree, although the API promises those
\* "within shared folder".
ServesWhatWasShown ==
  [][\A p \in Visitor :
       /\ pc[p] \in {"list", "admit", "open", "copy"} /\ job[p].what # "admin"
            => job[p].shown \/ job[p].node = Target
       /\ Lists(p) /\ ~job[p].search /\ job[p].node \in {Target} \cup Below(nodes, Target)
            => job'[p].given \subseteq Share(nodes)]_vars

\* A download finds no object only if its file was purged after it was read: a
\* file that is in the tree, or in the trash, can be downloaded or restored.
EmptyOnlyIfPurged ==
  \A p \in Visitor :
    pc[p] = "open" /\ job[p].node \notin objects => job[p].node \notin DOMAIN nodes

\* Downloads that are refused need not be refused for ever: a full channel frees
\* a place.
SlotsFreed ==
  \A k \in DOMAIN Slots : (used[k] = Slots[k]) ~> (used[k] < Slots[k])
=============================================================================
