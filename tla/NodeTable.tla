----------------------------- MODULE NodeTable -----------------------------
(***************************************************************************)
(* The SQLite table `nodes` as a value, and the statements of the files    *)
(* service as operators on it.  A table is a function whose DOMAIN is the  *)
(* set of ids with a row; a statement that the schema's constraints reject *)
(* leaves the table as it is, so a caller tests the constraint first.      *)
(* Timestamps are dropped: trashed_at is kept as the Boolean `trashed`.    *)
(***************************************************************************)

CONSTANTS Node,       \* node ids, the two system nodes included
          Root,       \* files.RootNodeID
          TrashRoot,  \* files.TrashRootNodeID
          NoNode,     \* SQL NULL in parent_id and restore_parent_id
          Name        \* name keys that requests use

ASSUME SystemNodesAssumption == /\ {Root, TrashRoot} \subseteq Node
                                /\ Root # TrashRoot
ASSUME NoNodeAssumption == NoNode \notin Node

System == {Root, TrashRoot}

NodeRow == [parent  : Node \cup {NoNode},
            kind    : {"file", "folder"},
            name    : Name \cup {"root", "trash"},
            trashed : BOOLEAN,
            restore : Node \cup {NoNode}]

NewRow(parent, kind, name) ==
  [parent |-> parent, kind |-> kind, name |-> name,
   trashed |-> FALSE, restore |-> NoNode]

\* The two rows the first migration inserts.
SystemRows ==
  [n \in System |-> NewRow(NoNode, "folder", IF n = Root THEN "root" ELSE "trash")]

-----------------------------------------------------------------------------
(* Generic single-row statements, used for every table and directory.      *)

Put(t, k, v) == [x \in DOMAIN t \cup {k} |-> IF x = k THEN v ELSE t[x]]
Drop(t, ks)  == [x \in DOMAIN t \ ks |-> t[x]]

-----------------------------------------------------------------------------
(* Queries.                                                                *)

IsActiveFolder(t, n) ==
  n \in DOMAIN t /\ t[n].kind = "folder" /\ ~t[n].trashed

NameTaken(t, parent, name) ==
  \E m \in DOMAIN t : /\ t[m].parent = parent
                      /\ t[m].name = name
                      /\ ~t[m].trashed

\* The partial unique index over the active siblings.
UniqueSiblings(t) ==
  \A m1, m2 \in DOMAIN t :
    /\ ~t[m1].trashed /\ ~t[m2].trashed
    /\ t[m1].parent = t[m2].parent
    /\ t[m1].name = t[m2].name
    => m1 = m2

Children(t, n) == {m \in DOMAIN t : t[m].parent = n}

\* n and its descendants: the least set with n that is closed under children
\* (the recursive queries of TrashNode, RestoreNode and PurgeNode).
Subtree(t, n) ==
  LET Closed == {S \in SUBSET DOMAIN t :
                   n \in S /\ \A m \in DOMAIN t : t[m].parent \in S => m \in S}
  IN {m \in DOMAIN t : \A S \in Closed : m \in S}

\* Every row is below a system node: in any set of other rows there is one whose
\* parent is a row outside the set.  So there is no cycle, and no missing parent.
RootedTable(t) ==
  \A S \in SUBSET (DOMAIN t \ System) :
    S # {} => \E n \in S : t[n].parent \in DOMAIN t \ S

-----------------------------------------------------------------------------
(* Statements.                                                             *)

\* Mutant: the descendants keep their trashed_at.
TrashedAlone(t, n) ==
  [t EXCEPT ![n].trashed = TRUE, ![n].restore = t[n].parent, ![n].parent = TrashRoot]

\* TrashNode: n moves under TRASH_ROOT and remembers its parent; a folder takes
\* its descendants with it, which only get their trashed_at.
Trashed(t, n) ==
  LET below == IF t[n].kind = "folder" THEN Subtree(t, n) \ {n} ELSE {}
  IN [m \in DOMAIN t |->
        IF m = n THEN [t[n] EXCEPT !.trashed = TRUE, !.restore = t[n].parent,
                                   !.parent = TrashRoot]
        ELSE IF m \in below THEN [t[m] EXCEPT !.trashed = TRUE]
        ELSE t[m]]

RestoreTarget(t, n) ==
  IF IsActiveFolder(t, t[n].restore) THEN t[n].restore ELSE Root

\* Mutant: the descendants stay trashed.
RestoredAlone(t, n, target) ==
  [t EXCEPT ![n].trashed = FALSE, ![n].restore = NoNode, ![n].parent = target]

\* RestoreNode: the reverse, under a target that was chosen before.
RestoredTo(t, n, target) ==
  LET below == IF t[n].kind = "folder" THEN Subtree(t, n) \ {n} ELSE {}
  IN [m \in DOMAIN t |->
        IF m = n THEN [t[n] EXCEPT !.trashed = FALSE, !.restore = NoNode,
                                   !.parent = target]
        ELSE IF m \in below THEN [t[m] EXCEPT !.trashed = FALSE]
        ELSE t[m]]

Restored(t, n) == RestoredTo(t, n, RestoreTarget(t, n))
=============================================================================
