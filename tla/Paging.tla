------------------------------- MODULE Paging -------------------------------
(***************************************************************************)
(* files.ListNodes, page after page: a client follows next_cursor through  *)
(* a folder, or through the hits of a search, while other requests add,    *)
(* rename and remove nodes.                                                *)
(*                                                                         *)
(* Keys stand for name_key and nodes for their ids: both are compared.     *)
(***************************************************************************)
EXTENDS Naturals, FiniteSets

CONSTANTS Node,                  \* ids, positive numbers
          Folder,                \* those of kind folder
          Key,                   \* name keys, positive numbers
          Limit,                 \* what clients give as limit
          MaxLimit, DefaultLimit

ASSUME IdAssumption == Node \subseteq Nat \ {0} /\ Key \subseteq Nat \ {0} /\ Folder \subseteq Node
ASSUME LimitAssumption == Limit \subseteq Nat /\ MaxLimit \in Nat /\ DefaultLimit \in 1..MaxLimit

VARIABLES
  mode,    \* "folder" or "search"
  key,     \* name_key of the active nodes of the folder, or of the hits
  cursor,  \* what the client got as next_cursor, first the empty one
  done,    \* the client got a page without next_cursor
  seen, again,  \* what it was given at least once, and more than once
  passed,  \* files that a page which ended with a folder has passed over
  stayed   \* nodes there under one name since the first page was asked for

client == <<cursor, done, seen, again, passed>>
vars   == <<mode, key, client, stayed>>

NoCursor == [k |-> 0, i |-> 0]

TypeOK ==
  /\ mode \in {"folder", "search"}
  /\ key \in [DOMAIN key -> Key] /\ DOMAIN key \subseteq Node
  /\ cursor \in [k : Nat, i : Nat] /\ done \in BOOLEAN
  /\ again \subseteq seen /\ seen \subseteq Node /\ passed \subseteq Node
  /\ stayed \subseteq DOMAIN key

\* Siblings have different names; hits of a search need not.
Distinct(f) == \A m, n \in DOMAIN f : f[m] = f[n] => m = n

Init ==
  /\ mode \in {"folder", "search"}
  /\ key \in UNION {[N -> Key] : N \in SUBSET Node} /\ IsFiniteSet(DOMAIN key)
  /\ mode = "folder" => Distinct(key)
  /\ cursor = NoCursor /\ done = FALSE /\ seen = {} /\ again = {} /\ passed = {}
  /\ stayed = DOMAIN key

-----------------------------------------------------------------------------
\* Mutant: the ids break more than ties.
AfterEither(n) == key[n] > cursor.k \/ n > cursor.i

\* The WHERE clause of both queries: it does not know of kinds.
After(n) == key[n] > cursor.k \/ (key[n] = cursor.k /\ n > cursor.i)

ByName(m, n) == key[m] < key[n] \/ (key[m] = key[n] /\ m < n)

\* ORDER BY: folders first in a folder, by name in a search, then by id.
Before(m, n) ==
  LET place(x) == IF mode = "folder" /\ x \notin Folder THEN 1 ELSE 0 IN
  \/ place(m) < place(n)
  \/ place(m) = place(n) /\ ByName(m, n)

Position(rows, n) == Cardinality({m \in rows : Before(m, n)}) + 1
Row(rows, x)      == CHOOSE n \in rows : Position(rows, n) = x

PageSize(limit) == IF limit \in 1..MaxLimit THEN limit ELSE DefaultLimit

\* Mutant: the page ends with the last row that was fetched.
CursorBeyond(rows, size) == [k |-> key[Row(rows, size + 1)], i |-> Row(rows, size + 1)]

CursorOf(rows, size) == [k |-> key[Row(rows, size)], i |-> Row(rows, size)]

\* The files of a folder whose names sort before that of the folder last on the
\* page: they are not on the page, and the next ones begin after that name.
PassedBy(rows, size) ==
  {n \in rows \ Folder : /\ mode = "folder" /\ Row(rows, size) \in Folder
                         /\ ByName(n, Row(rows, size))}

\* One row more than the page is fetched, to see if there is a next one.
ListNodes(limit) ==
  LET size == PageSize(limit)
      rows == {n \in DOMAIN key : After(n)}
      page == {n \in rows : Position(rows, n) \leq size}
  IN
  /\ ~done
  /\ done' = (page = rows)
  /\ cursor' = IF page = rows THEN NoCursor ELSE CursorOf(rows, size)
  /\ seen' = seen \cup page
  /\ again' = again \cup (seen \cap page)
  /\ passed' = IF page = rows THEN passed ELSE passed \cup PassedBy(rows, size)
  /\ UNCHANGED <<mode, key, stayed>>

-----------------------------------------------------------------------------
(* Other requests, which add, rename, move, trash, restore and purge.      *)

Becomes(f) == /\ mode = "folder" => Distinct(f)
              /\ key' = f
              /\ UNCHANGED <<mode, client>>

\* A node comes, or is renamed.
Name(n, k) ==
  /\ ~done
  /\ Becomes([m \in DOMAIN key \cup {n} |-> IF m = n THEN k ELSE key[m]])
  /\ stayed' = IF n \in DOMAIN key /\ key[n] = k THEN stayed ELSE stayed \ {n}

Leave(n) ==
  /\ ~done
  /\ n \in DOMAIN key
  /\ Becomes([m \in DOMAIN key \ {n} |-> key[m]])
  /\ stayed' = stayed \ {n}

Page == \E limit \in Limit : ListNodes(limit)

Next == Page \/ \E n \in Node : Leave(n) \/ \E k \in Key : Name(n, k)

Spec == Init /\ [][Next]_vars

\* The client asks for the next page as long as there is one.
FairSpec == Spec /\ WF_vars(Page)

-----------------------------------------------------------------------------
(* Properties.                                                             *)

\* Whoever reads to the end has been given every node that was there all the
\* time, whatever came and went meanwhile, in a search and for the folders of a
\* folder.  Of its files, which are sorted behind folders but skipped by name, just
\* those are missing that a page passed over which ended with a folder.
NothingMissed == done => stayed \ seen \subseteq passed

\* Nothing is given twice, except folders: they come again after a page that
\* ended with a file whose name sorts before theirs.
NothingRepeated ==
  \A n \in stayed \cap again : mode = "folder" /\ n \in Folder

\* The cursor moves on with every page, so a client is never sent in a circle.
EveryListingEnds == <>done

-----------------------------------------------------------------------------
(* The inductive invariant behind NothingMissed and NothingRepeated.       *)

\* What stayed and was not given is still ahead of the cursor, or passed over.
AheadInv == \A n \in stayed \ seen : n \in passed \/ (~done /\ After(n))

\* What stayed and was given is behind the cursor, but for folders of a folder.
BehindInv == ~done => \A n \in stayed \cap seen :
                        After(n) => mode = "folder" /\ n \in Folder

PagingInv == /\ TypeOK /\ IsFiniteSet(DOMAIN key)
             /\ AheadInv /\ BehindInv /\ NothingRepeated
=============================================================================
