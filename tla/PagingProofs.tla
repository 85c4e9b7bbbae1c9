---------------------------- MODULE PagingProofs ----------------------------
(***************************************************************************)
(* Paging through a listing, for every size of page and every folder that  *)
(* changes between the pages.                                              *)
(*                                                                         *)
(* The lemmas before PageEnd are about one page: positions are counts of   *)
(* the rows before, so they put rows in the order of Before, without gaps, *)
(* and the row whose position is the size of the page divides it from the  *)
(* rest.  The lemmas after it carry PagingInv through the steps.           *)
(***************************************************************************)
EXTENDS Paging, FiniteSetTheorems, WellFoundedInduction, TLAPS

\* The rows before n.
RowsBefore(rows, n) == {m \in rows : Before(m, n)}

-----------------------------------------------------------------------------
(* One page.                                                               *)

\* Sets of positions have a least member.
LEMMA LeastPosition ==
  ASSUME NEW P \in SUBSET Nat, P # {}
  PROVE  \E p \in P : \A q \in P : p <= q
<1>1. PICK p \in P : \A q \in P : <<q, p>> \notin OpToRel(<, Nat)
  BY NatLessThanWellFounded, WFMin
<1>2. \A q \in P : ~(q < p)
  BY <1>1 DEF OpToRel
<1> QED
  BY <1>2

\* ORDER BY with the id as the last column is a strict total order.
LEMMA TotalOrder ==
  ASSUME TypeOK, NEW m \in DOMAIN key, NEW n \in DOMAIN key, NEW x \in DOMAIN key
  PROVE  /\ ~Before(n, n)
         /\ m = n \/ Before(m, n) \/ Before(n, m)
         /\ Before(m, n) /\ Before(n, x) => Before(m, x)
<1>1. \A r \in DOMAIN key : r \in Nat /\ key[r] \in Nat
  BY IdAssumption DEF TypeOK
<1> QED
  BY <1>1 DEF Before, ByName

\* A row that comes later has a larger position.
LEMMA PositionsGrow ==
  ASSUME TypeOK, NEW rows \in SUBSET DOMAIN key, IsFiniteSet(rows),
         NEW m \in rows, NEW n \in rows
  PROVE  /\ Position(rows, m) \in Nat \ {0}
         /\ Before(m, n) <=> Position(rows, m) < Position(rows, n)
         /\ Position(rows, m) = Position(rows, n) => m = n
<1>1. ASSUME NEW r \in rows
      PROVE  /\ IsFiniteSet(RowsBefore(rows, r)) /\ Cardinality(RowsBefore(rows, r)) \in Nat
             /\ Position(rows, r) = Cardinality(RowsBefore(rows, r)) + 1
             /\ Position(rows, r) \in Nat \ {0}
  BY FS_Subset, FS_CardinalityType DEF RowsBefore, Position
<1>2. ASSUME NEW q \in rows, NEW r \in rows, Before(q, r)
      PROVE  Position(rows, q) < Position(rows, r)
  <2>1. RowsBefore(rows, q) \subseteq RowsBefore(rows, r)
    BY <1>2, TotalOrder DEF RowsBefore
  <2>2. q \in RowsBefore(rows, r) /\ q \notin RowsBefore(rows, q)
    BY <1>2, TotalOrder DEF RowsBefore
  <2>3. /\ Cardinality(RowsBefore(rows, q)) <= Cardinality(RowsBefore(rows, r))
        /\ Cardinality(RowsBefore(rows, q)) # Cardinality(RowsBefore(rows, r))
    BY <1>1, <2>1, <2>2, FS_Subset
  <2> QED
    BY <1>1, <2>3
<1>3. m = n \/ Before(m, n) \/ Before(n, m)
  BY TotalOrder
<1> QED
  BY <1>1, <1>2, <1>3

\* There is a row at every position up to that of a given one.
LEMMA NoGaps ==
  ASSUME TypeOK, NEW rows \in SUBSET DOMAIN key, IsFiniteSet(rows),
         NEW last \in rows, NEW x \in Nat \ {0}, x <= Position(rows, last)
  PROVE  \E r \in rows : Position(rows, r) = x
<1> DEFINE place(r) == Position(rows, r)
           later == {r \in rows : place(r) >= x}
           P == {place(r) : r \in later}
<1>1. \A r \in rows : place(r) \in Nat \ {0}
  BY PositionsGrow
<1>2. PICK c \in later : \A r \in later : place(c) <= place(r)
  <2>1. P \in SUBSET Nat /\ P # {}
    BY <1>1
  <2>2. PICK p \in P : \A q \in P : p <= q
    BY <2>1, LeastPosition
  <2> QED
    BY <2>2
<1> SUFFICES ASSUME place(c) # x PROVE FALSE
  OBVIOUS
<1>3. c \in rows /\ place(c) > x
  BY <1>1
<1>4. RowsBefore(rows, c) = {r \in rows : place(r) < x}
  <2>1. \A r \in rows : Before(r, c) <=> place(r) < place(c)
    BY PositionsGrow
  <2>2. \A r \in rows : place(r) < place(c) <=> place(r) < x
    BY <1>1, <1>2, <1>3
  <2> QED
    BY <2>1, <2>2 DEF RowsBefore
<1>5. PICK d \in RowsBefore(rows, c) : \A r \in RowsBefore(rows, c) : place(r) <= place(d)
  <2> DEFINE Q == {x - place(r) : r \in RowsBefore(rows, c)}
  <2>1. RowsBefore(rows, c) # {}
    BY <1>1, <1>3, FS_EmptySet DEF RowsBefore, Position
  <2>2. Q \in SUBSET Nat /\ Q # {}
    BY <1>1, <1>4, <2>1
  <2>3. PICK p \in Q : \A q \in Q : p <= q
    BY <2>2, LeastPosition
  <2>4. PICK d \in RowsBefore(rows, c) : p = x - place(d)
    BY <2>3
  <2>5. \A r \in RowsBefore(rows, c) : x - place(d) <= x - place(r)
    BY <2>3, <2>4
  <2> QED
    BY <1>1, <1>4, <2>4, <2>5
<1>6. d \in rows /\ place(d) < x
  BY <1>4
<1>7. RowsBefore(rows, c) = RowsBefore(rows, d) \cup {d}
  <2>1. ASSUME NEW r \in RowsBefore(rows, c) PROVE r \in RowsBefore(rows, d) \cup {d}
    <3>1. r \in rows /\ place(r) <= place(d)
      BY <1>4, <1>5
    <3>2. place(r) = place(d) => r = d
      BY <1>6, <3>1, PositionsGrow
    <3>3. place(r) < place(d) => Before(r, d)
      BY <1>6, <3>1, PositionsGrow
    <3> QED
      BY <1>1, <1>6, <3>1, <3>2, <3>3 DEF RowsBefore
  <2>2. ASSUME NEW r \in RowsBefore(rows, d) PROVE r \in RowsBefore(rows, c)
    <3>1. r \in rows /\ place(r) < place(d)
      BY <1>6, PositionsGrow DEF RowsBefore
    <3> QED
      BY <1>1, <1>4, <1>6, <3>1
  <2> QED
    BY <2>1, <2>2
<1>8. place(c) = place(d) + 1
  <2>1. d \notin RowsBefore(rows, d) /\ IsFiniteSet(RowsBefore(rows, d))
    BY <1>6, TotalOrder, FS_Subset DEF RowsBefore
  <2>2. /\ Cardinality(RowsBefore(rows, c)) = Cardinality(RowsBefore(rows, d)) + 1
        /\ Cardinality(RowsBefore(rows, d)) \in Nat
    BY <1>7, <2>1, FS_AddElement, FS_CardinalityType
  <2> QED
    BY <2>2 DEF RowsBefore, Position
<1> QED
  BY <1>1, <1>3, <1>6, <1>8

\* The last row of a page that is not the last page: everything else on the page
\* comes before it, and everything that is not on the page comes after it.
LEMMA PageEnd ==
  ASSUME TypeOK, NEW rows \in SUBSET DOMAIN key, IsFiniteSet(rows), NEW size \in Nat \ {0},
         {n \in rows : Position(rows, n) <= size} # rows
  PROVE  /\ Row(rows, size) \in rows
         /\ \A n \in rows :
              IF Position(rows, n) <= size
                THEN n = Row(rows, size) \/ Before(n, Row(rows, size))
                ELSE Before(Row(rows, size), n)
<1>1. \A n \in rows : Position(rows, n) \in Nat
  BY PositionsGrow
<1>2. PICK last \in rows : size <= Position(rows, last)
  BY <1>1
<1>3. \E r \in rows : Position(rows, r) = size
  BY <1>2, NoGaps
<1>4. Row(rows, size) \in rows /\ Position(rows, Row(rows, size)) = size
  BY <1>3 DEF Row
<1> QED
  BY <1>1, <1>4, PositionsGrow

\* Pages have at least one row.
LEMMA SizeOfPage == \A limit \in Limit : PageSize(limit) \in Nat \ {0}
BY LimitAssumption DEF PageSize

-----------------------------------------------------------------------------
(* The invariant.                                                          *)

LEMMA InitPaging == Init => PagingInv
<1> SUFFICES ASSUME Init PROVE PagingInv
  OBVIOUS
<1>1. TypeOK
  BY DEF Init, TypeOK, NoCursor
<1>2. \A n \in DOMAIN key : After(n)
  BY <1>1, IdAssumption DEF Init, TypeOK, NoCursor, After
<1> QED
  BY <1>1, <1>2 DEF Init, PagingInv, AheadInv, BehindInv, NothingRepeated

\* The next page, unless it is the last: the cursor moves to its last row, and
\* what is on the page is behind it, what is not is ahead, but for the kinds.
LEMMA CursorMoves ==
  ASSUME PagingInv, NEW limit \in Limit, ListNodes(limit), ~done'
  PROVE  LET rows == {n \in DOMAIN key : After(n)}
             page == {n \in rows : Position(rows, n) <= PageSize(limit)} IN
         /\ cursor' \in [k : Nat, i : Nat]
         /\ \A n \in page : After(n)' => mode = "folder" /\ n \in Folder
         /\ \A n \in rows \ page : After(n)' \/ n \in passed'
         /\ \A n \in DOMAIN key \ rows : ~After(n)'
<1> DEFINE size == PageSize(limit)
           rows == {n \in DOMAIN key : After(n)}
           page == {n \in rows : Position(rows, n) <= size}
           c == Row(rows, size)
<1>1. /\ TypeOK /\ rows \in SUBSET DOMAIN key /\ IsFiniteSet(rows)
      /\ size \in Nat \ {0}
  BY SizeOfPage, FS_Subset DEF PagingInv
<1>2. /\ page # rows /\ cursor' = [k |-> key[c], i |-> c]
      /\ passed' = passed \cup PassedBy(rows, size) /\ UNCHANGED <<mode, key>>
  BY DEF ListNodes, CursorOf
<1>3. /\ c \in rows
      /\ \A n \in rows : IF n \in page THEN n = c \/ Before(n, c) ELSE Before(c, n)
  <2> HIDE DEF rows, size, c
  <2>1. /\ Row(rows, size) \in rows
        /\ \A n \in rows : IF Position(rows, n) <= size
                            THEN n = Row(rows, size) \/ Before(n, Row(rows, size))
                            ELSE Before(Row(rows, size), n)
    BY <1>1, <1>2, PageEnd
  <2> QED
    BY <2>1 DEF c
<1>4. /\ \A n \in DOMAIN key : n \in Nat /\ key[n] \in Nat
      /\ cursor.k \in Nat /\ cursor.i \in Nat
  BY <1>1, IdAssumption DEF TypeOK
<1>5. \A n \in rows : c \in DOMAIN key /\ n \in DOMAIN key
  BY <1>3
<1>6. \A n \in DOMAIN key : n \in rows <=> After(n)
  OBVIOUS
<1>7. \A n : After(n)' <=> key[n] > key[c] \/ (key[n] = key[c] /\ n > c)
  BY <1>2 DEF After
<1> HIDE DEF c, rows, size
<1>8. cursor' \in [k : Nat, i : Nat]
  BY <1>2, <1>3, <1>4, <1>5
<1>9. ASSUME NEW n \in page, After(n)' PROVE mode = "folder" /\ n \in Folder
  BY <1>3, <1>4, <1>5, <1>7, <1>9 DEF Before, ByName
<1>10. ASSUME NEW n \in rows \ page PROVE After(n)' \/ n \in passed'
  <2>1. Before(c, n) /\ c # n
    <3>1. ~Before(c, c)
      BY <1>1, <1>3, <1>5, TotalOrder
    <3> QED
      BY <1>3, <1>10, <3>1
  <2>2. ByName(c, n) \/ ByName(n, c)
    BY <1>4, <1>5, <1>10, <2>1 DEF ByName
  <2>3. CASE ByName(c, n)
    BY <1>4, <1>5, <1>7, <1>10, <2>3 DEF ByName
  <2>4. CASE ~ByName(c, n)
    <3>1. mode = "folder" /\ n \notin Folder /\ c \in Folder
      BY <2>1, <2>4 DEF Before
    <3> QED
      BY <1>2, <1>10, <2>2, <2>4, <3>1 DEF PassedBy, c
  <2> QED
    BY <2>3, <2>4
<1>11. ASSUME NEW n \in DOMAIN key \ rows PROVE ~After(n)'
  BY <1>3, <1>4, <1>5, <1>6, <1>7, <1>11 DEF After
<1> QED
  BY <1>8, <1>9, <1>10, <1>11 DEF rows, size

\* A page keeps the invariant.
LEMMA ListNodesPaging ==
  ASSUME PagingInv, NEW limit \in Limit, ListNodes(limit)
  PROVE  PagingInv'
<1> DEFINE rows == {n \in DOMAIN key : After(n)}
           page == {n \in rows : Position(rows, n) <= PageSize(limit)}
<1>1. /\ ~done /\ done' = (page = rows)
      /\ seen' = seen \cup page /\ again' = again \cup (seen \cap page)
      /\ UNCHANGED <<mode, key, stayed>>
      /\ done' => cursor' = NoCursor
      /\ passed' = IF page = rows THEN passed
                   ELSE passed \cup PassedBy(rows, PageSize(limit))
  BY DEF ListNodes
<1>2. /\ stayed \subseteq DOMAIN key /\ DOMAIN key \subseteq Node
      /\ TypeOK /\ IsFiniteSet(DOMAIN key)
  BY DEF PagingInv, TypeOK
<1>3. TypeOK'
  <2>1. cursor' \in [k : Nat, i : Nat]
    BY <1>1, CursorMoves DEF NoCursor
  <2> QED
    BY <1>1, <1>2, <2>1 DEF TypeOK, PassedBy
<1>4. AheadInv'
  <2> SUFFICES ASSUME NEW n \in stayed \ seen, n \notin page
               PROVE  n \in passed' \/ (~done' /\ After(n)')
    BY <1>1 DEF AheadInv
  <2>1. CASE n \in passed
    BY <1>1, <2>1
  <2>2. CASE After(n)
    <3>1. n \in rows \ page /\ ~done'
      BY <1>1, <1>2, <2>2
    <3>2. After(n)' \/ n \in passed'
      BY <3>1, CursorMoves
    <3> QED
      BY <3>1, <3>2
  <2> QED
    BY <2>1, <2>2 DEF PagingInv, AheadInv
<1>5. BehindInv'
  <2> SUFFICES ASSUME ~done', NEW n \in stayed \cap seen', After(n)'
               PROVE  mode = "folder" /\ n \in Folder
    BY <1>1 DEF BehindInv
  <2>1. n \in DOMAIN key
    BY <1>2
  <2>2. CASE n \in page
    BY <2>2, CursorMoves
  <2>3. CASE n \notin rows
    BY <2>1, <2>3, CursorMoves
  <2>4. CASE n \in rows \ page
    BY <1>1, <2>4 DEF PagingInv, BehindInv
  <2> QED
    BY <2>2, <2>3, <2>4
<1>6. NothingRepeated'
  <2> SUFFICES ASSUME NEW n \in stayed \cap again' PROVE mode = "folder" /\ n \in Folder
    BY <1>1 DEF NothingRepeated
  <2>1. CASE n \in again
    BY <2>1 DEF PagingInv, NothingRepeated
  <2>2. CASE n \in seen \cap page
    BY <1>1, <2>2 DEF PagingInv, BehindInv
  <2> QED
    BY <1>1, <2>1, <2>2
<1> QED
  BY <1>1, <1>2, <1>3, <1>4, <1>5, <1>6 DEF PagingInv

\* Nodes come, go and are renamed: whatever stays keeps its key, and with it its
\* side of the cursor.
LEMMA OthersPaging ==
  ASSUME PagingInv, UNCHANGED <<mode, client>>, stayed' \subseteq stayed,
         key' \in [DOMAIN key' -> Key], DOMAIN key' \subseteq Node,
         IsFiniteSet(DOMAIN key'),
         \A m \in stayed' : m \in DOMAIN key' /\ key'[m] = key[m]
  PROVE  PagingInv'
<1>1. /\ cursor' = cursor /\ done' = done /\ seen' = seen /\ again' = again
      /\ mode' = mode /\ passed' = passed
  BY DEF client
<1>2. TypeOK'
  BY <1>1 DEF PagingInv, TypeOK
<1>3. \A m \in stayed' : After(m)' <=> After(m)
  BY <1>1 DEF After
<1> QED
  BY <1>1, <1>2, <1>3 DEF PagingInv, AheadInv, BehindInv, NothingRepeated

LEMMA NextPaging == PagingInv /\ [Next]_vars => PagingInv'
<1> SUFFICES ASSUME PagingInv, [Next]_vars PROVE PagingInv'
  OBVIOUS
<1>0. /\ key \in [DOMAIN key -> Key] /\ DOMAIN key \subseteq Node
      /\ IsFiniteSet(DOMAIN key) /\ stayed \subseteq DOMAIN key
  BY DEF PagingInv, TypeOK
<1>1. ASSUME NEW limit \in Limit, ListNodes(limit) PROVE PagingInv'
  BY <1>1, ListNodesPaging
<1>2. ASSUME NEW n \in Node, NEW k \in Key, Name(n, k) PROVE PagingInv'
  <2>1. /\ key' = [m \in DOMAIN key \cup {n} |-> IF m = n THEN k ELSE key[m]]
        /\ UNCHANGED <<mode, client>>
        /\ stayed' = IF n \in DOMAIN key /\ key[n] = k THEN stayed ELSE stayed \ {n}
    BY <1>2 DEF Name, Becomes
  <2>2. IsFiniteSet(DOMAIN key \cup {n})
    BY <1>0, FS_AddElement
  <2>3. /\ DOMAIN key' = DOMAIN key \cup {n} /\ key' \in [DOMAIN key' -> Key]
        /\ \A m \in stayed' : m \in DOMAIN key' /\ key'[m] = key[m]
    BY <1>0, <2>1
  <2> QED
    BY <1>0, <2>1, <2>2, <2>3, OthersPaging
<1>3. ASSUME NEW n \in Node, Leave(n) PROVE PagingInv'
  <2>1. /\ key' = [m \in DOMAIN key \ {n} |-> key[m]]
        /\ UNCHANGED <<mode, client>> /\ stayed' = stayed \ {n}
    BY <1>3 DEF Leave, Becomes
  <2>2. IsFiniteSet(DOMAIN key \ {n})
    BY <1>0, FS_RemoveElement
  <2>3. /\ DOMAIN key' = DOMAIN key \ {n} /\ key' \in [DOMAIN key' -> Key]
        /\ \A m \in stayed' : m \in DOMAIN key' /\ key'[m] = key[m]
    BY <1>0, <2>1
  <2> QED
    BY <1>0, <2>1, <2>2, <2>3, OthersPaging
<1>4. CASE UNCHANGED vars
  BY <1>0, <1>4, OthersPaging DEF vars
<1> QED
  BY <1>1, <1>2, <1>3, <1>4 DEF Next, Page

\* What a client that follows next_cursor was given is behind its cursor, and what
\* is to come is ahead of it, whatever others do to the listed nodes meanwhile.
THEOREM PagingInvariant == Spec => []PagingInv
BY InitPaging, NextPaging, PTL DEF Spec

\* At the end of the listing, every node that stayed was given, but for the very
\* files that pages which ended with a folder passed over.
THEOREM ListingIsComplete == Spec => []NothingMissed
<1>1. PagingInv => NothingMissed
  BY DEF PagingInv, AheadInv, NothingMissed
<1> QED
  BY <1>1, PagingInvariant, PTL

\* No node that stayed is given twice, but for folders of a folder.
THEOREM ListingHasNoDuplicates == Spec => []NothingRepeated
<1>1. PagingInv => NothingRepeated
  BY DEF PagingInv
<1> QED
  BY <1>1, PagingInvariant, PTL
=============================================================================
