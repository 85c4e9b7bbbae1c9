-------------------------- MODULE NodeTableProofs --------------------------
(***************************************************************************)
(* Facts about the table nodes and its statements, for every table: types, *)
(* what a subtree is, and which changes of parents keep every row below a  *)
(* system node; and about sums over columns.  Cited by the proofs about    *)
(* Uploads, FileTree and Browse.                                           *)
(***************************************************************************)
EXTENDS NodeTable, Functions, FiniteSetTheorems, WellFoundedInduction, TLAPS

Table(t) == t \in [DOMAIN t -> NodeRow] /\ System \subseteq DOMAIN t /\ DOMAIN t \subseteq Node

\* S contains the children of its members.
Closed(t, S) == \A m \in DOMAIN t : t[m].parent \in S => m \in S

-----------------------------------------------------------------------------
(* Types.                                                                  *)

\* TrashNode rewrites rows and keeps the set of ids.
LEMMA TrashedType ==
  ASSUME NEW t, t \in [DOMAIN t -> NodeRow], NEW n \in DOMAIN t, DOMAIN t \subseteq Node
  PROVE  Trashed(t, n) \in [DOMAIN t -> NodeRow]
<1>1. TrashRoot \in Node
  BY SystemNodesAssumption
<1>2. \A m \in DOMAIN t : t[m] \in NodeRow /\ [t[m] EXCEPT !.trashed = TRUE] \in NodeRow
  BY DEF NodeRow
<1>3. [t[n] EXCEPT !.trashed = TRUE, !.restore = t[n].parent, !.parent = TrashRoot]
        \in NodeRow
  BY <1>1 DEF NodeRow
<1> QED
  BY <1>2, <1>3 DEF Trashed

\* So does RestoreNode, whatever node it chose as the target.
LEMMA RestoredToType ==
  ASSUME NEW t, t \in [DOMAIN t -> NodeRow], NEW n \in DOMAIN t, NEW target \in Node
  PROVE  RestoredTo(t, n, target) \in [DOMAIN t -> NodeRow]
<1>1. \A m \in DOMAIN t : t[m] \in NodeRow /\ [t[m] EXCEPT !.trashed = FALSE] \in NodeRow
  BY DEF NodeRow
<1>2. [t[n] EXCEPT !.trashed = FALSE, !.restore = NoNode, !.parent = target] \in NodeRow
  BY DEF NodeRow
<1> QED
  BY <1>1, <1>2 DEF RestoredTo

\* The target RestoreNode chooses is a row of the table or ROOT.
LEMMA RestoredType ==
  ASSUME NEW t, t \in [DOMAIN t -> NodeRow], NEW n \in DOMAIN t, DOMAIN t \subseteq Node
  PROVE  Restored(t, n) \in [DOMAIN t -> NodeRow]
<1>1. RestoreTarget(t, n) \in Node
  BY SystemNodesAssumption DEF RestoreTarget, IsActiveFolder
<1> QED
  BY <1>1, RestoredToType DEF Restored

-----------------------------------------------------------------------------
(* Subtrees.                                                               *)

\* A subtree has its root, and the children of its members.
LEMMA SubtreeClosed ==
  ASSUME NEW t, NEW n \in DOMAIN t
  PROVE  /\ n \in Subtree(t, n) /\ Subtree(t, n) \subseteq DOMAIN t
         /\ Closed(t, Subtree(t, n))
  BY DEF Subtree, Closed

\* It is the least such set.
LEMMA SubtreeLeast ==
  ASSUME NEW t, NEW n, NEW S \in SUBSET DOMAIN t, n \in S, Closed(t, S)
  PROVE  Subtree(t, n) \subseteq S
  BY DEF Subtree, Closed

\* A system node is in no subtree but its own.
LEMMA SystemAbove ==
  ASSUME NEW t, Table(t), \A s \in System : t[s].parent = NoNode,
         NEW n \in DOMAIN t \ System
  PROVE  Subtree(t, n) \cap System = {}
<1> DEFINE S == DOMAIN t \ System
<1>1. Closed(t, S)
  <2> SUFFICES ASSUME NEW m \in DOMAIN t, t[m].parent \in S PROVE m \in S
    BY DEF Closed
  <2>1. t[m].parent # NoNode
    BY NoNodeAssumption DEF Table
  <2> QED
    BY <2>1
<1> QED
  BY <1>1, SubtreeLeast

\* A node is where its row says: members of a subtree but its root have their
\* parents there.
LEMMA SubtreeParents ==
  ASSUME NEW t, NEW n \in DOMAIN t, NEW m \in Subtree(t, n), m # n
  PROVE  t[m].parent \in Subtree(t, n)
<1> DEFINE S == Subtree(t, n) \ {m}
<1> SUFFICES ASSUME t[m].parent \notin Subtree(t, n) PROVE FALSE
  OBVIOUS
<1>1. n \in S /\ S \subseteq DOMAIN t /\ Closed(t, S)
  BY SubtreeClosed DEF Closed
<1>2. Subtree(t, n) \subseteq S
  BY <1>1, SubtreeLeast
<1> QED
  BY <1>2

LEMMA SubtreeTransitive ==
  ASSUME NEW t, NEW n \in DOMAIN t, NEW y \in Subtree(t, n)
  PROVE  Subtree(t, y) \subseteq Subtree(t, n)
BY SubtreeClosed, SubtreeLeast

\* A new row, which is no row's parent yet, changes nothing among the others.
LEMMA SubtreePut ==
  ASSUME NEW t, NEW n, n \notin DOMAIN t, NEW row, \A m \in DOMAIN t : t[m].parent # n,
         row.parent # n, NEW x \in DOMAIN t, NEW y \in DOMAIN t
  PROVE  y \in Subtree(Put(t, n, row), x) <=> y \in Subtree(t, x)
<1> DEFINE t2 == Put(t, n, row)
<1>1. /\ DOMAIN t2 = DOMAIN t \cup {n} /\ t2[n] = row
      /\ \A m \in DOMAIN t : t2[m] = t[m]
  BY DEF Put
<1> HIDE DEF t2
<1>2. Subtree(t2, x) \subseteq Subtree(t, x) \cup {n}
  <2> DEFINE S == Subtree(t, x) \cup {n}
  <2>1. x \in S /\ S \subseteq DOMAIN t2 /\ Closed(t2, S)
    BY <1>1, SubtreeClosed DEF Closed
  <2> QED
    BY <2>1, SubtreeLeast
<1>3. Subtree(t, x) \subseteq Subtree(t2, x)
  <2> DEFINE S == Subtree(t2, x) \ {n}
  <2>1. x \in S /\ S \subseteq DOMAIN t /\ Closed(t, S)
    BY <1>1, SubtreeClosed DEF Closed
  <2> QED
    BY <2>1, SubtreeLeast
<1> QED
  BY <1>2, <1>3 DEF t2

\* Rows with children are folders.
FoldersAbove(t) ==
  \A m \in DOMAIN t : t[m].parent \in DOMAIN t => t[t[m].parent].kind = "folder"

LEMMA FilesAreLeaves ==
  ASSUME NEW t, FoldersAbove(t), NEW n \in DOMAIN t, t[n].kind # "folder"
  PROVE  Subtree(t, n) = {n}
<1>1. Closed(t, {n})
  BY DEF FoldersAbove, Closed
<1> QED
  BY <1>1, SubtreeLeast, SubtreeClosed

\* What TrashNode and RestoreNode do to the columns: the parent of one row, and
\* trashed_at in its subtree.
LEMMA TrashedRows ==
  ASSUME NEW t, Table(t), FoldersAbove(t), NEW n \in DOMAIN t, NEW t2, t2 = Trashed(t, n)
  PROVE  /\ DOMAIN t2 = DOMAIN t
         /\ t2[n].parent = TrashRoot
         /\ \A m \in DOMAIN t \ {n} : t2[m].parent = t[m].parent
         /\ \A m \in DOMAIN t : /\ t2[m].kind = t[m].kind
                                /\ t2[m].trashed = (t[m].trashed \/ m \in Subtree(t, n))
<1>1. n \in Subtree(t, n)
  BY SubtreeClosed
<1>2. \A m \in DOMAIN t : t[m] \in NodeRow
  BY DEF Table
<1>3. /\ DOMAIN t2 = DOMAIN t
      /\ t2[n] = [t[n] EXCEPT !.trashed = TRUE, !.restore = t[n].parent, !.parent = TrashRoot]
  BY DEF Trashed
<1>4. \A m \in DOMAIN t \ {n} :
        t2[m] = IF m \in Subtree(t, n) THEN [t[m] EXCEPT !.trashed = TRUE] ELSE t[m]
  <2>1. CASE t[n].kind = "folder"
    BY <2>1 DEF Trashed
  <2>2. CASE t[n].kind # "folder"
    BY <2>2, FilesAreLeaves DEF Trashed
  <2> QED
    BY <2>1, <2>2
<1>5. /\ t2[n].parent = TrashRoot /\ t2[n].kind = t[n].kind
      /\ t2[n].trashed = (t[n].trashed \/ n \in Subtree(t, n))
  BY <1>1, <1>2, <1>3 DEF NodeRow
<1>6. ASSUME NEW m \in DOMAIN t \ {n}
      PROVE  /\ t2[m].parent = t[m].parent /\ t2[m].kind = t[m].kind
             /\ t2[m].trashed = (t[m].trashed \/ m \in Subtree(t, n))
  <2>1. t[m] \in NodeRow
    BY <1>2
  <2>2. CASE m \in Subtree(t, n)
    BY <1>4, <2>1, <2>2 DEF NodeRow
  <2>3. CASE m \notin Subtree(t, n)
    BY <1>4, <2>1, <2>3 DEF NodeRow
  <2> QED
    BY <2>2, <2>3
<1> QED
  BY <1>3, <1>5, <1>6

LEMMA RestoredToRows ==
  ASSUME NEW t, Table(t), FoldersAbove(t), NEW n \in DOMAIN t, NEW target,
         NEW t2, t2 = RestoredTo(t, n, target)
  PROVE  /\ DOMAIN t2 = DOMAIN t
         /\ t2[n].parent = target
         /\ \A m \in DOMAIN t \ {n} : t2[m].parent = t[m].parent
         /\ \A m \in DOMAIN t : /\ t2[m].kind = t[m].kind
                                /\ t2[m].trashed = (t[m].trashed /\ m \notin Subtree(t, n))
<1>1. n \in Subtree(t, n)
  BY SubtreeClosed
<1>2. \A m \in DOMAIN t : t[m] \in NodeRow
  BY DEF Table
<1>3. /\ DOMAIN t2 = DOMAIN t
      /\ t2[n] = [t[n] EXCEPT !.trashed = FALSE, !.restore = NoNode, !.parent = target]
  BY DEF RestoredTo
<1>4. \A m \in DOMAIN t \ {n} :
        t2[m] = IF m \in Subtree(t, n) THEN [t[m] EXCEPT !.trashed = FALSE] ELSE t[m]
  <2>1. CASE t[n].kind = "folder"
    BY <2>1 DEF RestoredTo
  <2>2. CASE t[n].kind # "folder"
    BY <2>2, FilesAreLeaves DEF RestoredTo
  <2> QED
    BY <2>1, <2>2
<1>5. /\ t2[n].parent = target /\ t2[n].kind = t[n].kind
      /\ t2[n].trashed = (t[n].trashed /\ n \notin Subtree(t, n))
  BY <1>1, <1>2, <1>3 DEF NodeRow
<1>6. ASSUME NEW m \in DOMAIN t \ {n}
      PROVE  /\ t2[m].parent = t[m].parent /\ t2[m].kind = t[m].kind
             /\ t2[m].trashed = (t[m].trashed /\ m \notin Subtree(t, n))
  <2>1. t[m] \in NodeRow
    BY <1>2
  <2>2. CASE m \in Subtree(t, n)
    BY <1>4, <2>1, <2>2 DEF NodeRow
  <2>3. CASE m \notin Subtree(t, n)
    BY <1>4, <2>1, <2>3 DEF NodeRow
  <2> QED
    BY <2>2, <2>3
<1> QED
  BY <1>3, <1>5, <1>6

LEMMA RestoredRows ==
  ASSUME NEW t, Table(t), FoldersAbove(t), NEW n \in DOMAIN t, NEW t2, t2 = Restored(t, n)
  PROVE  /\ DOMAIN t2 = DOMAIN t
         /\ t2[n].parent = RestoreTarget(t, n)
         /\ \A m \in DOMAIN t \ {n} : t2[m].parent = t[m].parent
         /\ \A m \in DOMAIN t : /\ t2[m].kind = t[m].kind
                                /\ t2[m].trashed = (t[m].trashed /\ m \notin Subtree(t, n))
BY RestoredToRows DEF Restored

-----------------------------------------------------------------------------
(* Tables whose rows are all below a system node.                          *)

\* Induction over the tree: a set with the system nodes that is closed under
\* children has every row.
LEMMA RootedElim ==
  ASSUME NEW t, RootedTable(t), NEW S \in SUBSET DOMAIN t, System \subseteq S, Closed(t, S)
  PROVE  S = DOMAIN t
<1> DEFINE Rest == DOMAIN t \ S
<1> SUFFICES ASSUME Rest # {} PROVE FALSE
  OBVIOUS
<1>1. PICK n \in Rest : t[n].parent \in DOMAIN t \ Rest
  BY DEF RootedTable
<1> QED
  BY <1>1 DEF Closed

\* And a table where that holds is rooted.
LEMMA RootedIntro ==
  ASSUME NEW t, System \subseteq DOMAIN t,
         \A S \in SUBSET DOMAIN t : System \subseteq S /\ Closed(t, S) => S = DOMAIN t
  PROVE  RootedTable(t)
<1> SUFFICES ASSUME NEW S \in SUBSET (DOMAIN t \ System), S # {},
                    \A n \in S : t[n].parent \notin DOMAIN t \ S
             PROVE  FALSE
  BY DEF RootedTable
<1> DEFINE Rest == DOMAIN t \ S
<1>1. System \subseteq Rest /\ Closed(t, Rest)
  BY DEF Closed
<1> QED
  BY <1>1

\* A row that goes to a parent outside its own subtree takes its descendants
\* along (TrashNode, RestoreNode; MoveNode if its walk is not overtaken).
LEMMA RootedReparent ==
  ASSUME NEW t, NEW t2, System \subseteq DOMAIN t, DOMAIN t2 = DOMAIN t, RootedTable(t),
         NEW n \in DOMAIN t, NEW target \in DOMAIN t \ Subtree(t, n),
         t2[n].parent = target, \A m \in DOMAIN t \ {n} : t2[m].parent = t[m].parent
  PROVE  RootedTable(t2)
<1> SUFFICES ASSUME NEW S \in SUBSET DOMAIN t, System \subseteq S, Closed(t2, S)
             PROVE  S = DOMAIN t
  BY RootedIntro
<1>1. CASE n \in S
  <2>1. Closed(t, S)
    BY <1>1 DEF Closed
  <2> QED
    BY <2>1, RootedElim
<1>2. CASE n \notin S
  <2> DEFINE S2 == S \cup Subtree(t, n)
  <2>1. target \notin S
    BY <1>2 DEF Closed
  <2>2. Closed(t, S2)
    BY SubtreeClosed DEF Closed
  <2>3. S2 \in SUBSET DOMAIN t
    BY SubtreeClosed
  <2>4. S2 = DOMAIN t
    BY <2>2, <2>3, RootedElim
  <2> QED
    BY <2>1, <2>4
<1> QED
  BY <1>1, <1>2

\* A change of other columns changes no subtree.
LEMMA RootedSame ==
  ASSUME NEW t, NEW t2, System \subseteq DOMAIN t, DOMAIN t2 = DOMAIN t, RootedTable(t),
         \A m \in DOMAIN t : t2[m].parent = t[m].parent
  PROVE  RootedTable(t2)
<1> SUFFICES ASSUME NEW S \in SUBSET DOMAIN t, System \subseteq S, Closed(t2, S)
             PROVE  S = DOMAIN t
  BY RootedIntro
<1>1. Closed(t, S)
  BY DEF Closed
<1> QED
  BY <1>1, RootedElim

\* A new row under a row of the table.
LEMMA RootedInsert ==
  ASSUME NEW t, System \subseteq DOMAIN t, RootedTable(t), NEW n, n \notin DOMAIN t,
         NEW row, row.parent \in DOMAIN t
  PROVE  RootedTable(Put(t, n, row))
<1> DEFINE t2 == Put(t, n, row)
<1>1. /\ DOMAIN t2 = DOMAIN t \cup {n} /\ t2[n] = row
      /\ \A m \in DOMAIN t : t2[m] = t[m]
  BY DEF Put
<1> HIDE DEF t2
<1> SUFFICES ASSUME NEW S \in SUBSET DOMAIN t2, System \subseteq S, Closed(t2, S)
             PROVE  S = DOMAIN t2
  BY <1>1, RootedIntro DEF t2
<1>2. Closed(t, S \cap DOMAIN t)
  BY <1>1 DEF Closed
<1>3. S \cap DOMAIN t = DOMAIN t
  BY <1>2, RootedElim
<1> QED
  BY <1>1, <1>3 DEF Closed

\* A whole subtree is deleted.
LEMMA RootedPurge ==
  ASSUME NEW t, Table(t), RootedTable(t), \A s \in System : t[s].parent = NoNode,
         NEW n \in DOMAIN t \ System
  PROVE  RootedTable(Drop(t, Subtree(t, n)))
<1> DEFINE t2 == Drop(t, Subtree(t, n))
<1>1. DOMAIN t2 = DOMAIN t \ Subtree(t, n) /\ \A m \in DOMAIN t2 : t2[m] = t[m]
  BY DEF Drop
<1>2. System \subseteq DOMAIN t2
  BY <1>1, SystemAbove DEF Table
<1> HIDE DEF t2
<1> SUFFICES ASSUME NEW S \in SUBSET DOMAIN t2, System \subseteq S, Closed(t2, S)
             PROVE  S = DOMAIN t2
  BY <1>2, RootedIntro DEF t2
<1>3. Closed(t, S \cup Subtree(t, n))
  BY <1>1, SubtreeClosed DEF Closed
<1>4. S \cup Subtree(t, n) = DOMAIN t
  BY <1>1, <1>3, SubtreeClosed, RootedElim
<1> QED
  BY <1>1, <1>4

-----------------------------------------------------------------------------
(* Sums over a column.  The library defines them by recursion over a set   *)
(* from which one member after another is chosen.  An induction over a     *)
(* finite set is the search for a smallest part where the claim fails.     *)

\* Induction over the finite sets, as the existence of a minimal one.
LEMMA MinimalSet ==
  ASSUME NEW S, IsFiniteSet(S), NEW C \in SUBSET SUBSET S, C # {}
  PROVE  \E T \in C : \A U \in C : U \subseteq T => U = T
<1>1. IsWellFoundedOn(StrictSubsetOrdering(S), SUBSET S)
  BY FS_StrictSubsetOrderingWellFounded, FS_FiniteSubsetsOfFinite
<1>2. PICK T \in C : \A U \in C : <<U, T>> \notin StrictSubsetOrdering(S)
  BY <1>1, WFMin
<1>3. \A U \in C : U \subseteq T => U = T
  BY <1>2 DEF StrictSubsetOrdering
<1> QED
  BY <1>3

\* g is the recursive function, on the parts of S, that the library sums f with.
Sums(f, g, S) ==
  g = [s \in SUBSET S |->
         IF s = {} THEN 0
         ELSE f[CHOOSE x \in s : TRUE] + g[s \ {CHOOSE x \in s : TRUE}]]

\* A recursive sum over S is one over each part of S.
LEMMA SumsUnfold ==
  ASSUME NEW f, NEW g, NEW S, Sums(f, g, S), NEW s \in SUBSET S
  PROVE  /\ s = {} => g[s] = 0
         /\ s # {} => /\ (CHOOSE x \in s : TRUE) \in s
                      /\ g[s] = f[CHOOSE x \in s : TRUE] + g[s \ {CHOOSE x \in s : TRUE}]
BY DEF Sums

\* Two recursive sums agree on every finite set that both are defined on.
LEMMA SumsAgree ==
  ASSUME NEW f, NEW g, NEW h, NEW S, NEW T, Sums(f, g, S), Sums(f, h, T),
         NEW s \in SUBSET (S \cap T), IsFiniteSet(s)
  PROVE  g[s] = h[s]
<1> DEFINE C == {r \in SUBSET s : g[r] # h[r]}
<1> SUFFICES ASSUME C # {} PROVE FALSE
  OBVIOUS
<1>1. PICK r \in C : \A q \in C : q \subseteq r => q = r
  <2>1. C \in SUBSET SUBSET s
    OBVIOUS
  <2> HIDE DEF C
  <2> QED
    BY <2>1, MinimalSet
<1>2. r # {}
  BY SumsUnfold
<1> DEFINE c == CHOOSE x \in r : TRUE
           q == r \ {c}
<1>3. /\ c \in r /\ g[r] = f[c] + g[q] /\ h[r] = f[c] + h[q]
  <2>1. r \in SUBSET S /\ r \in SUBSET T
    OBVIOUS
  <2> QED
    BY <1>2, <2>1, SumsUnfold
<1>4. q \in SUBSET s /\ q \subseteq r /\ q # r
  BY <1>3
<1>5. g[q] = h[q]
  BY <1>1, <1>4
<1> QED
  BY <1>3, <1>5

\* There is a recursive sum over each finite set: the sums over its smaller parts
\* make up the one over the smallest set without.
LEMMA SumsExist ==
  ASSUME NEW f, NEW S, IsFiniteSet(S)
  PROVE  \E g : Sums(f, g, S)
<1> DEFINE C == {r \in SUBSET S : ~ \E g : Sums(f, g, r)}
<1> SUFFICES ASSUME C # {} PROVE FALSE
  OBVIOUS
<1>1. PICK r \in C : \A q \in C : q \subseteq r => q = r
  <2>1. C \in SUBSET SUBSET S
    OBVIOUS
  <2> HIDE DEF C
  <2> QED
    BY <2>1, MinimalSet
<1> DEFINE part(q) == CHOOSE g : Sums(f, g, q)
           least(q) == CHOOSE x \in q : TRUE
           rest(q) == q \ {least(q)}
           g == [q \in SUBSET r |->
                   IF q = {} THEN 0
                   ELSE f[least(q)] + part(rest(q))[rest(q)]]
<1>2. ASSUME NEW q \in SUBSET r, q # r PROVE Sums(f, part(q), q)
  BY <1>1, <1>2
<1>3. ASSUME NEW q \in SUBSET r, q # {} PROVE rest(q) \in SUBSET r /\ rest(q) # r
  BY <1>3
<1>4. ASSUME NEW q \in SUBSET r, q # r PROVE g[q] = part(q)[q]
  <2>1. Sums(f, part(q), q)
    BY <1>2, <1>4
  <2> HIDE DEF part
  <2>2. CASE q = {}
    BY <2>1, <2>2, SumsUnfold
  <2>3. CASE q # {}
    <3>1. /\ rest(q) \subseteq q /\ rest(q) \in SUBSET r /\ rest(q) # r
          /\ part(q)[q] = f[least(q)] + part(q)[rest(q)]
      BY <1>3, <2>1, <2>3, SumsUnfold
    <3>2. Sums(f, part(rest(q)), rest(q))
      BY <1>2, <3>1
    <3>3. IsFiniteSet(rest(q))
      BY <3>1, FS_Subset
    <3>4. part(q)[rest(q)] = part(rest(q))[rest(q)]
      BY <2>1, <3>1, <3>2, <3>3, SumsAgree
    <3> QED
      BY <2>3, <3>1, <3>4
  <2> QED
    BY <2>2, <2>3
<1>5. \A q \in SUBSET r : q # {} => part(rest(q))[rest(q)] = g[rest(q)]
  BY <1>3, <1>4
<1>6. g = [q \in SUBSET r |-> IF q = {} THEN 0 ELSE f[least(q)] + g[rest(q)]]
  <2> DEFINE h == [q \in SUBSET r |-> IF q = {} THEN 0 ELSE f[least(q)] + g[rest(q)]]
  <2>1. ASSUME NEW q \in SUBSET r PROVE g[q] = h[q]
    <3>1. g[q] = IF q = {} THEN 0 ELSE f[least(q)] + part(rest(q))[rest(q)]
      OBVIOUS
    <3>2. h[q] = IF q = {} THEN 0 ELSE f[least(q)] + g[rest(q)]
      OBVIOUS
    <3>3. q # {} => part(rest(q))[rest(q)] = g[rest(q)]
      BY <1>5
    <3> HIDE DEF g, h, part, least, rest
    <3> QED
      BY <3>1, <3>2, <3>3
  <2> QED
    BY <2>1, Zenon
<1>7. Sums(f, g, r)
  BY <1>6 DEF Sums
<1> QED
  BY <1>7

\* The sum of f over a finite set is what one recursive sum says.
LEMMA SumDef ==
  ASSUME NEW f, NEW S, IsFiniteSet(S)
  PROVE  \E g : Sums(f, g, S) /\ SumFunctionOnSet(f, S) = g[S]
<1>1. SumFunctionOnSet(f, S) = (CHOOSE g : Sums(f, g, S))[S]
  BY DEF SumFunctionOnSet, FoldFunctionOnSet, MapThenFoldSet, Sums
<1> QED
  BY <1>1, SumsExist

\* Nothing to add.
LEMMA SumEmpty == \A f : SumFunctionOnSet(f, {}) = 0
BY SumDef, SumsUnfold, FS_EmptySet

\* Some member is added to the sum of the others.
LEMMA SumUnfold ==
  ASSUME NEW f, NEW S, IsFiniteSet(S), S # {}
  PROVE  \E c \in S : SumFunctionOnSet(f, S) = f[c] + SumFunctionOnSet(f, S \ {c})
<1>1. PICK g : Sums(f, g, S) /\ SumFunctionOnSet(f, S) = g[S]
  BY SumDef
<1> DEFINE c == CHOOSE x \in S : TRUE
<1>2. c \in S /\ g[S] = f[c] + g[S \ {c}]
  BY <1>1, SumsUnfold
<1> HIDE DEF c
<1>3. IsFiniteSet(S \ {c})
  BY FS_RemoveElement
<1>4. PICK h : Sums(f, h, S \ {c}) /\ SumFunctionOnSet(f, S \ {c}) = h[S \ {c}]
  BY <1>3, SumDef
<1>5. g[S \ {c}] = h[S \ {c}]
  BY <1>1, <1>3, <1>4, SumsAgree
<1> QED
  BY <1>1, <1>2, <1>4, <1>5

\* Natural numbers have a natural sum.
LEMMA SumNat ==
  ASSUME NEW f, NEW S, IsFiniteSet(S), \A x \in S : f[x] \in Nat
  PROVE  SumFunctionOnSet(f, S) \in Nat
<1> DEFINE C == {r \in SUBSET S : SumFunctionOnSet(f, r) \notin Nat}
<1> SUFFICES ASSUME C # {} PROVE FALSE
  OBVIOUS
<1>1. PICK r \in C : \A q \in C : q \subseteq r => q = r
  <2>1. C \in SUBSET SUBSET S
    OBVIOUS
  <2> HIDE DEF C
  <2> QED
    BY <2>1, MinimalSet
<1>2. r # {} /\ IsFiniteSet(r)
  <2>1. SumFunctionOnSet(f, {}) \in Nat
    BY SumEmpty
  <2> QED
    BY <2>1, FS_Subset
<1>3. PICK c \in r : SumFunctionOnSet(f, r) = f[c] + SumFunctionOnSet(f, r \ {c})
  BY <1>2, SumUnfold
<1>4. SumFunctionOnSet(f, r \ {c}) \in Nat /\ f[c] \in Nat
  BY <1>1
<1> QED
  BY <1>3, <1>4

\* Any member can be taken out.
LEMMA SumRemove ==
  ASSUME NEW f, NEW S, IsFiniteSet(S), \A x \in S : f[x] \in Nat, NEW y \in S
  PROVE  SumFunctionOnSet(f, S) = f[y] + SumFunctionOnSet(f, S \ {y})
<1> DEFINE total(r) == SumFunctionOnSet(f, r)
           C == {r \in SUBSET S : \E x \in r : total(r) # f[x] + total(r \ {x})}
<1> SUFFICES ASSUME C # {} PROVE FALSE
  OBVIOUS
<1>1. PICK r \in C : \A q \in C : q \subseteq r => q = r
  <2>1. C \in SUBSET SUBSET S
    OBVIOUS
  <2> HIDE DEF C
  <2> QED
    BY <2>1, MinimalSet
<1>2. PICK x \in r : total(r) # f[x] + total(r \ {x})
  BY <1>1
<1>3. IsFiniteSet(r)
  BY FS_Subset
<1>4. PICK c \in r : total(r) = f[c] + total(r \ {c})
  BY <1>2, <1>3, SumUnfold
<1>5. c # x
  BY <1>2, <1>4
<1>6. total(r \ {c}) = f[x] + total((r \ {c}) \ {x})
  <2>1. r \ {c} \notin C /\ r \ {c} \in SUBSET S
    BY <1>1
  <2> QED
    BY <1>5, <2>1
<1>7. total(r \ {x}) = f[c] + total((r \ {x}) \ {c})
  <2>1. r \ {x} \notin C /\ r \ {x} \in SUBSET S
    BY <1>1
  <2> QED
    BY <1>5, <2>1
<1>8. (r \ {c}) \ {x} = (r \ {x}) \ {c}
  OBVIOUS
<1>9. f[x] \in Nat /\ f[c] \in Nat /\ total((r \ {x}) \ {c}) \in Nat
  <2>1. IsFiniteSet((r \ {x}) \ {c}) /\ (r \ {x}) \ {c} \subseteq S
    BY <1>3, FS_RemoveElement
  <2> QED
    BY <2>1, SumNat
<1>10. total(r) = f[c] + (f[x] + total((r \ {x}) \ {c}))
  BY <1>4, <1>6, <1>8
<1>11. total(r) # f[x] + (f[c] + total((r \ {x}) \ {c}))
  BY <1>2, <1>7
<1> HIDE DEF total
<1> QED
  BY <1>9, <1>10, <1>11

\* A sum looks at nothing but the values.
LEMMA SumSame ==
  ASSUME NEW f, NEW h, NEW S, IsFiniteSet(S), \A x \in S : f[x] \in Nat /\ h[x] = f[x]
  PROVE  SumFunctionOnSet(h, S) = SumFunctionOnSet(f, S)
<1> DEFINE C == {r \in SUBSET S : SumFunctionOnSet(h, r) # SumFunctionOnSet(f, r)}
<1> SUFFICES ASSUME C # {} PROVE FALSE
  OBVIOUS
<1>1. PICK r \in C : \A q \in C : q \subseteq r => q = r
  <2>1. C \in SUBSET SUBSET S
    OBVIOUS
  <2> HIDE DEF C
  <2> QED
    BY <2>1, MinimalSet
<1>2. r # {} /\ IsFiniteSet(r)
  BY SumEmpty, FS_Subset
<1>3. PICK c \in r : SumFunctionOnSet(f, r) = f[c] + SumFunctionOnSet(f, r \ {c})
  BY <1>2, SumUnfold
<1>4. SumFunctionOnSet(h, r) = h[c] + SumFunctionOnSet(h, r \ {c})
  BY <1>2, SumRemove
<1>5. SumFunctionOnSet(h, r \ {c}) = SumFunctionOnSet(f, r \ {c})
  BY <1>1
<1> QED
  BY <1>3, <1>4, <1>5

\* Zeros do not count.
LEMMA SumZeros ==
  ASSUME NEW f, NEW S, IsFiniteSet(S), \A x \in S : f[x] \in Nat,
         NEW T \in SUBSET S, \A x \in S \ T : f[x] = 0
  PROVE  SumFunctionOnSet(f, S) = SumFunctionOnSet(f, T)
<1> DEFINE total(r) == SumFunctionOnSet(f, r)
           C == {r \in SUBSET S : T \subseteq r /\ total(r) # total(T)}
<1> SUFFICES ASSUME C # {} PROVE FALSE
  OBVIOUS
<1>1. PICK r \in C : \A q \in C : q \subseteq r => q = r
  <2>1. C \in SUBSET SUBSET S
    OBVIOUS
  <2> HIDE DEF C
  <2> QED
    BY <2>1, MinimalSet
<1>2. PICK x \in r : x \notin T
  OBVIOUS
<1>3. IsFiniteSet(r) /\ IsFiniteSet(r \ {x})
  BY FS_Subset
<1>4. total(r) = f[x] + total(r \ {x}) /\ f[x] = 0
  BY <1>2, <1>3, SumRemove
<1>5. total(r \ {x}) \in Nat
  BY <1>3, SumNat
<1>6. total(r \ {x}) = total(T)
  BY <1>1, <1>2
<1> HIDE DEF total
<1>7. total(r) = total(T)
  BY <1>4, <1>5, <1>6
<1> QED
  BY <1>7

\* One value changes.
LEMMA SumChange ==
  ASSUME NEW f, NEW h, NEW S, IsFiniteSet(S), \A x \in S : f[x] \in Nat,
         NEW y \in S, h[y] \in Nat, \A x \in S \ {y} : h[x] = f[x]
  PROVE  /\ SumFunctionOnSet(f, S) \in Nat /\ SumFunctionOnSet(h, S) \in Nat
         /\ SumFunctionOnSet(h, S) + f[y] = SumFunctionOnSet(f, S) + h[y]
<1>1. \A x \in S : h[x] \in Nat
  OBVIOUS
<1>2. IsFiniteSet(S \ {y})
  BY FS_RemoveElement
<1>3. /\ SumFunctionOnSet(f, S) \in Nat /\ SumFunctionOnSet(h, S) \in Nat
      /\ SumFunctionOnSet(f, S \ {y}) \in Nat
  BY <1>1, <1>2, SumNat
<1>4. SumFunctionOnSet(h, S \ {y}) = SumFunctionOnSet(f, S \ {y})
  BY <1>2, SumSame
<1>5. SumFunctionOnSet(h, S) = h[y] + SumFunctionOnSet(h, S \ {y})
  BY <1>1, SumRemove
<1>6. SumFunctionOnSet(f, S) = f[y] + SumFunctionOnSet(f, S \ {y})
  BY SumRemove
<1> QED
  BY <1>3, <1>4, <1>5, <1>6

\* One value comes.
LEMMA SumAdd ==
  ASSUME NEW f, NEW h, NEW S, IsFiniteSet(S), \A x \in S : f[x] \in Nat /\ h[x] = f[x],
         NEW y, y \notin S, h[y] \in Nat
  PROVE  /\ SumFunctionOnSet(f, S) \in Nat
         /\ SumFunctionOnSet(h, S \cup {y}) = SumFunctionOnSet(f, S) + h[y]
<1>1. IsFiniteSet(S \cup {y}) /\ (S \cup {y}) \ {y} = S
  BY FS_AddElement
<1>2. SumFunctionOnSet(h, S \cup {y}) = h[y] + SumFunctionOnSet(h, S)
  <2>1. \A x \in S \cup {y} : h[x] \in Nat
    OBVIOUS
  <2> QED
    BY <1>1, <2>1, SumRemove
<1>3. SumFunctionOnSet(h, S) = SumFunctionOnSet(f, S)
  BY SumSame
<1>4. SumFunctionOnSet(f, S) \in Nat
  BY SumNat
<1> QED
  BY <1>2, <1>3, <1>4

\* Taking values away makes no sum larger.
LEMMA SumPart ==
  ASSUME NEW f, NEW h, NEW S, IsFiniteSet(S), \A x \in S : f[x] \in Nat,
         NEW y, \A x \in S \ {y} : h[x] = f[x]
  PROVE  /\ SumFunctionOnSet(h, S \ {y}) \in Nat
         /\ SumFunctionOnSet(h, S \ {y}) <= SumFunctionOnSet(f, S)
<1>1. IsFiniteSet(S \ {y})
  BY FS_RemoveElement
<1>2. /\ SumFunctionOnSet(h, S \ {y}) = SumFunctionOnSet(f, S \ {y})
      /\ SumFunctionOnSet(f, S \ {y}) \in Nat
  BY <1>1, SumSame, SumNat
<1>3. CASE y \in S
  BY <1>2, <1>3, SumRemove
<1>4. CASE y \notin S
  <2>1. S \ {y} = S
    BY <1>4
  <2> QED
    BY <1>2, <2>1
<1> QED
  BY <1>3, <1>4
=============================================================================
