--------------------------- MODULE ConnPoolProofs ---------------------------
(***************************************************************************)
(* What can stall the connection pool, for every number of connections,    *)
(* listings and other requests.                                            *)
(*                                                                         *)
(* Whoever holds a connection is at work, unless it is a listing that      *)
(* waits for a second one, and such a listing holds one only (ConnInv).    *)
(* So if everybody waits, each connection has a listing of its own.  The   *)
(* holder of the mutex waits for connections only, so the mutex adds no    *)
(* cycle (MutexInv).                                                       *)
(***************************************************************************)
EXTENDS ConnPool, FiniteSetTheorems, TLAPS

LEMMA InitPool == Init => IInv
BY RequestAssumption, StatementAssumption
   DEF Init, IInv, TypeOK, Label, ConnInv, MutexInv

\* The invariant is kept, one step per action.
LEMMA NextPool == IInv /\ [Next]_vars => IInv'
<1> SUFFICES ASSUME IInv, [Next]_vars PROVE IInv'
  OBVIOUS
<1> USE RequestAssumption, StatementAssumption
    DEF IInv, TypeOK, Label, ConnInv, MutexInv, Goto
<1>1. ASSUME NEW r \in Request, NEW n \in 0..MaxStatements, Arrive(r, n) PROVE IInv'
  BY <1>1 DEF Arrive
<1>2. ASSUME NEW r \in Request, Lock(r) PROVE IInv'
  BY <1>2 DEF Lock
<1>3. ASSUME NEW r \in Request, NEW c \in Conn, Take(r, c) PROVE IInv'
  BY <1>3 DEF Take
<1>4. ASSUME NEW r \in Request, NextRow(r) PROVE IInv'
  BY <1>4 DEF NextRow, Nests
<1>5. ASSUME NEW r \in Request, EndRow(r) PROVE IInv'
  BY <1>5 DEF EndRow
<1>6. ASSUME NEW r \in Request, Release(r) PROVE IInv'
  BY <1>6 DEF Release, Released, Unlocked, Nests
<1>7. ASSUME NEW r \in Request, Disconnect(r) PROVE IInv'
  BY <1>7 DEF Disconnect, Unlocked
<1>8. CASE UNCHANGED vars
  BY <1>8 DEF vars
<1> QED
  BY <1>1, <1>2, <1>3, <1>4, <1>5, <1>6, <1>7, <1>8 DEF Next, Step

\* If everybody waits, somebody waits for a connection, so none is free; and only
\* listings wait while they hold one.
LEMMA WaitersAreListings == IInv => OnlyListingsStall
<1> SUFFICES ASSUME IInv,
                    NEW r \in Request, pc[r] # "idle",
                    \A q \in Request : pc[q] # "idle" => Waiting(q)
             PROVE  Stalled
  BY DEF OnlyListingsStall
<1>1. \E q \in Request : pc[q] \in {"take", "takeSecond"}
  <2>1. CASE pc[r] = "lock"
    <3>1. mu \in Request /\ pc[mu] \in {"take", "use"}
      BY <2>1, RequestAssumption DEF IInv, TypeOK, MutexInv, Waiting
    <3> QED
      BY <3>1 DEF Waiting
  <2> QED
    BY <2>1 DEF Waiting
<1>2. \A c \in Conn : conn[c] # Free
  BY <1>1 DEF Waiting
<1>3. ASSUME NEW c \in Conn
      PROVE  pc[conn[c]] = "takeSecond" /\ conn[c] \in Lister
  <2>1. conn[c] \in Request /\ pc[conn[c]] \in {"use", "takeSecond", "useSecond"}
    BY <1>2 DEF IInv, TypeOK, ConnInv
  <2>2. pc[conn[c]] = "takeSecond"
    BY <2>1 DEF Waiting
  <2> QED
    BY <2>1, <2>2 DEF IInv, ConnInv
<1>4. \A c, d \in Conn : conn[c] = conn[d] => c = d
  BY <1>2, <1>3 DEF IInv, ConnInv
<1> QED
  BY <1>3, <1>4 DEF Stalled

\* A stall takes as many listings as there are connections.
LEMMA StallTakesListings ==
  ASSUME IInv, Stalled, IsFiniteSet(Lister), IsFiniteSet(Conn)
  PROVE  Cardinality(Conn) <= Cardinality(Lister)
<1>1. conn \in Injection(Conn, Lister)
  BY DEF Stalled, IInv, TypeOK, Injection, IsInjective
<1> QED
  BY <1>1, FS_Injection

\* The inductive invariant: who holds connections and the mutex, and in what state.
THEOREM PoolInvariant == Spec => []IInv
BY InitPool, NextPool, PTL DEF Spec

\* All requests wait for each other only when every connection is held by a listing
\* of shares of its own, which waits for its second.
THEOREM PoolStallsOnlyInListings == Spec => []OnlyListingsStall
BY PoolInvariant, WaitersAreListings, PTL

\* With fewer listings than connections there is no stall.
THEOREM FewListingsNeverStall ==
  ASSUME IsFiniteSet(Conn), IsFiniteSet(Lister), Cardinality(Lister) < Cardinality(Conn)
  PROVE  Spec => []~Stalled
<1>1. Cardinality(Conn) \in Nat /\ Cardinality(Lister) \in Nat
  BY FS_CardinalityType
<1>2. IInv => ~Stalled
  BY <1>1, StallTakesListings
<1> QED
  BY <1>2, PoolInvariant, PTL
=============================================================================
