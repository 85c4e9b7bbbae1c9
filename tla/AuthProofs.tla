----------------------------- MODULE AuthProofs -----------------------------
(***************************************************************************)
(* The key cache of the verifier for any number of requests and keys.      *)
(*                                                                         *)
(* IInv of Auth is inductive: a fetch holds the lock (LockInv), so while a *)
(* reply is on its way nobody else stores one, and the reply can neither   *)
(* be older than the cache nor miss a key that a waiting request relies on *)
(* (ReplyInv, SteadyInv).                                                  *)
(***************************************************************************)
EXTENDS Auth, TLAPS

LEMMA InitIInv == Init => IInv
<1> SUFFICES ASSUME Init PROVE IInv
  OBVIOUS
<1>1. TypeOK
  <2>1. pc \in [Request -> Label] /\ reply \in [Request -> SUBSET Key]
        /\ pending \in [Request -> SUBSET Key]
    BY DEF Init, Label, Ended
  <2>2. published \subseteq Key /\ kid \in [Request -> Key] /\ hot \in BOOLEAN
    BY DEF Init
  <2> QED
    BY <2>1, <2>2, BoundAssumption DEF Init, TypeOK
<1>2. \A p \in Request : pc[p] = "failed"
  BY DEF Init
<1>3. LockInv /\ ReplyInv /\ SteadyInv /\ FetchFindsKey
  BY <1>2 DEF Init, LockInv, Fetching, ReplyInv, SteadyInv, FetchFindsKey
<1>4. CacheFaithful
  BY DEF Init, CacheFaithful
<1> QED
  BY <1>1, <1>3, <1>4 DEF IInv

\* Every action keeps the variables in their types.
LEMMA NextTypeOK == TypeOK /\ [Next]_vars => TypeOK'
<1> SUFFICES ASSUME TypeOK, [Next]_vars PROVE TypeOK'
  OBVIOUS
<1> USE BoundAssumption DEF TypeOK, Label, Ended, Goto
<1>1. ASSUME NEW p \in Request, NEW k \in Key, Arrive(p, k) PROVE TypeOK'
  BY <1>1 DEF Arrive
<1>2. ASSUME NEW p \in Request, Lookup(p) \/ Recheck(p) \/ RecheckOld(p) PROVE TypeOK'
  BY <1>2 DEF Lookup, Recheck, RecheckOld, Read, history
<1>3. ASSUME NEW p \in Request, Lock(p) PROVE TypeOK'
  BY <1>3 DEF Lock, Limited, Fetch, history
<1>4. ASSUME NEW p \in Request, Ask(p) PROVE TypeOK'
  BY <1>4 DEF Ask
<1>5. ASSUME NEW p \in Request, Receive(p) PROVE TypeOK'
  BY <1>5 DEF Receive, Stored, Forget
<1>6. ASSUME NEW p \in Request, FetchFails(p) PROVE TypeOK'
  BY <1>6 DEF FetchFails, Unlock, Forget
<1>7. ASSUME NEW p \in Request, NEW o \in Ended, Decide(p, o) PROVE TypeOK'
  BY <1>7 DEF Decide, history
<1>8. ASSUME NEW k \in Key, Rotate(k) PROVE TypeOK'
  BY <1>8 DEF Rotate
<1>9. CASE Tick
  BY <1>9 DEF Tick, history
<1>10. CASE Restart
  <2>1. pc' \in [Request -> Label] /\ reply' \in [Request -> SUBSET Key]
        /\ pending' \in [Request -> SUBSET Key]
    BY <1>10 DEF Restart
  <2>2. errors' \in 0..MaxErrors /\ mu' \in Request \cup {Free}
    BY <1>10 DEF Restart
  <2>3. hot' \in BOOLEAN
    BY <1>10 DEF Restart
  <2> QED
    BY <1>10, <2>1, <2>2, <2>3 DEF Restart
<1>11. CASE UNCHANGED vars
  BY <1>11 DEF vars
<1> QED
  BY <1>1, <1>2, <1>3, <1>4, <1>5, <1>6, <1>7, <1>8, <1>9, <1>10, <1>11 DEF Next, Step

\* The rest of the invariant, one step per action.
LEMMA NextIInv == IInv /\ [Next]_vars => IInv'
<1> SUFFICES ASSUME IInv, [Next]_vars PROVE IInv'
  OBVIOUS
<1> DEFINE Rest == LockInv /\ CacheFaithful /\ ReplyInv /\ SteadyInv /\ FetchFindsKey
<1>0. TypeOK'
  BY NextTypeOK DEF IInv
<1> USE DEF IInv, TypeOK, LockInv, Fetching, CacheFaithful, ReplyInv, SteadyInv,
            FetchFindsKey, Goto
<1>1. ASSUME NEW p \in Request, NEW k \in Key, Arrive(p, k) PROVE Rest'
  BY <1>1 DEF Arrive, Ended
<1>2. ASSUME NEW p \in Request, Lookup(p) \/ Recheck(p) \/ RecheckOld(p) PROVE Rest'
  BY <1>2 DEF Lookup, Recheck, RecheckOld, Read, history
<1>3. ASSUME NEW p \in Request, Lock(p) PROVE Rest'
  BY <1>3, FreeAssumption DEF Lock, Limited, Fetch, history
<1>4. ASSUME NEW p \in Request, Ask(p) PROVE Rest'
  BY <1>4 DEF Ask
<1>5. ASSUME NEW p \in Request, Receive(p) PROVE Rest'
  BY <1>5, FreeAssumption DEF Receive, Stored, Forget
<1>6. ASSUME NEW p \in Request, FetchFails(p) PROVE Rest'
  BY <1>6, FreeAssumption DEF FetchFails, Unlock, Forget
<1>7. ASSUME NEW p \in Request, NEW o \in Ended, Decide(p, o) PROVE Rest'
  BY <1>7 DEF Decide, history
<1>8. ASSUME NEW k \in Key, Rotate(k) PROVE Rest'
  BY <1>8 DEF Rotate
<1>9. CASE Tick
  BY <1>9 DEF Tick, history
<1>10. CASE Restart
  <2>1. \A p \in Request : pc'[p] = "failed"
    BY <1>10 DEF Restart
  <2>2. LockInv' /\ ReplyInv' /\ FetchFindsKey'
    BY <2>1
  <2>3. SteadyInv'
    BY <1>10, <2>1 DEF Restart
  <2>4. CacheFaithful'
    BY <1>0, <1>10 DEF Restart
  <2> QED
    BY <1>0, <2>2, <2>3, <2>4
<1>11. CASE UNCHANGED vars
  BY <1>11 DEF vars
<1> QED
  BY <1>0, <1>1, <1>2, <1>3, <1>4, <1>5, <1>6, <1>7, <1>8, <1>9, <1>10, <1>11
     DEF Next, Step

\* The inductive invariant holds in every reachable state.
THEOREM AuthInvariant == Spec => []IInv
BY InitIInv, NextIInv, PTL DEF Spec

\* The types of the verifier's state and of the requests' locals.
THEOREM AuthTypeCorrect == Spec => []TypeOK
<1>1. IInv => TypeOK
  BY DEF IInv
<1> QED
  BY <1>1, AuthInvariant, PTL

\* The cache differs from the published keys only by what was rotated since the
\* endpoint served it.
THEOREM CacheStaysFaithful == Spec => []CacheFaithful
<1>1. IInv => CacheFaithful
  BY DEF IInv
<1> QED
  BY <1>1, AuthInvariant, PTL

\* A request that fetched finds its key, if that was published all the time.
THEOREM FetchAlwaysFindsKey == Spec => []FetchFindsKey
<1>1. IInv => FetchFindsKey
  BY DEF IInv
<1> QED
  BY <1>1, AuthInvariant, PTL

\* No store brings an older key set back.
THEOREM NeverGoesBack == Spec => NeverOlder
<1>1. ASSUME IInv, [Next]_vars, published' = published, cache' # {}
      PROVE  changed' \subseteq changed
  <2>1. ASSUME NEW p \in Request, Receive(p) PROVE changed' \subseteq changed
    BY <1>1, <2>1 DEF IInv, ReplyInv, Receive
  <2>2. ASSUME NEW k \in Key, Rotate(k) PROVE FALSE
    BY <1>1, <2>2 DEF Rotate
  <2>3. ~Restart
    BY <1>1 DEF Restart
  <2>4. ASSUME NEW p \in Request,
               (\E k \in Key : Arrive(p, k)) \/ Lookup(p) \/ Recheck(p) \/ RecheckOld(p)
                 \/ Lock(p) \/ Ask(p) \/ FetchFails(p) \/ \E o \in Ended : Decide(p, o)
        PROVE  changed' = changed
    BY <2>4 DEF Arrive, Lookup, Recheck, RecheckOld, Read, Lock, Ask, FetchFails,
                Decide, history
  <2>5. Tick \/ UNCHANGED vars => changed' = changed
    BY DEF Tick, vars, history
  <2> QED
    BY <1>1, <2>1, <2>2, <2>3, <2>4, <2>5 DEF Next, Step
<1> QED
  BY <1>1, AuthInvariant, PTL DEF Spec, NeverOlder
=============================================================================
