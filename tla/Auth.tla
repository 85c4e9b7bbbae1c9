-------------------------------- MODULE Auth --------------------------------
(***************************************************************************)
(* The verifier of Cloudflare Access tokens (internal/auth): requests look *)
(* their token's key up in a cache of the published key set (JWKS), and a  *)
(* request with an unknown key refetches the set, unless a set that is not *)
(* empty was stored less than 10 seconds ago.                              *)
(*                                                                         *)
(* The write lock is held across the HTTP call, so the answer of the       *)
(* endpoint, which keeps rotating its keys, may be old when it is stored.  *)
(* Reads of the cache are single steps that wait for the writer.  Keys are *)
(* their ids: a signature that does not verify ends a request like claims  *)
(* that do not match.                                                      *)
(***************************************************************************)
EXTENDS Naturals

CONSTANTS Key,           \* key ids
          Request,       \* requests that carry a token
          Free,          \* value of mu when no writer holds it
          MaxRotations,  \* bound: keys the endpoint publishes or withdraws
          MaxErrors      \* bound: fetches that fail, and restarts

ASSUME FreeAssumption  == Free \notin Request
ASSUME BoundAssumption == MaxRotations \in Nat /\ MaxErrors \in Nat

VARIABLES
  published,    \* RSA keys that the endpoint serves
  cache,        \* Verifier.cachedKeys
  hot,          \* less than 10 seconds since lastFetch
  mu,           \* writer that holds Verifier.mu
  pc, kid,      \* per request: next step, and the key of its token
  reply,        \* per request: the answer of the endpoint it is fetching
  rotations, errors,
  changed,      \* history: keys rotated since the cached set was served
  pending,      \* history, per request: keys rotated since its reply was served
  steady        \* history: requests whose key was published ever since they came

vars == <<published, cache, hot, mu, pc, kid, reply, rotations, errors,
          changed, pending, steady>>
history == <<changed, pending, steady>>

Ended == {"accepted", "forbidden", "unauthorized",  \* by the claims
          "unknown", "tooSoon", "failed"}           \* for want of the key
Label == {"lookup", "lock", "ask", "receive", "recheck", "recheckOld", "claims"}
           \cup Ended

TypeOK ==
  /\ published \subseteq Key /\ cache \subseteq Key
  /\ hot \in BOOLEAN
  /\ mu \in Request \cup {Free}
  /\ pc \in [Request -> Label]
  /\ kid \in [Request -> Key]
  /\ reply \in [Request -> SUBSET Key]
  /\ rotations \in 0..MaxRotations /\ errors \in 0..MaxErrors
  /\ changed \subseteq Key
  /\ pending \in [Request -> SUBSET Key]
  /\ steady \subseteq Request

\* An empty cache was never served: nothing is known of any key.
Init ==
  /\ published \in SUBSET Key
  /\ cache = {} /\ hot = FALSE /\ mu = Free
  /\ pc = [p \in Request |-> "failed"]
  /\ kid \in [Request -> Key]
  /\ reply = [p \in Request |-> {}]
  /\ rotations = 0 /\ errors = 0
  /\ changed = Key
  /\ pending = [p \in Request |-> {}]
  /\ steady = {}

Goto(p, l) == pc' = [pc EXCEPT ![p] = l]

-----------------------------------------------------------------------------
(* VerifyToken.                                                            *)

Arrive(p, k) ==
  /\ pc[p] \in Ended
  /\ Goto(p, "lookup")
  /\ kid' = [kid EXCEPT ![p] = k]
  /\ steady' = IF k \in published THEN steady \cup {p} ELSE steady \ {p}
  /\ UNCHANGED <<published, cache, hot, mu, reply, rotations, errors, changed, pending>>

\* RLock waits for the writer.
Read(p, from, missing) ==
  /\ pc[p] = from
  /\ mu = Free
  /\ Goto(p, IF kid[p] \in cache THEN "claims" ELSE missing)
  /\ UNCHANGED <<published, cache, hot, mu, kid, reply, rotations, errors, history>>

Lookup(p)     == Read(p, "lookup", "lock")
Recheck(p)    == Read(p, "recheck", "unknown")
RecheckOld(p) == Read(p, "recheckOld", "tooSoon")

\* Mutant: the limit does not look at the clock.
LimitedForGood == cache # {}

Limited == hot /\ cache # {}

\* Mutant: the mutex is not held during the call.
FetchUnlocked(p) == /\ Goto(p, "ask")
                    /\ UNCHANGED mu

Fetch(p) == /\ Goto(p, "ask")
            /\ mu' = p

\* fetchJWKS: the limit is looked at under the lock.
Lock(p) ==
  /\ pc[p] = "lock"
  /\ mu = Free
  /\ IF Limited THEN Goto(p, "recheckOld") /\ UNCHANGED mu
                ELSE Fetch(p)
  /\ UNCHANGED <<published, cache, hot, kid, reply, rotations, errors, history>>

\* The endpoint answers.
Ask(p) ==
  /\ pc[p] = "ask"
  /\ reply' = [reply EXCEPT ![p] = published]
  /\ pending' = [pending EXCEPT ![p] = {}]
  /\ Goto(p, "receive")
  /\ UNCHANGED <<published, cache, hot, mu, kid, rotations, errors, changed, steady>>

\* Mutant: the new keys are added, and the old ones stay.
Merged(p) == cache \cup reply[p]

Stored(p) == reply[p]

\* The reply is a local of fetchJWKS.
Forget(p) == /\ reply' = [reply EXCEPT ![p] = {}]
             /\ pending' = [pending EXCEPT ![p] = {}]

\* The answer replaces the cache.
Receive(p) ==
  /\ pc[p] = "receive"
  /\ cache' = Stored(p)
  /\ hot' = TRUE
  /\ mu' = Free
  /\ changed' = pending[p]
  /\ Goto(p, "recheck")
  /\ Forget(p)
  /\ UNCHANGED <<published, kid, rotations, errors, steady>>

\* Mutant: a failed fetch leaves through a return without Unlock.
KeepLock == UNCHANGED mu

Unlock == mu' = Free

\* No connection, a status other than 200, a body that does not decode, 10
\* seconds, or a client that left: nothing is stored, lastFetch included.
FetchFails(p) ==
  /\ pc[p] \in {"ask", "receive"}
  /\ errors < MaxErrors /\ errors' = errors + 1
  /\ Unlock
  /\ Goto(p, "failed")
  /\ Forget(p)
  /\ UNCHANGED <<published, cache, hot, kid, rotations, changed, steady>>

\* Signature, audience, identity and the allowed address decide.
Decide(p, outcome) ==
  /\ pc[p] = "claims"
  /\ outcome \in {"accepted", "forbidden", "unauthorized"}
  /\ Goto(p, outcome)
  /\ UNCHANGED <<published, cache, hot, mu, kid, reply, rotations, errors, history>>

-----------------------------------------------------------------------------
(* The environment.                                                        *)

Rotate(k) ==
  /\ rotations < MaxRotations /\ rotations' = rotations + 1
  /\ published' = IF k \in published THEN published \ {k} ELSE published \cup {k}
  /\ changed' = changed \cup {k}
  /\ pending' = [p \in Request |-> IF pc[p] = "receive" THEN pending[p] \cup {k} ELSE {}]
  /\ steady' = {p \in steady : kid[p] # k}
  /\ UNCHANGED <<cache, hot, mu, pc, kid, reply, errors>>

\* 10 seconds have passed since lastFetch.
Tick ==
  /\ hot /\ hot' = FALSE
  /\ UNCHANGED <<published, cache, mu, pc, kid, reply, rotations, errors, history>>

Restart ==
  /\ errors < MaxErrors /\ errors' = errors + 1
  /\ cache' = {} /\ hot' = FALSE /\ mu' = Free
  /\ pc' = [p \in Request |-> "failed"]
  /\ reply' = [p \in Request |-> {}]
  /\ pending' = [p \in Request |-> {}]
  /\ changed' = Key
  /\ UNCHANGED <<published, kid, rotations, steady>>

-----------------------------------------------------------------------------
Step(p) ==
  \/ Lookup(p) \/ Recheck(p) \/ RecheckOld(p) \/ Lock(p)
  \/ Ask(p) \/ Receive(p) \/ FetchFails(p)
  \/ \E o \in Ended : Decide(p, o)

Next ==
  \/ \E p \in Request : (\E k \in Key : Arrive(p, k)) \/ Step(p)
  \/ \E k \in Key : Rotate(k)
  \/ Tick
  \/ Restart

Spec == Init /\ [][Next]_vars

\* A handler goes on when it can; Go's RWMutex lets every waiter in, since a
\* waiting writer holds new readers back; a call ends within its timeout; the
\* 10 seconds pass.  Nothing is assumed of clients and of the endpoint's keys.
Fairness == /\ \A p \in Request : SF_vars(Step(p))
            /\ WF_vars(Tick)

FairSpec == Spec /\ Fairness

-----------------------------------------------------------------------------
(* Properties.                                                             *)

\* The cache is what the endpoint served once: a key that was withdrawn or
\* published since is the only difference, however long the answer took and
\* whatever other requests fetched meanwhile.
CacheFaithful == (cache \ published) \cup (published \ cache) \subseteq changed

\* A store never brings an older key set back: only the endpoint's own
\* rotation, or a restart, makes the cache more out of date than it was.
NeverOlder ==
  [][published' = published /\ cache' # {} => changed' \subseteq changed]_vars

\* A request that fetched, and whose key the endpoint served ever since the
\* request came, is not refused for an unknown key, although others may have
\* replaced the cache between its fetch and its second look.
FetchFindsKey == \A p \in Request : pc[p] = "unknown" => p \notin steady

\* Every request is answered, whoever holds the lock across a slow call.
EveryAnswered == \A p \in Request : (pc[p] \notin Ended) ~> (pc[p] \in Ended)

\* A new signing key is learnt: if it stays published and tokens signed with it
\* keep coming, it is in the cache for good, in spite of the limit.
LearnsKey ==
  \A k \in Key :
    /\ <>[](k \in published)
    /\ []<>(\E p \in Request : kid[p] = k /\ pc[p] = "lookup")
    => <>[](k \in cache)

-----------------------------------------------------------------------------
(* The inductive invariant behind the safety properties.                   *)

Fetching(p) == pc[p] \in {"ask", "receive"}

\* A fetch holds the lock.
LockInv == \A p \in Request : Fetching(p) => mu = p

\* A reply on its way is as faithful as the cache, and never older.
ReplyInv ==
  \A p \in Request : pc[p] = "receive" =>
    /\ (reply[p] \ published) \cup (published \ reply[p]) \subseteq pending[p]
    /\ pending[p] \subseteq changed

\* What steady means for a request, for its own reply, for the cache after it,
\* and for the replies that will replace that cache.
SteadyInv ==
  \A p \in steady :
    /\ kid[p] \in published
    /\ pc[p] = "receive" => kid[p] \in reply[p]
    /\ pc[p] = "recheck" =>
         /\ kid[p] \in cache
         /\ \A q \in Request : pc[q] = "receive" => kid[p] \in reply[q]

IInv == TypeOK /\ LockInv /\ CacheFaithful /\ ReplyInv /\ SteadyInv /\ FetchFindsKey
=============================================================================
