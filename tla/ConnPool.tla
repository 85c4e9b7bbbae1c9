------------------------------ MODULE ConnPool ------------------------------
(***************************************************************************)
(* The bounded connection pool (internal/db) under the services that use   *)
(* it.  A statement, a transaction and an open result set each hold one    *)
(* connection; a request takes them one after the other.  The exception is *)
(* ListShares: for every row of its open result set scanShare looks the    *)
(* target up with GetNode, which takes a second connection.  The handlers  *)
(* of uploads hold the mutex of their service around their statements.     *)
(*                                                                         *)
(* A request that waits for a connection gives up when its client leaves;  *)
(* one that waits for the mutex does not.                                  *)
(***************************************************************************)
EXTENDS Naturals

CONSTANTS Conn,      \* connections, SetMaxOpenConns(4) in db.Open
          Request,   \* handlers, the reconciler and writers of audit events
          Lister,    \* those that run ListShares
          Uploader,  \* those that take uploads.Service.mu
          Free,      \* no holder
          MaxStatements  \* bound: statements of a request, rows of a listing

ASSUME RequestAssumption == /\ Lister \subseteq Request /\ Uploader \subseteq Request
                            /\ Lister \cap Uploader = {}
                            /\ Free \notin Request
ASSUME StatementAssumption == MaxStatements \in Nat \ {0}

VARIABLES
  conn,   \* holder of each connection
  mu,     \* holder of the mutex
  pc,     \* per request: what it waits for or does
  left    \* per request: statements, or rows of the listing, still to come

vars == <<conn, mu, pc, left>>

Label == {"idle", "lock", "take", "use", "takeSecond", "useSecond"}

TypeOK == /\ conn \in [Conn -> Request \cup {Free}]
          /\ mu \in Uploader \cup {Free}
          /\ pc \in [Request -> Label]
          /\ left \in [Request -> 0..MaxStatements]

Init == /\ conn = [c \in Conn |-> Free]
        /\ mu = Free
        /\ pc = [r \in Request |-> "idle"]
        /\ left = [r \in Request |-> 0]

Goto(r, l) == pc' = [pc EXCEPT ![r] = l]

-----------------------------------------------------------------------------
Arrive(r, n) ==
  /\ pc[r] = "idle"
  /\ Goto(r, IF r \in Uploader THEN "lock" ELSE "take")
  /\ left' = [left EXCEPT ![r] = n]
  /\ UNCHANGED <<conn, mu>>

Lock(r) ==
  /\ pc[r] = "lock"
  /\ mu = Free /\ mu' = r
  /\ Goto(r, "take")
  /\ UNCHANGED <<conn, left>>

Unlocked(r) == IF mu = r THEN Free ELSE mu

Take(r, c) ==
  /\ conn[c] = Free
  /\ conn' = [conn EXCEPT ![c] = r]
  /\ \/ pc[r] = "take" /\ Goto(r, "use")
     \/ pc[r] = "takeSecond" /\ Goto(r, "useSecond")
  /\ UNCHANGED <<mu, left>>

\* Mutant: GetShareByToken keeps its row open while it looks the target up.
EveryoneNests(r) == TRUE

\* scanShare runs on an open result set.
Nests(r) == r \in Lister

\* Rows.Next, then GetNode of the row's target.
NextRow(r) ==
  /\ pc[r] = "use" /\ Nests(r) /\ left[r] > 0
  /\ Goto(r, "takeSecond")
  /\ UNCHANGED <<conn, mu, left>>

\* GetNode gives its connection back.
EndRow(r) ==
  /\ pc[r] = "useSecond"
  /\ \E c \in Conn :
       /\ conn[c] = r
       /\ conn' = [d \in Conn |-> IF conn[d] = r /\ d # c THEN Free ELSE conn[d]]
  /\ Goto(r, "use")
  /\ left' = [left EXCEPT ![r] = @ - 1]
  /\ UNCHANGED mu

\* Mutant: the result set is left open.
Kept(r) == conn

Released(r) == [c \in Conn |-> IF conn[c] = r THEN Free ELSE conn[c]]

\* A statement, a transaction, or the whole listing is over.
Release(r) ==
  /\ pc[r] = "use" /\ (Nests(r) => left[r] = 0)
  /\ conn' = Released(r)
  /\ IF left[r] <= 1
       THEN /\ Goto(r, "idle") /\ mu' = Unlocked(r)
            /\ left' = [left EXCEPT ![r] = 0]
       ELSE /\ Goto(r, "take") /\ UNCHANGED mu
            /\ left' = [left EXCEPT ![r] = @ - 1]

\* The client leaves: waits and statements end, and result sets are closed.
Disconnect(r) ==
  /\ pc[r] \notin {"idle", "lock"}
  /\ conn' = [c \in Conn |-> IF conn[c] = r THEN Free ELSE conn[c]]
  /\ mu' = Unlocked(r)
  /\ Goto(r, "idle")
  /\ left' = [left EXCEPT ![r] = 0]

-----------------------------------------------------------------------------
Step(r) == \/ Lock(r) \/ (\E c \in Conn : Take(r, c))
           \/ NextRow(r) \/ EndRow(r) \/ Release(r)

Next == \E r \in Request : \/ \E n \in 0..MaxStatements : Arrive(r, n)
                           \/ Step(r)
                           \/ Disconnect(r)

Spec == Init /\ [][Next]_vars

\* Statements end (busy_timeout), and database/sql and Go's mutex serve every
\* waiter in the end.  Nothing is assumed of clients.
Fairness == \A r \in Request : SF_vars(Step(r))

FairSpec == Spec /\ Fairness

-----------------------------------------------------------------------------
(* Properties.                                                             *)

Waiting(r) == \/ pc[r] = "lock" /\ mu # Free
              \/ pc[r] \in {"take", "takeSecond"} /\ \A c \in Conn : conn[c] # Free

\* As many listings of shares as there are connections have taken one each, and
\* wait for their second.  Nothing in the code keeps listings from that, and only
\* clients that leave end it.
Stalled ==
  /\ \A c \in Conn : conn[c] \in Lister /\ pc[conn[c]] = "takeSecond"
  /\ \A c, d \in Conn : conn[c] = conn[d] => c = d

\* That is the only way in which the requests that are under way can all wait for
\* each other: neither the mutex of uploads, held while its holder waits for a
\* connection, nor fewer listings than connections bring the server to a halt.
OnlyListingsStall ==
  (\E r \in Request : pc[r] # "idle") /\ (\A r \in Request : pc[r] # "idle" => Waiting(r))
    => Stalled

\* Every request is served, and gives back what it holds, unless listings stall.
EveryServed ==
  \A r \in Request :
    (pc[r] # "idle")
      ~> ((pc[r] = "idle" /\ mu # r /\ \A c \in Conn : conn[c] # r) \/ Stalled)

-----------------------------------------------------------------------------
(* The inductive invariant behind OnlyListingsStall.                                 *)

\* Who holds a connection, and that a listing which waits holds only one.
ConnInv ==
  /\ \A c \in Conn : conn[c] # Free => pc[conn[c]] \in {"use", "takeSecond", "useSecond"}
  /\ \A c, d \in Conn : conn[c] = conn[d] /\ conn[c] # Free => c = d \/ pc[conn[c]] = "useSecond"
  /\ \A r \in Request : pc[r] \in {"takeSecond", "useSecond"} => r \in Lister /\ left[r] > 0

\* The mutex is for uploads, and its holder is at work on its statements.
MutexInv == /\ \A r \in Request : pc[r] = "lock" => r \in Uploader
            /\ mu # Free => pc[mu] \in {"take", "use"}

IInv == TypeOK /\ ConnInv /\ MutexInv
=============================================================================
