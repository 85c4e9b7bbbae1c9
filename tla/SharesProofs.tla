---------------------------- MODULE SharesProofs ----------------------------
(***************************************************************************)
(* Proofs about Shares: no share that has ended opens again, and no        *)
(* handler misses the target of a share that is still there.               *)
(***************************************************************************)
EXTENDS Shares, TLAPS

Thread == Admin \cup Visitor

\* A row carries the epoch of its creation or an earlier one than the server's.
EpochsPast == \A t \in Tables : \A s \in DOMAIN t : t[s].epoch \leq epoch

\* The id of a share that is not in the table yet is new, and nobody else's.
IdsFresh ==
  /\ \A p \in Admin : pc[p] = "insert" =>
       job[p].share \notin made /\ job[p].row.epoch = epoch
  /\ \A p, q \in Admin : pc[p] = "insert" /\ pc[q] = "insert" /\ p # q =>
       job[p].share # job[q].share

\* The foreign key, in the database and in its copies.
TargetsPresent ==
  /\ \A s \in DOMAIN shares : shares[s].target \in Present
  /\ \A b \in backups : \A s \in DOMAIN b.shares :
       b.shares[s].target \in b.active \cup b.trashed

\* Only an admin inserts and only a visitor reads; the copy of a row names the
\* target that the row still has.
CopiesTrue ==
  \A p \in Visitor : pc[p] # "idle" =>
    /\ pc[p] \in {"target", "decide"}
    /\ job[p].share \in made
    /\ job[p].share \in DOMAIN shares => shares[job[p].share].target = job[p].row.target

ShareInv == TypeOK /\ EpochsPast /\ IdsFresh /\ TargetsPresent /\ CopiesTrue
            /\ TargetLostWithShare

-----------------------------------------------------------------------------
LEMMA InitHolds == Init => ShareInv
<1> SUFFICES ASSUME Init PROVE ShareInv
  OBVIOUS
<1> USE DEF Init
<1>1. Tables = {shares} /\ DOMAIN shares = {}  BY DEF Tables
<1>2. job = [p \in Admin \cup Visitor |-> job[p]]  OBVIOUS
<1>3. shares \in [DOMAIN shares -> Row]  BY <1>1
<1>4. TypeOK  BY <1>1, <1>2, <1>3 DEF TypeOK
<1>5. EpochsPast /\ TargetsPresent  BY <1>1 DEF EpochsPast, TargetsPresent
<1>6. IdsFresh /\ CopiesTrue /\ TargetLostWithShare
  BY DEF IdsFresh, CopiesTrue, TargetLostWithShare
<1> QED BY <1>4, <1>5, <1>6 DEF ShareInv

\* A table of the next state is the next database's or a copy's.
LEMMA TablesKept == ASSUME UNCHANGED <<shares, backups>> PROVE Tables' = Tables
BY DEF Tables

\* Without a change of the rows, the nodes and the epoch, it is the threads
\* that have to be looked at.
LEMMA DatabaseKept ==
  ASSUME ShareInv, UNCHANGED <<database, epoch, backups, made>>
  PROVE  EpochsPast' /\ TargetsPresent'
<1>1. Tables' = Tables  BY TablesKept DEF database
<1> QED BY <1>1 DEF ShareInv, EpochsPast, TargetsPresent, Present, database

LEMMA CreateCheckHolds ==
  ASSUME ShareInv, NEW p \in Admin, NEW s \in Share, NEW target \in Node,
         NEW protected \in BOOLEAN, NEW limited \in BOOLEAN,
         CreateCheck(p, s, target, protected, limited)
  PROVE  ShareInv'
<1> USE DEF CreateCheck, Goto
<1>1. EpochsPast' /\ TargetsPresent'  BY DatabaseKept
<1>2. TypeOK'
  <2>1. Tables' = Tables  BY TablesKept DEF database
  <2>2. job'[p] \in AdminJob
    BY DEF ShareInv, TypeOK, AdminJob, Row
  <2> QED BY <2>1, <2>2, HandlerAssumption DEF ShareInv, TypeOK, database
<1>3. IdsFresh'  BY DEF ShareInv, TypeOK, IdsFresh
<1>4. CopiesTrue' /\ TargetLostWithShare'
  BY HandlerAssumption DEF ShareInv, TypeOK, CopiesTrue, TargetLostWithShare, database
<1> QED BY <1>1, <1>2, <1>3, <1>4 DEF ShareInv

\* The tables after a change of the database alone.
LEMMA NewTables ==
  ASSUME backups' = backups, NEW t \in Tables'
  PROVE  t = shares' \/ (t \in Tables /\ \E b \in backups : t = b.shares)
BY DEF Tables

LEMMA InsertHolds ==
  ASSUME ShareInv, NEW p \in Admin, Insert(p)
  PROVE  ShareInv'
<1> DEFINE j == job[p]
<1> USE DEF Insert, Return, Goto
<1>0. j \in AdminJob /\ j.share \in Share /\ j.row \in Row /\ j.row.epoch = epoch
      /\ j.share \notin made
  BY DEF ShareInv, TypeOK, IdsFresh, AdminJob
<1>a. shares \in [DOMAIN shares -> Row] /\ DOMAIN shares \subseteq made
  BY DEF ShareInv, TypeOK, Tables
<1>b. /\ DOMAIN shares' = DOMAIN shares \cup {j.share}
      /\ shares'[j.share] = j.row
      /\ \A s \in DOMAIN shares : shares'[s] = shares[s]
  BY <1>0, <1>a
<1>1. TypeOK'
  <2>1. shares' \in [DOMAIN shares' -> Row] /\ DOMAIN shares' \subseteq made'
    BY <1>0, <1>a, <1>b
  <2>2. \A t \in Tables' : t \in [DOMAIN t -> Row] /\ DOMAIN t \subseteq made'
    BY <2>1, NewTables DEF ShareInv, TypeOK
  <2> QED BY <1>0, <2>2, HandlerAssumption DEF ShareInv, TypeOK
<1>2. EpochsPast'
  <2>1. \A s \in DOMAIN shares' : shares'[s].epoch \leq epoch
    BY <1>0, <1>b DEF ShareInv, TypeOK, EpochsPast, Tables
  <2> QED BY <2>1, NewTables DEF ShareInv, EpochsPast
<1>3. IdsFresh'  BY <1>0 DEF ShareInv, TypeOK, IdsFresh
<1>4. TargetsPresent'  BY <1>b DEF ShareInv, TargetsPresent, Present
<1>5. CopiesTrue' /\ TargetLostWithShare'
  BY <1>0, <1>b, HandlerAssumption DEF ShareInv, TypeOK, CopiesTrue, TargetLostWithShare
<1> QED BY <1>1, <1>2, <1>3, <1>4, <1>5 DEF ShareInv

LEMMA InsertRejectedHolds ==
  ASSUME ShareInv, NEW p \in Admin, InsertRejected(p)
  PROVE  ShareInv'
<1> USE DEF InsertRejected, Return, Goto
<1>1. EpochsPast' /\ TargetsPresent'  BY DatabaseKept
<1>2. Tables' = Tables  BY TablesKept DEF database
<1>3. TypeOK' /\ IdsFresh'
  BY <1>2, HandlerAssumption DEF ShareInv, TypeOK, IdsFresh, database
<1>4. CopiesTrue' /\ TargetLostWithShare'
  BY HandlerAssumption DEF ShareInv, TypeOK, CopiesTrue, TargetLostWithShare, database
<1> QED BY <1>1, <1>3, <1>4 DEF ShareInv

\* What the UPDATE makes of a row.
LEMMA RevokedRow ==
  ASSUME NEW r \in Row
  PROVE  LET x == [r EXCEPT !.revoked = TRUE, !.version = r.version + 1]
         IN  x \in Row /\ x.epoch = r.epoch /\ x.target = r.target
<1>1. r.version + 1 \in Nat  BY DEF Row
<1>2. ASSUME NEW v \in Nat
      PROVE  LET x == [r EXCEPT !.revoked = TRUE, !.version = v]
             IN  x \in Row /\ x.epoch = r.epoch /\ x.target = r.target
  BY DEF Row
<1> QED BY <1>1, <1>2

LEMMA RevokeShareHolds ==
  ASSUME ShareInv, NEW s \in Share, RevokeShare(s)
  PROVE  ShareInv'
<1> USE DEF RevokeShare, threads
<1>a. shares \in [DOMAIN shares -> Row] /\ DOMAIN shares \subseteq made
  BY DEF ShareInv, TypeOK, Tables
<1>b. /\ shares' \in [DOMAIN shares -> Row]
      /\ \A r \in DOMAIN shares : /\ shares'[r].epoch = shares[r].epoch
                                  /\ shares'[r].target = shares[r].target
  <2> DEFINE r0 == shares[s]
             r1 == [r0 EXCEPT !.revoked = TRUE, !.version = r0.version + 1]
  <2>1. r0 \in Row  BY <1>a
  <2>2. r1 \in Row /\ r1.epoch = r0.epoch /\ r1.target = r0.target
    BY <2>1, RevokedRow
  <2>3. shares' = [shares EXCEPT ![s] = r1]
    BY <1>a, <2>1
  <2> HIDE DEF r1
  <2> QED BY <1>a, <2>1, <2>2, <2>3
<1>1. TypeOK'
  <2>1. \A t \in Tables' : t \in [DOMAIN t -> Row] /\ DOMAIN t \subseteq made'
    BY <1>a, <1>b, NewTables DEF ShareInv, TypeOK
  <2> QED BY <2>1 DEF ShareInv, TypeOK
<1>2. EpochsPast'
  <2>1. \A r \in DOMAIN shares' : shares'[r].epoch \leq epoch
    BY <1>b DEF ShareInv, EpochsPast, Tables
  <2> QED BY <2>1, NewTables DEF ShareInv, EpochsPast
<1>3. IdsFresh'  BY DEF ShareInv, IdsFresh
<1>4. TargetsPresent'  BY <1>b DEF ShareInv, TargetsPresent, Present
<1>5. CopiesTrue' /\ TargetLostWithShare'
  BY <1>b DEF ShareInv, CopiesTrue, TargetLostWithShare
<1> QED BY <1>1, <1>2, <1>3, <1>4, <1>5 DEF ShareInv

LEMMA VisitorHolds ==
  ASSUME ShareInv, NEW p \in Visitor, VisitorStep(p)
  PROVE  ShareInv'
<1>1. ASSUME NEW s \in Share, NEW purpose \in Purpose, FetchRow(p, s, purpose)
      PROVE  ShareInv'
  <2> USE <1>1 DEF FetchRow, Goto
  <2>1. EpochsPast' /\ TargetsPresent'  BY DatabaseKept
  <2>2. Tables' = Tables  BY TablesKept DEF database
  <2>3. shares[s] \in Row /\ s \in made  BY DEF ShareInv, TypeOK, Tables
  <2>4. job'[p] \in VisitorJob
    BY <2>3 DEF ShareInv, TypeOK, VisitorJob
  <2>5. TypeOK' /\ IdsFresh'
    BY <2>2, <2>4, HandlerAssumption DEF ShareInv, TypeOK, IdsFresh, database
  <2>6. CopiesTrue' /\ TargetLostWithShare'
    BY <2>3 DEF ShareInv, TypeOK, CopiesTrue, TargetLostWithShare, database
  <2> QED BY <2>1, <2>5, <2>6 DEF ShareInv
<1>2. CASE FetchTarget(p)
  <2>0. PICK failed \in BOOLEAN, found \in BOOLEAN :
          /\ found = (~failed /\ job[p].row.target \in Present)
          /\ Goto(p, "decide", [job[p] EXCEPT !.found = found, !.failed = failed])
    <3>1. PICK failed \in BOOLEAN :
            Goto(p, "decide", [job[p] EXCEPT !.found = ~failed /\ job[p].row.target \in Present,
                                             !.failed = failed])
      BY <1>2 DEF FetchTarget
    <3>2. PICK found \in BOOLEAN : found = (~failed /\ job[p].row.target \in Present)
      OBVIOUS
    <3> QED BY <3>1, <3>2
  <2> DEFINE j == [job[p] EXCEPT !.found = found, !.failed = failed]
  <2>a. pc[p] = "target" /\ UNCHANGED <<database, epoch, backups, late, sessions, made>>
    BY <1>2 DEF FetchTarget
  <2>1. EpochsPast' /\ TargetsPresent'  BY <2>a, DatabaseKept
  <2>2. Tables' = Tables  BY <2>a, TablesKept DEF database
  <2>3. job[p] \in VisitorJob  BY <2>a DEF ShareInv, TypeOK
  <2>4. /\ j \in VisitorJob /\ j.share = job[p].share /\ j.row = job[p].row
        /\ ~j.found /\ ~j.failed => job[p].row.target \notin Present
    <3>1. /\ j \in VisitorJob /\ j.share = job[p].share /\ j.row = job[p].row
          /\ j.found = found /\ j.failed = failed
      BY <2>3 DEF VisitorJob
    <3> QED BY <2>0, <3>1
  <2>5. pc' = [pc EXCEPT ![p] = "decide"] /\ job' = [job EXCEPT ![p] = j]
    BY <2>0 DEF Goto
  <2> HIDE DEF j
  <2>6. TypeOK'
    BY <2>a, <2>2, <2>4, <2>5, HandlerAssumption DEF ShareInv, TypeOK, database
  <2>7. IdsFresh'
    BY <2>a, <2>5, HandlerAssumption DEF ShareInv, TypeOK, IdsFresh
  <2>8. CopiesTrue'
    BY <2>a, <2>4, <2>5 DEF ShareInv, TypeOK, CopiesTrue, database
  <2>9. job[p].row.target \notin Present => job[p].share \notin DOMAIN shares
    BY <2>a DEF ShareInv, CopiesTrue, TargetsPresent
  <2>10. TargetLostWithShare'
    BY <2>a, <2>4, <2>5, <2>9 DEF ShareInv, TypeOK, TargetLostWithShare, database
  <2> QED BY <2>1, <2>6, <2>7, <2>8, <2>10 DEF ShareInv
<1>3. CASE Serve(p) \/ Refuse(p) \/ Panic(p)
  <2>0. /\ pc[p] = "decide" /\ Return(p) /\ UNCHANGED <<database, epoch, backups, late, made>>
        /\ sessions' = sessions \cup {CookieOf(job[p])} \/ UNCHANGED sessions
    BY <1>3 DEF Serve, Refuse, Panic
  <2> USE DEF Return, Goto
  <2>1. EpochsPast' /\ TargetsPresent'  BY <2>0, DatabaseKept
  <2>2. Tables' = Tables  BY <2>0, TablesKept DEF database
  <2>3. CookieOf(job[p]) \in Cookie
    BY <2>0 DEF ShareInv, TypeOK, CookieOf, Cookie, VisitorJob, Row
  <2>4. TypeOK' /\ IdsFresh'
    BY <2>0, <2>2, <2>3, HandlerAssumption DEF ShareInv, TypeOK, IdsFresh, database
  <2>5. CopiesTrue' /\ TargetLostWithShare'
    BY <2>0 DEF ShareInv, TypeOK, CopiesTrue, TargetLostWithShare, database
  <2> QED BY <2>1, <2>4, <2>5 DEF ShareInv
<1> QED BY <1>1, <1>2, <1>3 DEF VisitorStep

-----------------------------------------------------------------------------
\* Time passes for the shares and the cookies.
LEMMA TimeHolds ==
  ASSUME ShareInv, (\E s \in Share : Lapse(s)) \/ (\E c \in sessions : ForgetSession(c))
  PROVE  ShareInv'
<1>0. UNCHANGED <<database, epoch, backups, made, threads>>
      /\ late' \subseteq made /\ sessions' \subseteq Cookie
  BY DEF Lapse, ForgetSession, ShareInv, TypeOK
<1>1. EpochsPast' /\ TargetsPresent'  BY <1>0, DatabaseKept
<1>2. Tables' = Tables  BY <1>0, TablesKept DEF database
<1>3. TypeOK' /\ IdsFresh' /\ CopiesTrue' /\ TargetLostWithShare'
  BY <1>0, <1>2 DEF ShareInv, TypeOK, IdsFresh, CopiesTrue, TargetLostWithShare,
     database, threads
<1> QED BY <1>1, <1>3 DEF ShareInv

\* A node that comes, goes to the trash or returns stays where a row may name it.
LEMMA NodeHolds ==
  ASSUME ShareInv, NEW n \in Node, AddNode(n) \/ TrashNode(n) \/ RestoreNode(n)
  PROVE  ShareInv'
<1>0. /\ UNCHANGED <<shares, epoch, backups, late, sessions, made, threads>>
      /\ active' \subseteq Node /\ trashed' \subseteq Node
      /\ Present \subseteq active' \cup trashed'
  BY DEF AddNode, TrashNode, RestoreNode, ShareInv, TypeOK, Present
<1>2. Tables' = Tables  BY <1>0, TablesKept
<1>3. TypeOK' /\ EpochsPast' /\ IdsFresh' /\ CopiesTrue' /\ TargetLostWithShare'
  BY <1>0, <1>2 DEF ShareInv, TypeOK, EpochsPast, IdsFresh, CopiesTrue,
     TargetLostWithShare, threads
<1>4. TargetsPresent'  BY <1>0 DEF ShareInv, TargetsPresent, Present
<1> QED BY <1>3, <1>4 DEF ShareInv

LEMMA PurgeNodeHolds ==
  ASSUME ShareInv, NEW n \in Node, PurgeNode(n)
  PROVE  ShareInv'
<1> USE DEF PurgeNode, SharesWithout, threads
<1>a. shares \in [DOMAIN shares -> Row] /\ DOMAIN shares \subseteq made
  BY DEF ShareInv, TypeOK, Tables
<1>b. /\ DOMAIN shares' \subseteq DOMAIN shares
      /\ shares' \in [DOMAIN shares' -> Row]
      /\ \A s \in DOMAIN shares' : shares'[s] = shares[s] /\ shares'[s].target # n
  BY <1>a
<1>1. TypeOK'
  <2>1. \A t \in Tables' : t \in [DOMAIN t -> Row] /\ DOMAIN t \subseteq made'
    BY <1>a, <1>b, NewTables DEF ShareInv, TypeOK
  <2> QED BY <2>1 DEF ShareInv, TypeOK
<1>2. EpochsPast'
  <2>1. \A r \in DOMAIN shares' : shares'[r].epoch \leq epoch
    BY <1>b DEF ShareInv, EpochsPast, Tables
  <2> QED BY <2>1, NewTables DEF ShareInv, EpochsPast
<1>3. IdsFresh'  BY DEF ShareInv, IdsFresh
<1>4. TargetsPresent'  BY <1>b DEF ShareInv, TargetsPresent, Present
<1>5. CopiesTrue' /\ TargetLostWithShare'
  BY <1>b DEF ShareInv, CopiesTrue, TargetLostWithShare
<1> QED BY <1>1, <1>2, <1>3, <1>4, <1>5 DEF ShareInv

-----------------------------------------------------------------------------
\* With no request under way, three conjuncts have nothing to say.
LEMMA IdleHolds ==
  ASSUME AllIdle
  PROVE  IdsFresh' /\ CopiesTrue' /\ TargetLostWithShare'
BY DEF AllIdle, IdsFresh, CopiesTrue, TargetLostWithShare

LEMMA RestartHolds ==
  ASSUME ShareInv, Restart
  PROVE  ShareInv'
<1> USE DEF Restart
<1>1. EpochsPast' /\ TargetsPresent'  BY DatabaseKept
<1>2. Tables' = Tables  BY TablesKept DEF database
<1>3. TypeOK'  BY <1>2 DEF ShareInv, TypeOK, AllIdle, database
<1> QED BY <1>1, <1>3, IdleHolds DEF ShareInv

LEMMA BackupHolds ==
  ASSUME ShareInv, Backup
  PROVE  ShareInv'
<1> USE DEF Backup, database, threads
<1>1. Tables' = {shares}  BY DEF Tables
<1>2. shares \in Tables  BY DEF Tables
<1>3. TypeOK' /\ EpochsPast' /\ IdsFresh' /\ CopiesTrue' /\ TargetLostWithShare'
  BY <1>1, <1>2 DEF ShareInv, TypeOK, EpochsPast, IdsFresh, CopiesTrue,
     TargetLostWithShare
<1>4. TargetsPresent'  BY DEF ShareInv, TargetsPresent, Present
<1> QED BY <1>3, <1>4 DEF ShareInv

LEMMA RecoverHolds ==
  ASSUME ShareInv, Recover
  PROVE  ShareInv' /\ \A s \in made : ~Usable(s)'
<1> USE DEF Recover, NextEpoch
<1>0. PICK b \in backups : active' = b.active /\ trashed' = b.trashed /\ shares' = b.shares
  OBVIOUS
<1>a. b.shares \in Tables /\ Tables' \subseteq Tables  BY <1>0 DEF Tables
<1>1. TypeOK'  BY <1>0, <1>a DEF ShareInv, TypeOK, AllIdle
<1>2. \A t \in Tables' : \A s \in DOMAIN t : t[s].epoch \leq epoch /\ t[s].epoch \in Nat
  BY <1>a DEF ShareInv, TypeOK, EpochsPast, Row
<1>3. EpochsPast'  BY <1>2 DEF ShareInv, TypeOK, EpochsPast
<1>4. TargetsPresent'  BY <1>0 DEF ShareInv, TargetsPresent, Present
<1>5. shares' \in Tables'  BY DEF Tables
<1>6. \A s \in made : ~Usable(s)'
  BY <1>2, <1>5 DEF Usable, Opens, ShareInv, TypeOK
<1> QED BY <1>1, <1>3, <1>4, <1>6, IdleHolds DEF ShareInv

LEMMA NextHolds == ShareInv /\ [Next]_vars => ShareInv'
<1> SUFFICES ASSUME ShareInv, [Next]_vars PROVE ShareInv'
  OBVIOUS
<1>1. ASSUME NEW p \in Admin, AdminStep(p) PROVE ShareInv'
  BY <1>1, CreateCheckHolds, InsertHolds, InsertRejectedHolds DEF AdminStep
<1>2. CASE Environment
  BY <1>2, RevokeShareHolds, TimeHolds, NodeHolds, PurgeNodeHolds, RestartHolds,
     BackupHolds, RecoverHolds DEF Environment
<1>3. CASE UNCHANGED vars
  BY <1>3 DEF vars, ShareInv, TypeOK, EpochsPast, IdsFresh, TargetsPresent, CopiesTrue,
     TargetLostWithShare, Tables, Present
<1> QED BY <1>1, <1>2, <1>3, VisitorHolds DEF Next

\* The inductive invariant holds in every reachable state.
THEOREM ShareInvariant == Spec => []ShareInv
<1> QED BY InitHolds, NextHolds, PTL DEF Spec

\* Type correctness of the tables, their copies, the cookies and the threads.
THEOREM SharesTypeCorrect == Spec => []TypeOK
BY ShareInvariant, PTL DEF ShareInv

\* When its query is answered, scanShare leaves TargetNode unset only when the share
\* itself has gone.
THEOREM TargetsLostWithTheirShare == Spec => []TargetLostWithShare
BY ShareInvariant, PTL DEF ShareInv

-----------------------------------------------------------------------------
\* Steps that leave the shares, the epoch and the clock alone end nothing and
\* revive nothing.
LEMMA StepEndsForGood ==
  ASSUME ShareInv, [Next]_vars, NEW s \in made, ~Usable(s)
  PROVE  ~Usable(s)'
<1>1. CASE UNCHANGED <<shares, epoch, late>>
  BY <1>1 DEF Usable, Opens
<1>2. ASSUME NEW p \in Admin, Insert(p) PROVE ~Usable(s)'
  <2>1. job[p].share # s  BY <1>2 DEF ShareInv, IdsFresh, Insert
  <2> QED BY <1>2, <2>1 DEF Insert, Usable, Opens
<1>3. ASSUME NEW r \in Share, RevokeShare(r) PROVE ~Usable(s)'
  <2>1. shares \in [DOMAIN shares -> Row]  BY DEF ShareInv, TypeOK, Tables
  <2> QED BY <1>3, <2>1 DEF RevokeShare, Usable, Opens, Row
<1>4. ASSUME NEW r \in Share, Lapse(r) PROVE ~Usable(s)'
  BY <1>4 DEF Lapse, database, Usable, Opens
<1>5. ASSUME NEW n \in Node, PurgeNode(n) PROVE ~Usable(s)'
  BY <1>5 DEF PurgeNode, SharesWithout, Usable, Opens
<1>6. CASE Recover
  BY <1>6, RecoverHolds
<1>7. ASSUME NEW p \in Admin, AdminStep(p) PROVE ~Usable(s)'
  BY <1>1, <1>2, <1>7 DEF AdminStep, CreateCheck, InsertRejected, database
<1>8. ASSUME NEW p \in Visitor, VisitorStep(p) PROVE ~Usable(s)'
  BY <1>1, <1>8 DEF VisitorStep, FetchRow, FetchTarget, Serve, Refuse, Panic, database
<1>9. CASE Environment
  BY <1>1, <1>3, <1>4, <1>5, <1>6, <1>9 DEF Environment, ForgetSession, AddNode,
     TrashNode, RestoreNode, Restart, Backup, database
<1> QED BY <1>1, <1>7, <1>8, <1>9 DEF Next, vars

\* Whatever ended a share, it never opens again, restored backups included.
THEOREM SharesEndForGood == Spec => EndedForGood
<1>1. ShareInv /\ [Next]_vars => [\A s \in made : ~Usable(s) => ~Usable(s)']_vars
  BY StepEndsForGood
<1> QED BY <1>1, ShareInvariant, PTL DEF Spec, EndedForGood
=============================================================================
