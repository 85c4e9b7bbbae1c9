--------------------------- MODULE UploadsProofs ---------------------------
(***************************************************************************)
(* Safety of the upload service for every value of the constants.          *)
(*                                                                         *)
(* The argument is the inductive invariant IInv of Uploads: one lemma per  *)
(* action shows that the action keeps it, NextIInv combines them, and the  *)
(* theorems after it read properties off it.  Most lemmas go the same way: *)
(* what the holder of mu knows (JobInv, TodoInv), what the step writes to  *)
(* the tables, directories and threads, then the conjuncts of IInv one     *)
(* after the other.                                                        *)
(*                                                                         *)
(* Three parts build on it: what a step does to the rows of uploads, the   *)
(* refinement of UploadContract, and the quota.                            *)
(***************************************************************************)
EXTENDS Uploads, NodeTableProofs

-----------------------------------------------------------------------------
(* Initial state and helpers.                                              *)

\* The initial state satisfies the inductive invariant.
LEMMA InitIInv == Init => IInv
<1> SUFFICES ASSUME Init PROVE IInv
  OBVIOUS
<1> USE DEF Init
<1>1. IdleJob \in Job
  BY SystemNodesAssumption, NameAssumption DEF IdleJob, Job
<1>2. \A V : Empty \in [DOMAIN Empty -> V]
  BY DEF Empty
<1>3. DOMAIN Empty = {}
  BY DEF Empty
<1>4. SystemRows \in [System -> NodeRow] /\ DOMAIN SystemRows = System
  BY DEF SystemRows, NewRow, NodeRow
<1>5. TypeOK
  <2>1. nodes \in [DOMAIN nodes -> NodeRow] /\ System \subseteq DOMAIN nodes
        /\ DOMAIN nodes \subseteq Node
    BY <1>4, SystemNodesAssumption DEF System
  <2>2. pc \in [Thread -> Label]
    BY DEF Label
  <2>3. job \in [Thread -> Job]
    BY <1>1
  <2>4. crashes \in 0..MaxCrashes /\ errors \in 0..MaxErrors
    BY BoundAssumption
  <2> QED
    BY <1>2, <1>3, <2>1, <2>2, <2>3, <2>4 DEF TypeOK
<1>6. MutexInv
  BY DEF MutexInv, ClientLabel, ReconcilerLabel, Thread
<1>7. FreshInv /\ RowInv /\ JobInv /\ TodoInv /\ FileInv /\ ObjectInv
  BY <1>3 DEF FreshInv, RowInv, JobInv, TodoInv, FileInv, ObjectInv, Thread
<1> QED
  BY <1>5, <1>6, <1>7 DEF IInv

\* The thread that holds the mutex is the only one past the lock.
LEMMA HolderAlone ==
  ASSUME IInv, NEW t \in Thread, pc[t] \notin {"idle", "reserve"}
  PROVE  mu = t /\ \A s \in Thread \ {t} : pc[s] \in {"idle", "reserve"}
  BY DEF IInv, MutexInv

\* Settling an upload changes its row only, to the state given.
LEMMA SettleEffect ==
  ASSUME TypeOK, NEW u \in DOMAIN uploads, NEW s \in State, uploads' = Settle(u, s)
  PROVE  /\ uploads' \in [DOMAIN uploads' -> UploadRow]
         /\ DOMAIN uploads' = DOMAIN uploads
         /\ uploads'[u].state = s
         /\ \A v \in DOMAIN uploads \ {u} : uploads'[v] = uploads[v]
  BY DEF TypeOK, Settle, UploadRow

\* Setting the state of an upload changes nothing else of any row.
LEMMA SetStateEffect ==
  ASSUME TypeOK, NEW u \in DOMAIN uploads, NEW s \in State, uploads' = SetState(u, s)
  PROVE  /\ uploads' \in [DOMAIN uploads' -> UploadRow]
         /\ DOMAIN uploads' = DOMAIN uploads
         /\ uploads'[u].state = s
         /\ uploads'[u].received = uploads[u].received
         /\ uploads'[u].expected = uploads[u].expected
         /\ \A v \in DOMAIN uploads \ {u} : uploads'[v] = uploads[v]
  BY DEF TypeOK, SetState, UploadRow

\* A handler that returns, whatever the reason, with both stores unchanged.
LEMMA ReturnIInv ==
  ASSUME IInv, NEW p \in Client, Return(p),
         UNCHANGED <<db, disk, late, serving, todo, unlinking, crashes>>,
         errors' \in 0..MaxErrors,
         pc[p] \notin {"idle", "reserve"} \/ mu = Free
  PROVE  IInv'
<1> USE DEF IInv, Return, Thread, db, disk
<1>1. p \in Thread /\ p # Reconciler /\ IdleJob \in Job
  BY ThreadAssumption, SystemNodesAssumption, NameAssumption DEF IdleJob, Job
<1>2. TypeOK'
  BY <1>1 DEF TypeOK, Label
<1>3. MutexInv'
  BY <1>1 DEF MutexInv, ClientLabel, TypeOK
<1>4. FreshInv'
  BY <1>1, UploadAssumption DEF FreshInv, IdleJob, TypeOK
<1>5. RowInv' /\ FileInv' /\ ObjectInv'
  BY DEF RowInv, FileInv, ObjectInv, Holds
<1>6. JobInv'
  BY <1>1 DEF JobInv, Holds, TypeOK
<1>7. TodoInv'
  BY <1>1 DEF TodoInv, TypeOK
<1> QED
  BY <1>2, <1>3, <1>4, <1>5, <1>6, <1>7

\* Bytes appended to a file that held r bytes: it holds r + n bytes, and if the
\* append was never recorded it still holds the first r.
LEMMA AppendedHolds ==
  ASSUME NEW f \in File, NEW r \in Nat, NEW n \in Nat, Holds(f, r)
  PROVE  Holds(Appended(f, r, n), r + n) /\ Holds(Appended(f, r, n), r)
<1> DEFINE g == Appended(f, r, n)
<1>1. g.length = f.length + n /\ f.length \in Nat
  BY DEF Appended, File
<1>2. f.intact /\ (n = 0 \/ f.length = r) => g.intact
  BY DEF Appended
<1>3. f.length >= r /\ (f.length = r => f.intact)
  BY DEF Holds
<1>4. g.length >= r + n /\ g.length >= r
  BY <1>1, <1>3
<1>5. g.length = r + n => f.length = r
  BY <1>1
<1>6. g.length = r => f.length = r /\ n = 0
  BY <1>1, <1>3
<1> HIDE DEF g
<1>7. Holds(g, r + n) /\ Holds(g, r)
  BY <1>2, <1>3, <1>4, <1>5, <1>6 DEF Holds
<1> QED
  BY <1>7 DEF g

\* PATCH copies its body to the staging file: the unrecorded bytes do no harm.
LEMMA PatchAppendIInv ==
  ASSUME IInv, NEW p \in Client, NEW n \in 0..MaxChunk, PatchAppend(p, n)
  PROVE  IInv'
<1> DEFINE u == job[p].upload
<1> USE DEF IInv, PatchAppend, Extend, Thread, db, threads, disk, counters
<1>1. /\ u \in DOMAIN uploads /\ uploads[u].state \in Open /\ u \in DOMAIN staging
      /\ job[p].offset = uploads[u].received
      /\ uploads[u] \in UploadRow /\ staging[u] \in File
      /\ job[p] \in Job /\ n \in Nat /\ p \in Thread /\ p # Reconciler
      /\ mu = p
  BY ThreadAssumption, BoundAssumption DEF JobInv, MutexInv, TypeOK
<1>2. Appended(staging[u], job[p].offset, n) \in File
  BY <1>1 DEF Appended, File, TypeOK
<1>3. staging' \in [DOMAIN staging' -> File] /\ DOMAIN staging' = DOMAIN staging
  BY <1>1, <1>2 DEF TypeOK
<1>4. job' \in [Thread -> Job]
  BY <1>1 DEF TypeOK, Job
<1>5. pc' \in [Thread -> Label]
  BY DEF TypeOK, Label
<1>6. TypeOK'
  BY <1>3, <1>4, <1>5 DEF TypeOK
<1>7. MutexInv'
  BY <1>1, ThreadAssumption DEF MutexInv, ClientLabel, ReconcilerLabel, TypeOK
<1>8. FreshInv'
  BY <1>1, ThreadAssumption DEF FreshInv, TypeOK, MutexInv
<1>9. Holds(staging[u], uploads[u].received)
  BY <1>1 DEF RowInv
<1>10. Holds(staging'[u], uploads[u].received + n) /\ Holds(staging'[u], uploads[u].received)
  <2>1. staging'[u] = Appended(staging[u], uploads[u].received, n)
    BY <1>1 DEF TypeOK
  <2>2. uploads[u].received \in Nat
    BY <1>1 DEF UploadRow
  <2> QED
    BY <1>1, <1>9, <2>1, <2>2, AppendedHolds
<1>11. RowInv'
  BY <1>1, <1>10, ThreadAssumption DEF RowInv, TypeOK, Open
<1>12. JobInv'
  BY <1>1, <1>10, ThreadAssumption DEF TypeOK, JobInv, MutexInv
<1>13. TodoInv'
  BY ThreadAssumption DEF TodoInv, TypeOK
<1>14. FileInv'
  BY DEF FileInv
<1>15. ObjectInv'
  BY <1>3 DEF ObjectInv
<1> QED
  BY <1>6, <1>7, <1>8, <1>11, <1>12, <1>13, <1>14, <1>15 DEF IInv

-----------------------------------------------------------------------------
(* CreateUpload.                                                           *)

\* POST takes a fresh id before the lock.
LEMMA CreateAdmitIInv ==
  ASSUME IInv, NEW p \in Client, NEW u \in Upload, NEW parent \in Node,
         NEW name \in Name, NEW size \in UploadSize,
         CreateAdmit(p, u, parent, name, size)
  PROVE  IInv'
<1> USE DEF IInv, CreateAdmit, Arrives, Thread, db, disk, counters
<1>1. p \in Thread /\ p # Reconciler /\ size \in Nat /\ pc[p] = "idle"
  BY ThreadAssumption, BoundAssumption
<1>2. job' \in [Thread -> Job] /\ job'[p].upload = u
      /\ \A t \in Thread \ {p} : job'[t] = job[t]
  BY <1>1 DEF TypeOK, Job
<1>3. pc' \in [Thread -> Label] /\ pc'[p] = "reserve"
      /\ \A t \in Thread \ {p} : pc'[t] = pc[t]
  BY <1>1 DEF TypeOK, Label
<1>4. TypeOK'
  BY <1>2, <1>3 DEF TypeOK
<1>5. MutexInv'
  BY <1>1, <1>3 DEF MutexInv, ClientLabel
<1>6. FreshInv'
  BY <1>1, <1>2, <1>3 DEF FreshInv, Fresh
<1>7. RowInv' /\ FileInv' /\ ObjectInv'
  BY DEF RowInv, FileInv, ObjectInv
<1>8. JobInv'
  BY <1>1, <1>2, <1>3 DEF JobInv
<1>9. TodoInv'
  BY <1>1, <1>2, <1>3 DEF TodoInv
<1> QED
  BY <1>4, <1>5, <1>6, <1>7, <1>8, <1>9

\* POST gets the lock, with or without both sums.
LEMMA CreateReserveIInv ==
  ASSUME IInv, NEW p \in Client, CreateReserve(p) \/ CreateReserveUnsummed(p)
  PROVE  IInv'
<1> USE DEF IInv, Acquire, Thread, db, disk
<1>0. /\ pc[p] = "reserve" /\ Acquire(p, "stage", job[p])
      /\ UNCHANGED <<db, disk, late, serving, todo, unlinking, crashes>>
      /\ UNCHANGED errors \/ Error
  BY DEF CreateReserve, CreateReserveUnsummed, counters
<1>1. /\ p \in Thread /\ p # Reconciler /\ pc[p] = "reserve" /\ mu = Free /\ mu' = p
      /\ UNCHANGED <<db, disk, late, serving, todo, unlinking, crashes>>
      /\ errors' \in 0..MaxErrors
  BY <1>0, ThreadAssumption, BoundAssumption DEF TypeOK, Error
<1>2. job' = job
  BY <1>0, <1>1 DEF TypeOK
<1>3. pc' \in [Thread -> Label] /\ pc'[p] = "stage"
      /\ \A t \in Thread \ {p} : pc'[t] = pc[t]
  BY <1>0, <1>1 DEF TypeOK, Label
<1>4. TypeOK'
  BY <1>1, <1>2, <1>3 DEF TypeOK
<1>5. MutexInv'
  BY <1>1, <1>3, ThreadAssumption DEF MutexInv, ClientLabel
<1>6. FreshInv'
  BY <1>1, <1>2, <1>3 DEF FreshInv
<1>7. RowInv' /\ FileInv' /\ ObjectInv'
  BY <1>1 DEF RowInv, FileInv, ObjectInv
<1>8. JobInv'
  BY <1>1, <1>2, <1>3 DEF JobInv
<1>9. TodoInv'
  BY <1>1, <1>2, <1>3 DEF TodoInv
<1> QED
  BY <1>4, <1>5, <1>6, <1>7, <1>8, <1>9

\* The staging file appears before its row does.
LEMMA CreateStageIInv ==
  ASSUME IInv, NEW p \in Client, CreateStage(p)
  PROVE  IInv'
<1> DEFINE u == job[p].upload
           f == [length |-> 0, intact |-> TRUE]
<1> USE DEF IInv, CreateStage, Goto, Thread, db, counters
<1>1. /\ p \in Thread /\ p # Reconciler /\ pc[p] = "stage" /\ mu = p
      /\ u \in Upload \ DOMAIN uploads /\ u \notin DOMAIN staging
      /\ u \notin DOMAIN objects
  BY ThreadAssumption DEF MutexInv, FreshInv, ObjectInv
<1>2. /\ staging' \in [DOMAIN staging' -> File]
      /\ DOMAIN staging' = DOMAIN staging \cup {u}
      /\ staging'[u] = f
      /\ \A v \in DOMAIN staging : staging'[v] = staging[v]
  BY <1>1 DEF TypeOK, Put, File
<1>3. pc' \in [Thread -> Label] /\ pc'[p] = "insert"
      /\ \A t \in Thread \ {p} : pc'[t] = pc[t]
  BY <1>1 DEF TypeOK, Label
<1>4. TypeOK'
  BY <1>1, <1>2, <1>3 DEF TypeOK
<1>5. MutexInv'
  BY <1>1, <1>3, ThreadAssumption DEF MutexInv, ClientLabel
<1>6. FreshInv'
  BY <1>1, <1>2, <1>3 DEF FreshInv
<1>7. RowInv'
  BY <1>1, <1>2 DEF RowInv
<1>8. FileInv' /\ ObjectInv'
  BY <1>1, <1>2 DEF FileInv, ObjectInv
<1>9. JobInv'
  BY <1>1, <1>2, <1>3 DEF JobInv
<1>10. TodoInv'
  BY <1>1, <1>3 DEF TodoInv
<1> QED
  BY <1>4, <1>5, <1>6, <1>7, <1>8, <1>9, <1>10

\* The row appears, and its empty staging file holds its 0 bytes.
LEMMA CreateInsertIInv ==
  ASSUME IInv, NEW p \in Client, CreateInsert(p)
  PROVE  IInv'
<1> DEFINE j == job[p]
           u == j.upload
           row == [state |-> "created", parent |-> j.parent, name |-> j.name,
                   expected |-> j.bytes, received |-> 0, reservation |-> j.bytes]
<1> USE DEF IInv, CreateInsert, Return, Thread, disk, counters
<1>1. /\ p \in Thread /\ p # Reconciler /\ pc[p] = "insert" /\ mu = p
      /\ u \in Upload \ DOMAIN uploads /\ u \in DOMAIN staging
      /\ staging[u] = [length |-> 0, intact |-> TRUE]
      /\ j \in Job /\ IdleJob \in Job
  BY ThreadAssumption, SystemNodesAssumption, NameAssumption
  DEF MutexInv, FreshInv, TypeOK, IdleJob, Job
<1>2. /\ uploads' \in [DOMAIN uploads' -> UploadRow]
      /\ DOMAIN uploads' = DOMAIN uploads \cup {u}
      /\ uploads'[u] = row
      /\ \A v \in DOMAIN uploads : uploads'[v] = uploads[v]
  BY <1>1 DEF TypeOK, Put, UploadRow, Job, State, Reserved, Open
<1>3. pc' \in [Thread -> Label] /\ pc'[p] = "idle"
      /\ \A t \in Thread \ {p} : pc'[t] = pc[t]
  BY <1>1 DEF TypeOK, Label
<1>4. job' \in [Thread -> Job] /\ job'[p].upload = NoUpload
      /\ \A t \in Thread \ {p} : job'[t] = job[t]
  BY <1>1 DEF TypeOK, IdleJob
<1>5. TypeOK'
  BY <1>1, <1>2, <1>3, <1>4 DEF TypeOK
<1>6. MutexInv'
  BY <1>1, <1>3, ThreadAssumption DEF MutexInv, ClientLabel
<1>7. FreshInv'
  BY <1>1, <1>2, <1>3, <1>4, UploadAssumption DEF FreshInv
<1>8. RowInv'
  BY <1>1, <1>2 DEF RowInv, Holds, Open
<1>9. FileInv' /\ ObjectInv'
  BY <1>1, <1>2 DEF FileInv, ObjectInv
<1>10. JobInv'
  BY <1>1, <1>2, <1>3, <1>4 DEF JobInv
<1>11. TodoInv'
  BY <1>1, <1>2, <1>3, <1>4 DEF TodoInv
<1> QED
  BY <1>5, <1>6, <1>7, <1>8, <1>9, <1>10, <1>11

\* The INSERT failed: nothing of the creation is left.
LEMMA CreateUndoIInv ==
  ASSUME IInv, NEW p \in Client, CreateUndo(p)
  PROVE  IInv'
<1> DEFINE u == job[p].upload
<1> USE DEF IInv, CreateUndo, Return, Thread, db, counters
<1>1. /\ p \in Thread /\ p # Reconciler /\ pc[p] = "insert" /\ mu = p
      /\ u \in Upload \ DOMAIN uploads
      /\ IdleJob \in Job /\ errors' \in 0..MaxErrors
  BY ThreadAssumption, SystemNodesAssumption, NameAssumption, BoundAssumption
  DEF MutexInv, FreshInv, TypeOK, IdleJob, Job, Error, NoError
<1>2. /\ staging' \in [DOMAIN staging' -> File]
      /\ DOMAIN staging' = DOMAIN staging \ {u}
      /\ \A v \in DOMAIN staging' : staging'[v] = staging[v]
  BY <1>1 DEF TypeOK, Drop
<1>3. pc' \in [Thread -> Label] /\ pc'[p] = "idle"
      /\ \A t \in Thread \ {p} : pc'[t] = pc[t]
  BY <1>1 DEF TypeOK, Label
<1>4. job' \in [Thread -> Job] /\ job'[p].upload = NoUpload
      /\ \A t \in Thread \ {p} : job'[t] = job[t]
  BY <1>1 DEF TypeOK, IdleJob
<1>5. TypeOK'
  BY <1>1, <1>2, <1>3, <1>4 DEF TypeOK
<1>6. MutexInv'
  BY <1>1, <1>3, ThreadAssumption DEF MutexInv, ClientLabel
<1>7. FreshInv'
  BY <1>1, <1>2, <1>3, <1>4, UploadAssumption DEF FreshInv, MutexInv
<1>8. RowInv'
  BY <1>1, <1>2 DEF RowInv
<1>9. FileInv' /\ ObjectInv'
  BY <1>1, <1>2 DEF FileInv, ObjectInv
<1>10. JobInv'
  BY <1>1, <1>2, <1>3, <1>4 DEF JobInv
<1>11. TodoInv'
  BY <1>1, <1>2, <1>3, <1>4 DEF TodoInv
<1> QED
  BY <1>5, <1>6, <1>7, <1>8, <1>9, <1>10, <1>11

-----------------------------------------------------------------------------
(* WriteChunk and finalizeUpload.                                          *)

\* PATCH gets the lock on an open upload at its recorded offset.
LEMMA PatchOpenIInv ==
  ASSUME IInv, NEW p \in Client, NEW u \in Upload, NEW offset \in 0..MaxLength,
         PatchOpen(p, u, offset)
  PROVE  IInv'
<1> DEFINE j == [IdleJob EXCEPT !.upload = u, !.offset = offset]
<1> USE DEF IInv, PatchOpen, Arrives, Acquire, Thread, db, disk, counters
<1>1. /\ p \in Thread /\ p # Reconciler /\ pc[p] = "idle" /\ mu = Free /\ mu' = p
      /\ u \in DOMAIN uploads /\ uploads[u].state \in Open /\ u \in DOMAIN staging
      /\ offset = uploads[u].received
  BY ThreadAssumption DEF OffsetMatches
<1>2. j \in Job /\ j.upload = u /\ j.offset = offset
  <2>1. IdleJob \in Job
    BY SystemNodesAssumption, NameAssumption DEF IdleJob, Job
  <2>2. offset \in Nat
    BY BoundAssumption
  <2> QED
    BY <2>1, <2>2 DEF Job
<1>3. job' \in [Thread -> Job] /\ job'[p].upload = u /\ job'[p].offset = offset
      /\ \A t \in Thread \ {p} : job'[t] = job[t]
  BY <1>1, <1>2 DEF TypeOK
<1>4. pc' \in [Thread -> Label] /\ pc'[p] = "append"
      /\ \A t \in Thread \ {p} : pc'[t] = pc[t]
  BY <1>1 DEF TypeOK, Label
<1>5. TypeOK'
  BY <1>1, <1>3, <1>4 DEF TypeOK
<1>6. MutexInv'
  BY <1>1, <1>4, ThreadAssumption DEF MutexInv, ClientLabel
<1>7. FreshInv'
  BY <1>1, <1>3, <1>4 DEF FreshInv
<1>8. RowInv' /\ FileInv' /\ ObjectInv'
  BY DEF RowInv, FileInv, ObjectInv
<1>9. JobInv'
  BY <1>1, <1>3, <1>4 DEF JobInv
<1>10. TodoInv'
  BY <1>1, <1>3, <1>4 DEF TodoInv
<1> QED
  BY <1>5, <1>6, <1>7, <1>8, <1>9, <1>10

\* PATCH ends early and leaves bytes that received_bytes does not count.
LEMMA PatchCutIInv ==
  ASSUME IInv, NEW p \in Client, NEW n \in 0..MaxChunk, PatchCut(p, n)
  PROVE  IInv'
<1> DEFINE u == job[p].upload
<1> USE DEF IInv, PatchCut, Extend, Return, Thread, db, counters
<1>1. /\ u \in DOMAIN uploads /\ uploads[u].state \in Open /\ u \in DOMAIN staging
      /\ job[p].offset = uploads[u].received
      /\ uploads[u] \in UploadRow /\ staging[u] \in File
      /\ job[p] \in Job /\ n \in Nat /\ p \in Thread /\ p # Reconciler
      /\ mu = p /\ IdleJob \in Job /\ errors' \in 0..MaxErrors
  BY ThreadAssumption, BoundAssumption, SystemNodesAssumption, NameAssumption
  DEF JobInv, MutexInv, TypeOK, Error, IdleJob, Job
<1>2. Appended(staging[u], job[p].offset, n) \in File
  BY <1>1 DEF Appended, File, Job
<1>3. /\ staging' \in [DOMAIN staging' -> File] /\ DOMAIN staging' = DOMAIN staging
      /\ staging'[u] = Appended(staging[u], uploads[u].received, n)
      /\ \A v \in DOMAIN staging \ {u} : staging'[v] = staging[v]
  BY <1>1, <1>2 DEF TypeOK
<1>4. pc' \in [Thread -> Label] /\ pc'[p] = "idle"
      /\ \A t \in Thread \ {p} : pc'[t] = pc[t]
  BY <1>1 DEF TypeOK, Label
<1>5. job' \in [Thread -> Job] /\ job'[p].upload = NoUpload
      /\ \A t \in Thread \ {p} : job'[t] = job[t]
  BY <1>1 DEF TypeOK, IdleJob
<1>6. TypeOK'
  BY <1>1, <1>3, <1>4, <1>5 DEF TypeOK
<1>7. MutexInv'
  BY <1>1, <1>4, ThreadAssumption DEF MutexInv, ClientLabel
<1>8. FreshInv'
  BY <1>1, <1>3, <1>4, <1>5, UploadAssumption DEF FreshInv
<1>9. Holds(staging'[u], uploads[u].received)
  BY <1>1, <1>3, AppendedHolds DEF RowInv, UploadRow
<1>10. RowInv'
  BY <1>1, <1>3, <1>9 DEF RowInv, Open
<1>11. JobInv'
  BY <1>1, <1>3, <1>4, <1>5 DEF JobInv, MutexInv
<1>12. TodoInv'
  BY <1>1, <1>4, <1>5 DEF TodoInv
<1>13. FileInv' /\ ObjectInv'
  BY <1>3 DEF FileInv, ObjectInv
<1> QED
  BY <1>6, <1>7, <1>8, <1>10, <1>11, <1>12, <1>13

\* The row catches up with the file; a whole file goes on to be verified.
LEMMA PatchRecordIInv ==
  ASSUME IInv, NEW p \in Client, PatchRecord(p)
  PROVE  IInv'
<1> DEFINE u == job[p].upload
           r == uploads[u]
           whole == Received(p) = r.expected
           s == IF whole THEN "verifying" ELSE "receiving"
<1> USE DEF IInv, PatchRecord, Thread, disk, counters
<1>1. /\ u \in DOMAIN uploads /\ r.state \in Open /\ u \in DOMAIN staging
      /\ Holds(staging[u], Received(p))
      /\ r \in UploadRow /\ staging[u] \in File
      /\ job[p] \in Job /\ p \in Thread /\ p # Reconciler
      /\ mu = p /\ IdleJob \in Job /\ u \notin DOMAIN objects \cup unlinking
  BY ThreadAssumption, SystemNodesAssumption, NameAssumption
  DEF JobInv, MutexInv, TypeOK, IdleJob, Job, Received, ObjectInv, FileInv, Open
<1>2. Received(p) \in Nat
  BY <1>1 DEF Received, UploadRow, Job
<1>3. /\ uploads' \in [DOMAIN uploads' -> UploadRow]
      /\ DOMAIN uploads' = DOMAIN uploads
      /\ uploads'[u].state = s /\ uploads'[u].received = Received(p)
      /\ uploads'[u].expected = r.expected
      /\ \A v \in DOMAIN uploads \ {u} : uploads'[v] = uploads[v]
  BY <1>1, <1>2 DEF TypeOK, UploadRow, State, Reserved, Open
<1>4. /\ pc' \in [Thread -> Label] /\ pc'[p] = IF whole THEN "hash" ELSE "idle"
      /\ \A t \in Thread \ {p} : pc'[t] = pc[t]
      /\ mu' = IF whole THEN p ELSE Free
  BY <1>1 DEF TypeOK, Label, Goto, Return
<1>5. /\ job' \in [Thread -> Job] /\ job'[p].upload = IF whole THEN u ELSE NoUpload
      /\ \A t \in Thread \ {p} : job'[t] = job[t]
  <2>1. CASE whole
    BY <1>1, <2>1 DEF TypeOK, Goto
  <2>2. CASE ~whole
    <3>1. job' = [job EXCEPT ![p] = IdleJob]
      BY <2>2 DEF Return
    <3>2. IdleJob.upload = NoUpload
      BY DEF IdleJob
    <3> QED
      BY <1>1, <2>2, <3>1, <3>2 DEF TypeOK
  <2> QED
    BY <2>1, <2>2
<1>6. TypeOK'
  BY <1>1, <1>3, <1>4, <1>5 DEF TypeOK
<1>7. MutexInv'
  BY <1>1, <1>4, ThreadAssumption DEF MutexInv, ClientLabel
<1>8. FreshInv'
  BY <1>1, <1>3, <1>4, <1>5, UploadAssumption DEF FreshInv
<1>9. RowInv'
  BY <1>1, <1>3 DEF RowInv, Open
<1>10. JobInv'
  BY <1>1, <1>3, <1>4, <1>5 DEF JobInv, MutexInv
<1>11. TodoInv'
  BY <1>1, <1>3, <1>4, <1>5 DEF TodoInv, MutexInv, Open
<1>12. FileInv' /\ ObjectInv'
  BY <1>1, <1>3 DEF FileInv, ObjectInv, Open
<1> QED
  BY <1>6, <1>7, <1>8, <1>9, <1>10, <1>11, <1>12

\* Phase A: the bytes are still in staging/, and only there.
LEMMA IntendIInv ==
  ASSUME IInv, NEW p \in Client, Intend(p)
  PROVE  IInv'
<1> DEFINE u == job[p].upload
<1> USE DEF IInv, Intend, Goto, Thread, disk, counters
<1>1. /\ u \in DOMAIN uploads /\ uploads[u].state = "verifying" /\ u \in DOMAIN staging
      /\ u \in Upload /\ p \in Thread /\ p # Reconciler /\ mu = p
  BY ThreadAssumption DEF JobInv, MutexInv, TypeOK
<1>2. /\ uploads' \in [DOMAIN uploads' -> UploadRow]
      /\ DOMAIN uploads' = DOMAIN uploads
      /\ uploads'[u].state = "finalizing"
      /\ uploads'[u].expected = uploads[u].expected
      /\ \A v \in DOMAIN uploads \ {u} : uploads'[v] = uploads[v]
  <2>1. "finalizing" \in State
    BY DEF State, Reserved
  <2>2. uploads' = SetState(u, "finalizing")
    OBVIOUS
  <2> QED
    BY <1>1, <2>1, <2>2, SetStateEffect
<1>3. pc' \in [Thread -> Label] /\ pc'[p] = "rename"
      /\ \A t \in Thread \ {p} : pc'[t] = pc[t]
  BY <1>1 DEF TypeOK, Label
<1>4. TypeOK'
  BY <1>1, <1>2, <1>3 DEF TypeOK
<1>5. MutexInv'
  BY <1>1, <1>3, ThreadAssumption DEF MutexInv, ClientLabel
<1>6. FreshInv'
  BY <1>1, <1>2, <1>3 DEF FreshInv
<1>7. RowInv'
  BY <1>1, <1>2 DEF RowInv, Open, ObjectInv
<1>8. JobInv'
  BY <1>1, <1>2, <1>3 DEF JobInv, MutexInv
<1>9. TodoInv'
  BY <1>1, <1>2, <1>3 DEF TodoInv, MutexInv
<1>10. FileInv' /\ ObjectInv'
  BY <1>1, <1>2 DEF FileInv, ObjectInv
<1> QED
  BY <1>4, <1>5, <1>6, <1>7, <1>8, <1>9, <1>10

\* Phase B moves the bytes to objects/ in one step.
LEMMA RenameIInv ==
  ASSUME IInv, NEW p \in Client, Rename(p)
  PROVE  IInv'
<1> DEFINE u == job[p].upload
<1> USE DEF IInv, Rename, MoveToObjects, Goto, Thread, db, counters
<1>1. /\ u \in DOMAIN uploads /\ uploads[u].state = "finalizing"
      /\ u \in DOMAIN staging /\ u \notin DOMAIN objects
      /\ u \in Upload /\ p \in Thread /\ p # Reconciler /\ mu = p
      /\ Holds(staging[u], uploads[u].expected)
  BY ThreadAssumption DEF JobInv, MutexInv, TypeOK, RowInv
<1>2. /\ staging' \in [DOMAIN staging' -> File]
      /\ DOMAIN staging' = DOMAIN staging \ {u}
      /\ \A v \in DOMAIN staging' : staging'[v] = staging[v]
  BY <1>1 DEF TypeOK, Drop
<1>3. /\ objects' \in [DOMAIN objects' -> File]
      /\ DOMAIN objects' = DOMAIN objects \cup {u}
      /\ objects'[u] = staging[u]
      /\ \A v \in DOMAIN objects : objects'[v] = objects[v]
  BY <1>1 DEF TypeOK, Put
<1>4. pc' \in [Thread -> Label] /\ pc'[p] = "commit"
      /\ \A t \in Thread \ {p} : pc'[t] = pc[t]
  BY <1>1 DEF TypeOK, Label
<1>5. TypeOK'
  BY <1>1, <1>2, <1>3, <1>4 DEF TypeOK
<1>6. MutexInv'
  BY <1>1, <1>4, ThreadAssumption DEF MutexInv, ClientLabel
<1>7. FreshInv'
  BY <1>1, <1>2, <1>4 DEF FreshInv, MutexInv
<1>8. RowInv'
  BY <1>1, <1>2, <1>3 DEF RowInv, Open
<1>9. JobInv'
  BY <1>1, <1>2, <1>3, <1>4 DEF JobInv, MutexInv
<1>10. TodoInv'
  BY <1>1, <1>3, <1>4 DEF TodoInv
<1>11. FileInv'
  BY <1>1, <1>3 DEF FileInv
<1>12. ObjectInv'
  BY <1>1, <1>2, <1>3 DEF ObjectInv
<1> QED
  BY <1>5, <1>6, <1>7, <1>8, <1>9, <1>10, <1>11, <1>12

\* What the Phase C transaction does to the tables, for the handler and for the
\* reconciler: one row each in nodes and file_objects, and the upload is settled.
LEMMA PublishEffect ==
  ASSUME IInv, NEW u \in DOMAIN uploads, NEW n \in FileId, Publish(u, n)
  PROVE  /\ nodes' \in [DOMAIN nodes' -> NodeRow] /\ System \subseteq DOMAIN nodes'
         /\ DOMAIN nodes' \subseteq Node
         /\ fileObjects' \in [DOMAIN fileObjects' -> ObjectRow]
         /\ DOMAIN fileObjects' = DOMAIN fileObjects \cup {n} /\ n \in Node
         /\ fileObjects'[n].key = u /\ fileObjects'[n].size = uploads[u].expected
         /\ \A m \in DOMAIN fileObjects \ {n} : /\ fileObjects'[m] = fileObjects[m]
                                                /\ fileObjects[m].key # u
         /\ uploads' \in [DOMAIN uploads' -> UploadRow]
         /\ DOMAIN uploads' = DOMAIN uploads
         /\ uploads'[u].state = "complete"
         /\ \A v \in DOMAIN uploads \ {u} : uploads'[v] = uploads[v]
<1> USE DEF IInv
<1> DEFINE row == NewRow(uploads[u].parent, "file", uploads[u].name)
           fo  == [key |-> u, size |-> uploads[u].expected]
<1>1. u \in Upload /\ uploads[u] \in UploadRow /\ n \in Node
  BY DEF TypeOK, FileId
<1>2. row \in NodeRow /\ fo \in ObjectRow
  BY <1>1 DEF NewRow, NodeRow, ObjectRow, UploadRow
<1>3. /\ nodes' = Put(nodes, n, row) /\ fileObjects' = Put(fileObjects, n, fo)
      /\ uploads' = Settle(u, "complete") /\ CanPublish(u)
  BY DEF Publish
<1>4. fo.key = u /\ fo.size = uploads[u].expected
  OBVIOUS
<1> HIDE DEF row, fo
<1>5. /\ nodes' \in [DOMAIN nodes' -> NodeRow] /\ DOMAIN nodes' \subseteq Node
      /\ DOMAIN nodes' = DOMAIN nodes \cup {n}
  BY <1>1, <1>2, <1>3 DEF TypeOK, Put
<1>6. /\ fileObjects' \in [DOMAIN fileObjects' -> ObjectRow]
      /\ DOMAIN fileObjects' = DOMAIN fileObjects \cup {n}
      /\ fileObjects'[n] = fo
      /\ \A m \in DOMAIN fileObjects \ {n} : fileObjects'[m] = fileObjects[m]
  BY <1>1, <1>2, <1>3 DEF TypeOK, Put
<1>7. \A m \in DOMAIN fileObjects : fileObjects[m].key # u
  BY <1>3 DEF CanPublish
<1>8. "complete" \in State
  BY DEF State
<1>9. System \subseteq DOMAIN nodes'
  BY <1>5 DEF TypeOK
<1> QED
  BY <1>1, <1>3, <1>4, <1>5, <1>6, <1>7, <1>8, <1>9, SettleEffect

\* Phase C keeps FileInv: the new file's object is there, is no other file's,
\* and no purge handler holds its key.
LEMMA PublishFileInv ==
  ASSUME IInv, NEW u \in DOMAIN uploads, NEW n \in FileId, Publish(u, n),
         uploads[u].state = "finalizing", u \in DOMAIN objects,
         UNCHANGED <<objects, unlinking>>
  PROVE  FileInv'
<1> USE DEF IInv
<1>1. /\ DOMAIN fileObjects' = DOMAIN fileObjects \cup {n}
      /\ fileObjects'[n].key = u /\ fileObjects'[n].size = uploads[u].expected
      /\ \A m \in DOMAIN fileObjects \ {n} : /\ fileObjects'[m] = fileObjects[m]
                                             /\ fileObjects[m].key # u
      /\ DOMAIN uploads' = DOMAIN uploads
      /\ uploads'[u].state = "complete"
      /\ \A v \in DOMAIN uploads \ {u} : uploads'[v] = uploads[v]
  BY PublishEffect
<1>2. Holds(objects[u], uploads[u].expected) /\ u \notin unlinking
  BY DEF RowInv, FileInv, ObjectInv
<1> QED
  BY <1>1, <1>2 DEF FileInv

\* Phase C publishes the file and settles the upload.
LEMMA CommitIInv ==
  ASSUME IInv, NEW p \in Client, NEW n \in FileId, Commit(p, n)
  PROVE  IInv'
<1> DEFINE u == job[p].upload
<1> USE DEF IInv, Commit, Return, Thread, disk, counters
<1>1. /\ u \in DOMAIN uploads /\ uploads[u].state = "finalizing" /\ u \in DOMAIN objects
      /\ p \in Thread /\ p # Reconciler /\ mu = p /\ IdleJob \in Job
  BY ThreadAssumption, SystemNodesAssumption, NameAssumption
  DEF JobInv, MutexInv, TypeOK, IdleJob, Job
<1>2. /\ nodes' \in [DOMAIN nodes' -> NodeRow] /\ System \subseteq DOMAIN nodes'
      /\ DOMAIN nodes' \subseteq Node
      /\ fileObjects' \in [DOMAIN fileObjects' -> ObjectRow]
      /\ DOMAIN fileObjects' = DOMAIN fileObjects \cup {n} /\ n \in Node
      /\ uploads' \in [DOMAIN uploads' -> UploadRow]
      /\ DOMAIN uploads' = DOMAIN uploads
      /\ uploads'[u].state = "complete"
      /\ \A v \in DOMAIN uploads \ {u} : uploads'[v] = uploads[v]
  BY <1>1, PublishEffect
<1>3. pc' \in [Thread -> Label] /\ pc'[p] = "idle"
      /\ \A t \in Thread \ {p} : pc'[t] = pc[t]
  BY <1>1 DEF TypeOK, Label
<1>4. job' \in [Thread -> Job] /\ job'[p].upload = NoUpload
      /\ \A t \in Thread \ {p} : job'[t] = job[t]
  BY <1>1 DEF TypeOK, IdleJob
<1>5. TypeOK'
  BY <1>2, <1>3, <1>4 DEF TypeOK
<1>6. MutexInv'
  BY <1>1, <1>3, ThreadAssumption DEF MutexInv, ClientLabel
<1>7. FreshInv'
  BY <1>1, <1>2, <1>3, <1>4, UploadAssumption DEF FreshInv
<1>8. RowInv' /\ ObjectInv'
  BY <1>1, <1>2 DEF RowInv, ObjectInv, Open
<1>9. JobInv' /\ TodoInv'
  BY <1>1, <1>2, <1>3, <1>4 DEF JobInv, TodoInv, MutexInv
<1>10. FileInv'
  BY <1>1, PublishFileInv
<1> QED
  BY <1>5, <1>6, <1>7, <1>8, <1>9, <1>10

-----------------------------------------------------------------------------
(* TerminateUpload.                                                        *)

\* DELETE settles any upload that is not complete.
LEMMA TerminateIInv ==
  ASSUME IInv, NEW p \in Client, NEW u \in Upload, Terminate(p, u)
  PROVE  IInv'
<1> DEFINE j == [IdleJob EXCEPT !.upload = u]
<1> USE DEF IInv, Terminate, Terminable, Arrives, Acquire, Thread, disk, counters
<1>1. /\ p \in Thread /\ p # Reconciler /\ pc[p] = "idle" /\ mu = Free /\ mu' = p
      /\ u \in DOMAIN uploads /\ uploads[u].state # "complete"
  BY ThreadAssumption
<1>2. /\ uploads' \in [DOMAIN uploads' -> UploadRow]
      /\ DOMAIN uploads' = DOMAIN uploads
      /\ uploads'[u].state = "terminated"
      /\ \A v \in DOMAIN uploads \ {u} : uploads'[v] = uploads[v]
  <2>1. "terminated" \in State
    BY DEF State
  <2> QED
    BY <1>1, <2>1, SettleEffect
<1>3. j \in Job /\ j.upload = u
  <2>1. IdleJob \in Job
    BY SystemNodesAssumption, NameAssumption DEF IdleJob, Job
  <2> QED
    BY <2>1 DEF Job
<1>4. job' \in [Thread -> Job] /\ job'[p].upload = u
      /\ \A t \in Thread \ {p} : job'[t] = job[t]
  BY <1>1, <1>3 DEF TypeOK
<1>5. pc' \in [Thread -> Label] /\ pc'[p] = "unstage"
      /\ \A t \in Thread \ {p} : pc'[t] = pc[t]
  BY <1>1 DEF TypeOK, Label
<1>6. TypeOK'
  BY <1>1, <1>2, <1>4, <1>5 DEF TypeOK
<1>7. MutexInv'
  BY <1>1, <1>5, ThreadAssumption DEF MutexInv, ClientLabel
<1>8. FreshInv'
  BY <1>1, <1>2, <1>4, <1>5 DEF FreshInv
<1>9. RowInv' /\ ObjectInv'
  BY <1>1, <1>2 DEF RowInv, ObjectInv, Open
<1>10. JobInv' /\ TodoInv'
  BY <1>1, <1>2, <1>4, <1>5, ThreadAssumption DEF JobInv, TodoInv, MutexInv
<1>11. FileInv'
  BY <1>1, <1>2 DEF FileInv
<1> QED
  BY <1>6, <1>7, <1>8, <1>9, <1>10, <1>11

\* DELETE removes the staging file of the upload it has just settled.
LEMMA UnstageIInv ==
  ASSUME IInv, NEW p \in Client, Unstage(p)
  PROVE  IInv'
<1> DEFINE u == job[p].upload
<1> USE DEF IInv, Unstage, Return, Thread, db, counters
<1>1. /\ p \in Thread /\ p # Reconciler /\ pc[p] = "unstage" /\ mu = p
      /\ u \in DOMAIN uploads /\ uploads[u].state = "terminated" /\ IdleJob \in Job
  BY ThreadAssumption, SystemNodesAssumption, NameAssumption
  DEF JobInv, MutexInv, TypeOK, IdleJob, Job
<1>2. /\ staging' \in [DOMAIN staging' -> File]
      /\ DOMAIN staging' = DOMAIN staging \ {u}
      /\ \A v \in DOMAIN staging' : staging'[v] = staging[v]
  BY <1>1 DEF TypeOK, Drop
<1>3. pc' \in [Thread -> Label] /\ pc'[p] = "idle"
      /\ \A t \in Thread \ {p} : pc'[t] = pc[t]
  BY <1>1 DEF TypeOK, Label
<1>4. job' \in [Thread -> Job] /\ job'[p].upload = NoUpload
      /\ \A t \in Thread \ {p} : job'[t] = job[t]
  BY <1>1 DEF TypeOK, IdleJob
<1>5. TypeOK'
  BY <1>2, <1>3, <1>4 DEF TypeOK
<1>6. MutexInv'
  BY <1>1, <1>3, ThreadAssumption DEF MutexInv, ClientLabel
<1>7. FreshInv'
  BY <1>1, <1>2, <1>3, <1>4, UploadAssumption DEF FreshInv, MutexInv
<1>8. RowInv'
  BY <1>1, <1>2 DEF RowInv, Open
<1>9. JobInv' /\ TodoInv'
  BY <1>1, <1>2, <1>3, <1>4 DEF JobInv, TodoInv, MutexInv
<1>10. FileInv' /\ ObjectInv'
  BY <1>2 DEF FileInv, ObjectInv
<1> QED
  BY <1>5, <1>6, <1>7, <1>8, <1>9, <1>10

-----------------------------------------------------------------------------
(* Handlers that return early, by ReturnIInv.                              *)

\* A handler that rejects its request, or fails without an effect, only returns.
LEMMA EarlyReturnIInv ==
  ASSUME IInv, NEW p \in Client,
         CreateReject(p) \/ PatchOverlong(p) \/ CommitConflict(p) \/ HandlerError(p)
  PROVE  IInv'
<1>1. Return(p) /\ UNCHANGED <<db, disk, late, serving, todo, unlinking, crashes>>
  BY DEF CreateReject, PatchOverlong, CommitConflict, HandlerError, counters
<1>2. errors' \in 0..MaxErrors
  BY BoundAssumption
  DEF IInv, TypeOK, CreateReject, PatchOverlong, CommitConflict, HandlerError,
      counters, Error, NoError
<1>3. pc[p] \notin {"idle", "reserve"} \/ mu = Free
  BY DEF CreateReject, PatchOverlong, CommitConflict, HandlerError
<1> QED
  BY <1>1, <1>2, <1>3, ReturnIInv

-----------------------------------------------------------------------------
(* Reconcile.                                                              *)

\* While the reconciler works, no handler is past the lock.
LEMMA ReconcilerAlone ==
  ASSUME IInv, pc[Reconciler] # "idle"
  PROVE  /\ mu = Reconciler
         /\ \A p \in Client : pc[p] \in {"idle", "reserve"}
  BY ThreadAssumption DEF IInv, MutexInv, Thread, ReconcilerLabel

\* The reconciler gets the lock and lists the open uploads past their deadline.
LEMMA ReconcileStartIInv ==
  ASSUME IInv, ReconcileStart
  PROVE  IInv'
<1> USE DEF IInv, ReconcileStart, Acquire, Thread, db, disk, counters
<1>1. /\ Reconciler \notin Client /\ mu = Free /\ mu' = Reconciler /\ IdleJob \in Job
      /\ \A p \in Client : pc[p] \in {"idle", "reserve"}
  BY ThreadAssumption, SystemNodesAssumption, NameAssumption DEF MutexInv, IdleJob, Job
<1>2. pc' \in [Thread -> Label] /\ pc'[Reconciler] = "expire"
      /\ \A t \in Client : pc'[t] = pc[t]
  BY <1>1 DEF TypeOK, Label
<1>3. job' \in [Thread -> Job] /\ job'[Reconciler].upload = NoUpload
      /\ \A t \in Client : job'[t] = job[t]
  BY <1>1 DEF TypeOK, IdleJob
<1>4. todo' \subseteq Upload /\ todo' = Expirable
  BY DEF TypeOK, Expirable
<1>5. TypeOK'
  BY <1>1, <1>2, <1>3, <1>4 DEF TypeOK
<1>6. MutexInv'
  BY <1>1, <1>2 DEF MutexInv, ReconcilerLabel
<1>7. FreshInv'
  BY <1>1, <1>2, <1>3, UploadAssumption DEF FreshInv
<1>8. RowInv' /\ ObjectInv' /\ FileInv'
  BY DEF RowInv, ObjectInv, FileInv
<1>9. JobInv'
  BY <1>1, <1>2, <1>3 DEF JobInv
<1>10. TodoInv'
  BY <1>2, <1>3, <1>4 DEF TodoInv, Expirable
<1> QED
  BY <1>5, <1>6, <1>7, <1>8, <1>9, <1>10

\* An expired upload was open, so nobody's object or file row is affected, also
\* when the UPDATE fails.
LEMMA ExpireIInv ==
  ASSUME IInv, NEW u \in Upload, Expire(u)
  PROVE  IInv'
<1> USE DEF IInv, Expire, Thread, disk
<1>1. /\ u \in DOMAIN uploads /\ u \in late /\ uploads[u].state \in Open
      /\ pc[Reconciler] = "expire" /\ Reconciler \notin Client
      /\ mu = Reconciler /\ \A p \in Client : pc[p] \in {"idle", "reserve"}
      /\ errors' \in 0..MaxErrors
  BY ReconcilerAlone, ThreadAssumption, BoundAssumption
  DEF TodoInv, TypeOK, Error, NoError
<1>2. /\ uploads' \in [DOMAIN uploads' -> UploadRow]
      /\ DOMAIN uploads' = DOMAIN uploads
      /\ uploads'[u] = uploads[u] \/ uploads'[u].state = "expired"
      /\ \A v \in DOMAIN uploads \ {u} : uploads'[v] = uploads[v]
  <2>1. "expired" \in State
    BY DEF State
  <2>2. CASE uploads' = Settle(u, "expired")
    BY <1>1, <2>1, <2>2, SettleEffect
  <2>3. CASE UNCHANGED uploads
    BY <2>3 DEF TypeOK
  <2> QED
    BY <2>2, <2>3
<1>3. pc' \in [Thread -> Label] /\ pc'[Reconciler] = "expireUnstage"
      /\ \A t \in Client : pc'[t] = pc[t]
  BY <1>1 DEF TypeOK, Label
<1>4. job' \in [Thread -> Job] /\ job'[Reconciler].upload = u
      /\ \A t \in Client : job'[t] = job[t]
  BY <1>1 DEF TypeOK, Job
<1>5. TypeOK'
  BY <1>1, <1>2, <1>3, <1>4 DEF TypeOK
<1>6. MutexInv'
  BY <1>1, <1>3 DEF MutexInv, ReconcilerLabel
<1>7. FreshInv'
  BY <1>1, <1>2, <1>3, <1>4 DEF FreshInv
<1>8. RowInv' /\ ObjectInv'
  BY <1>1, <1>2 DEF RowInv, ObjectInv, Open
<1>9. FileInv'
  BY <1>1, <1>2 DEF FileInv, Open
<1>10. JobInv'
  BY <1>1, <1>3, <1>4 DEF JobInv
<1>11. TodoInv'
  BY <1>1, <1>2, <1>3, <1>4 DEF TodoInv
<1> QED
  BY <1>5, <1>6, <1>7, <1>8, <1>9, <1>10, <1>11

\* The staging file of a listed upload goes; the row may still be open, but it
\* is past its deadline and no PATCH will take it.
LEMMA ExpireUnstageIInv ==
  ASSUME IInv, ExpireUnstage
  PROVE  IInv'
<1> DEFINE u == job[Reconciler].upload
<1> USE DEF IInv, ExpireUnstage, Goto, Thread, db
<1>1. /\ u \in DOMAIN uploads /\ u \in late /\ uploads[u].state \in Open \cup {"expired"}
      /\ pc[Reconciler] = "expireUnstage" /\ Reconciler \notin Client
      /\ mu = Reconciler /\ \A p \in Client : pc[p] \in {"idle", "reserve"}
      /\ errors' \in 0..MaxErrors
  BY ReconcilerAlone, ThreadAssumption, BoundAssumption
  DEF TodoInv, TypeOK, Error, NoError
<1>2. /\ staging' \in [DOMAIN staging' -> File]
      /\ DOMAIN staging' \subseteq DOMAIN staging
      /\ DOMAIN staging \ {u} \subseteq DOMAIN staging'
      /\ \A v \in DOMAIN staging' : staging'[v] = staging[v]
  BY DEF TypeOK, Drop
<1>3. pc' \in [Thread -> Label] /\ pc'[Reconciler] = "expire"
      /\ \A t \in Client : pc'[t] = pc[t]
  BY <1>1 DEF TypeOK, Label
<1>4. TypeOK'
  BY <1>1, <1>2, <1>3 DEF TypeOK
<1>5. MutexInv'
  BY <1>1, <1>3 DEF MutexInv, ReconcilerLabel
<1>6. FreshInv'
  BY <1>1, <1>2, <1>3 DEF FreshInv
<1>7. RowInv'
  BY <1>1, <1>2 DEF RowInv, Open
<1>8. ObjectInv' /\ FileInv'
  BY <1>2 DEF ObjectInv, FileInv
<1>9. JobInv'
  BY <1>1, <1>3 DEF JobInv
<1>10. TodoInv'
  BY <1>1, <1>3 DEF TodoInv
<1> QED
  BY <1>4, <1>5, <1>6, <1>7, <1>8, <1>9, <1>10

\* The second list: the uploads that are finalizing.
LEMMA ListUnfinishedIInv ==
  ASSUME IInv, ListUnfinished
  PROVE  IInv'
<1> USE DEF IInv, ListUnfinished, Goto, Thread, db, disk
<1>1. /\ pc[Reconciler] = "expire" /\ Reconciler \notin Client
      /\ mu = Reconciler /\ \A p \in Client : pc[p] \in {"idle", "reserve"}
      /\ errors' \in 0..MaxErrors
  BY ReconcilerAlone, ThreadAssumption, BoundAssumption DEF TypeOK, Error, NoError
<1>2. pc' \in [Thread -> Label] /\ pc'[Reconciler] = "resolve"
      /\ \A t \in Client : pc'[t] = pc[t]
  BY <1>1 DEF TypeOK, Label
<1>3. TypeOK'
  BY <1>1, <1>2 DEF TypeOK, Unfinished
<1>4. MutexInv'
  BY <1>1, <1>2 DEF MutexInv, ReconcilerLabel
<1>5. FreshInv' /\ JobInv'
  BY <1>1, <1>2 DEF FreshInv, JobInv
<1>6. RowInv' /\ ObjectInv' /\ FileInv'
  BY DEF RowInv, ObjectInv, FileInv
<1>7. TodoInv'
  BY <1>2 DEF TodoInv, Unfinished
<1> QED
  BY <1>3, <1>4, <1>5, <1>6, <1>7

\* The row of a finalizing upload says where its bytes are, so the reconciler
\* never comes to "neither exists".
LEMMA ResolveIInv ==
  ASSUME IInv, NEW u \in Upload, Resolve(u)
  PROVE  IInv'
<1> USE DEF IInv, Resolve, Thread, counters
<1>1. /\ u \in todo /\ u \in DOMAIN uploads /\ uploads[u].state = "finalizing"
      /\ pc[Reconciler] = "resolve" /\ Reconciler \notin Client
      /\ mu = Reconciler /\ \A p \in Client : pc[p] \in {"idle", "reserve"}
  BY ReconcilerAlone, ThreadAssumption DEF TodoInv, MutexInv
<1>2. u \in DOMAIN objects \cup DOMAIN staging
  BY <1>1 DEF RowInv
<1>3. /\ UNCHANGED <<uploads, todo, errors, crashes>>
      /\ IF u \in DOMAIN objects THEN UNCHANGED disk ELSE MoveToObjects(u)
      /\ pc' = [pc EXCEPT ![Reconciler] = "republish"]
      /\ job' = [job EXCEPT ![Reconciler].upload = u]
  BY <1>2
<1>4. /\ staging' \in [DOMAIN staging' -> File]
      /\ DOMAIN staging' = DOMAIN staging \ {u}
      /\ \A v \in DOMAIN staging' : staging'[v] = staging[v]
  <2>1. CASE u \in DOMAIN objects
    BY <1>3, <2>1 DEF TypeOK, ObjectInv, disk
  <2>2. CASE u \notin DOMAIN objects
    BY <1>3, <2>2 DEF TypeOK, MoveToObjects, Drop
  <2> QED
    BY <2>1, <2>2
<1>5. /\ objects' \in [DOMAIN objects' -> File]
      /\ DOMAIN objects' = DOMAIN objects \cup {u}
      /\ \A v \in DOMAIN objects : objects'[v] = objects[v]
      /\ u \notin DOMAIN objects => objects'[u] = staging[u]
  <2>1. CASE u \in DOMAIN objects
    BY <1>3, <2>1 DEF TypeOK, disk
  <2>2. CASE u \notin DOMAIN objects
    BY <1>1, <1>3, <2>2 DEF TypeOK, MoveToObjects, Put
  <2> QED
    BY <2>1, <2>2
<1>6. pc' \in [Thread -> Label] /\ pc'[Reconciler] = "republish"
      /\ \A t \in Client : pc'[t] = pc[t]
  BY <1>1, <1>3 DEF TypeOK, Label
<1>7. job' \in [Thread -> Job] /\ job'[Reconciler].upload = u
      /\ \A t \in Client : job'[t] = job[t]
  BY <1>1, <1>3 DEF TypeOK, Job
<1>8. TypeOK'
  BY <1>1, <1>3, <1>4, <1>5, <1>6, <1>7 DEF TypeOK
<1>9. MutexInv'
  BY <1>1, <1>6 DEF MutexInv, ReconcilerLabel
<1>10. FreshInv'
  BY <1>1, <1>3, <1>4, <1>6, <1>7 DEF FreshInv
<1>11. RowInv'
  BY <1>1, <1>3, <1>4, <1>5 DEF RowInv, Open
<1>12. ObjectInv'
  BY <1>1, <1>3, <1>4, <1>5 DEF ObjectInv
<1>13. FileInv'
  BY <1>1, <1>3, <1>5 DEF FileInv
<1>14. JobInv'
  BY <1>1, <1>6, <1>7 DEF JobInv
<1>15. TodoInv'
  BY <1>1, <1>3, <1>5, <1>6, <1>7 DEF TodoInv
<1> QED
  BY <1>8, <1>9, <1>10, <1>11, <1>12, <1>13, <1>14, <1>15

\* A listed upload that cannot be moved waits for the next run.
LEMMA ResolveSkipIInv ==
  ASSUME IInv, NEW u \in Upload, ResolveSkip(u)
  PROVE  IInv'
<1> USE DEF IInv, ResolveSkip, db, disk, threads
<1>1. errors' \in 0..MaxErrors
  BY BoundAssumption DEF TypeOK, Error
<1>2. TypeOK'
  BY <1>1 DEF TypeOK
<1>3. MutexInv' /\ FreshInv' /\ RowInv' /\ JobInv' /\ FileInv' /\ ObjectInv'
  BY DEF MutexInv, FreshInv, RowInv, JobInv, FileInv, ObjectInv
<1>4. TodoInv'
  BY DEF TodoInv
<1> QED
  BY <1>2, <1>3, <1>4

\* The reconciler goes on to the next upload, having settled u as complete (with
\* a file or without) or left it as it is; u's bytes are in objects/.
LEMMA ResolveNextIInv ==
  ASSUME IInv, NEW u \in DOMAIN uploads,
         pc[Reconciler] = "republish", u = job[Reconciler].upload,
         staging' = Drop(staging, {u}), ResolveNext(u),
         UNCHANGED <<objects, late, serving, unlinking, crashes>>,
         errors' \in 0..MaxErrors,
         nodes' \in [DOMAIN nodes' -> NodeRow], System \subseteq DOMAIN nodes',
         DOMAIN nodes' \subseteq Node,
         fileObjects' \in [DOMAIN fileObjects' -> ObjectRow],
         DOMAIN fileObjects' \subseteq Node,
         uploads' \in [DOMAIN uploads' -> UploadRow], DOMAIN uploads' = DOMAIN uploads,
         uploads'[u] = uploads[u] \/ uploads'[u].state = "complete",
         \A v \in DOMAIN uploads \ {u} : uploads'[v] = uploads[v],
         FileInv'
  PROVE  IInv'
<1> USE DEF IInv, Thread
<1>1. /\ u \in todo /\ u \in DOMAIN objects /\ uploads[u].state = "finalizing"
      /\ u \notin DOMAIN staging /\ Reconciler \notin Client
      /\ mu = Reconciler /\ \A p \in Client : pc[p] \in {"idle", "reserve"}
  BY ReconcilerAlone, ThreadAssumption DEF TodoInv, ObjectInv
<1>2. staging' = staging
  BY <1>1 DEF TypeOK, Drop
<1>3. /\ pc' \in [Thread -> Label] /\ pc'[Reconciler] = "resolve"
      /\ \A t \in Client : pc'[t] = pc[t]
      /\ UNCHANGED <<mu, job>> /\ todo' = todo \ {u}
  BY <1>1 DEF TypeOK, Label, ResolveNext, Goto
<1>4. TypeOK'
  BY <1>2, <1>3 DEF TypeOK
<1>5. MutexInv'
  BY <1>1, <1>3 DEF MutexInv, ReconcilerLabel
<1>6. FreshInv'
  BY <1>1, <1>2, <1>3 DEF FreshInv
<1>7. RowInv' /\ ObjectInv'
  <2>1. UNCHANGED <<staging, objects, late>>
    BY <1>2
  <2>2. ObjectInv'
    BY <2>1 DEF ObjectInv
  <2>3. CASE uploads'[u] = uploads[u]
    BY <2>1, <2>2, <2>3 DEF RowInv
  <2>4. CASE uploads'[u].state = "complete"
    BY <2>1, <2>2, <2>4 DEF RowInv, Open
  <2> QED
    BY <2>3, <2>4
<1>8. JobInv'
  BY <1>1, <1>3 DEF JobInv
<1>9. TodoInv'
  BY <1>1, <1>3 DEF TodoInv
<1> QED
  BY <1>4, <1>5, <1>6, <1>7, <1>8, <1>9

\* The three outcomes of the reconciler's transaction: published, settled without
\* a file, or left for the next run.
LEMMA RepublishIInv ==
  ASSUME IInv,
         (\E n \in FileId : Republish(n)) \/ RepublishRejected \/ RepublishFailed
  PROVE  IInv'
<1> DEFINE u == job[Reconciler].upload
<1>1. /\ u \in DOMAIN uploads /\ uploads[u].state = "finalizing" /\ u \in DOMAIN objects
      /\ pc[Reconciler] = "republish" /\ staging' = Drop(staging, {u}) /\ ResolveNext(u)
      /\ UNCHANGED <<objects, late, serving, unlinking, crashes>>
      /\ errors' \in 0..MaxErrors
  <2>1. /\ pc[Reconciler] = "republish"
        /\ staging' = Drop(staging, {u}) /\ ResolveNext(u)
        /\ UNCHANGED <<objects, late, serving, unlinking, crashes>>
        /\ UNCHANGED errors \/ Error
    <3>1. CASE \E n \in FileId : Republish(n)
      BY <3>1 DEF Republish, counters
    <3>2. CASE RepublishRejected
      BY <3>2 DEF RepublishRejected, NoError
    <3>3. CASE RepublishFailed
      BY <3>3 DEF RepublishFailed, db
    <3> QED
      BY <3>1, <3>2, <3>3
  <2>2. errors' \in 0..MaxErrors
    BY <2>1, BoundAssumption DEF IInv, TypeOK, Error
  <2> QED
    BY <2>1, <2>2 DEF IInv, TodoInv
<1>2. CASE \E n \in FileId : Republish(n)
  <2> PICK n \in FileId : Republish(n)
    BY <1>2
  <2>1. Publish(u, n)
    BY DEF Republish
  <2>2. FileInv'
    BY <1>1, <2>1, PublishFileInv
  <2>3. /\ nodes' \in [DOMAIN nodes' -> NodeRow] /\ System \subseteq DOMAIN nodes'
        /\ DOMAIN nodes' \subseteq Node
        /\ fileObjects' \in [DOMAIN fileObjects' -> ObjectRow]
        /\ DOMAIN fileObjects' = DOMAIN fileObjects \cup {n} /\ n \in Node
        /\ uploads' \in [DOMAIN uploads' -> UploadRow]
        /\ DOMAIN uploads' = DOMAIN uploads
        /\ uploads'[u].state = "complete"
        /\ \A v \in DOMAIN uploads \ {u} : uploads'[v] = uploads[v]
    BY <1>1, <2>1, PublishEffect
  <2>4. DOMAIN fileObjects' \subseteq Node
    BY <2>3 DEF IInv, TypeOK
  <2> QED
    BY <1>1, <2>2, <2>3, <2>4, ResolveNextIInv
<1>3. CASE RepublishRejected
  <2>1. uploads' = Settle(u, "complete") /\ UNCHANGED <<nodes, fileObjects>>
    BY <1>3 DEF RepublishRejected
  <2>2. "complete" \in State
    BY DEF State
  <2>3. /\ uploads' \in [DOMAIN uploads' -> UploadRow] /\ DOMAIN uploads' = DOMAIN uploads
        /\ uploads'[u].state = "complete"
        /\ \A v \in DOMAIN uploads \ {u} : uploads'[v] = uploads[v]
    BY <1>1, <2>1, <2>2, SettleEffect DEF IInv
  <2>4. FileInv'
    BY <1>1, <2>1, <2>3 DEF IInv, FileInv
  <2> QED
    BY <1>1, <2>1, <2>3, <2>4, ResolveNextIInv DEF IInv, TypeOK
<1>4. CASE RepublishFailed
  <2>1. UNCHANGED <<nodes, fileObjects, uploads>>
    BY <1>4 DEF RepublishFailed, db
  <2>2. FileInv'
    BY <1>1, <2>1 DEF IInv, FileInv
  <2> QED
    BY <1>1, <2>1, <2>2, ResolveNextIInv DEF IInv, TypeOK
<1> QED
  BY <1>2, <1>3, <1>4

\* The reconciler returns and the server may listen.
LEMMA ReconcileEndIInv ==
  ASSUME IInv, ReconcileEnd
  PROVE  IInv'
<1> USE DEF IInv, ReconcileEnd, Return, Thread, db, disk
<1>1. /\ Reconciler \notin Client /\ IdleJob \in Job /\ errors' \in 0..MaxErrors
      /\ mu = Reconciler /\ \A p \in Client : pc[p] \in {"idle", "reserve"}
  BY ReconcilerAlone, ThreadAssumption, BoundAssumption, SystemNodesAssumption,
     NameAssumption
  DEF TypeOK, Error, NoError, IdleJob, Job
<1>2. pc' \in [Thread -> Label] /\ pc'[Reconciler] = "idle"
      /\ \A t \in Client : pc'[t] = pc[t]
  BY <1>1 DEF TypeOK, Label
<1>3. job' \in [Thread -> Job] /\ job'[Reconciler].upload = NoUpload
      /\ \A t \in Client : job'[t] = job[t]
  BY <1>1 DEF TypeOK, IdleJob
<1>4. TypeOK'
  BY <1>1, <1>2, <1>3 DEF TypeOK
<1>5. MutexInv'
  BY <1>1, <1>2 DEF MutexInv, ReconcilerLabel
<1>6. FreshInv'
  BY <1>1, <1>2, <1>3, UploadAssumption DEF FreshInv
<1>7. RowInv' /\ ObjectInv' /\ FileInv'
  BY DEF RowInv, ObjectInv, FileInv
<1>8. JobInv' /\ TodoInv'
  BY <1>1, <1>2, <1>3 DEF JobInv, TodoInv
<1> QED
  BY <1>4, <1>5, <1>6, <1>7, <1>8

-----------------------------------------------------------------------------
(* The files service.                                                      *)

\* A well-typed step of the table nodes alone: the invariant relates nothing to
\* the rows of nodes.
LEMMA NodesIInv ==
  ASSUME IInv,
         nodes' \in [DOMAIN nodes' -> NodeRow], System \subseteq DOMAIN nodes',
         DOMAIN nodes' \subseteq Node,
         UNCHANGED <<fileObjects, uploads, disk, late, serving, threads, todo,
                     unlinking, counters>>
  PROVE  IInv'
<1> USE DEF IInv, disk, threads, counters
<1>1. TypeOK'
  BY DEF TypeOK
<1>2. MutexInv' /\ FreshInv' /\ RowInv' /\ JobInv'
  BY DEF MutexInv, FreshInv, RowInv, JobInv
<1>3. TodoInv' /\ FileInv' /\ ObjectInv'
  BY DEF TodoInv, FileInv, ObjectInv
<1> QED
  BY <1>1, <1>2, <1>3

\* Folder creation, trash and restore write well-typed rows of nodes.
LEMMA TreeIInv ==
  ASSUME IInv,
         \/ \E n \in NewFolder, parent \in Node, name \in Name :
              CreateFolder(n, parent, name)
         \/ \E n \in Node : TrashNode(n) \/ RestoreNode(n)
  PROVE  IInv'
<1>1. ASSUME NEW n \in NewFolder, NEW parent \in Node, NEW name \in Name,
             CreateFolder(n, parent, name)
      PROVE  IInv'
  <2>1. NewRow(parent, "folder", name) \in NodeRow /\ n \in Node
    BY NodeAssumption DEF NewRow, NodeRow
  <2>2. nodes' = Put(nodes, n, NewRow(parent, "folder", name))
    BY <1>1 DEF CreateFolder
  <2>3. /\ nodes' \in [DOMAIN nodes' -> NodeRow] /\ System \subseteq DOMAIN nodes'
        /\ DOMAIN nodes' \subseteq Node
    BY <2>1, <2>2 DEF IInv, TypeOK, Put
  <2> QED
    BY <1>1, <2>3, NodesIInv DEF CreateFolder
<1>2. ASSUME NEW n \in Node, TrashNode(n)
      PROVE  IInv'
  <2>1. nodes' \in [DOMAIN nodes -> NodeRow]
    BY <1>2, TrashedType DEF TrashNode, IInv, TypeOK
  <2> QED
    BY <1>2, <2>1, NodesIInv DEF TrashNode, IInv, TypeOK
<1>3. ASSUME NEW n \in Node, RestoreNode(n)
      PROVE  IInv'
  <2>1. nodes' \in [DOMAIN nodes -> NodeRow]
    BY <1>3, RestoredType DEF RestoreNode, IInv, TypeOK
  <2> QED
    BY <1>3, <2>1, NodesIInv DEF RestoreNode, IInv, TypeOK
<1> QED
  BY <1>1, <1>2, <1>3

\* A purge takes the file row first; only then is the key given to the handler.
LEMMA PurgeNodeIInv ==
  ASSUME IInv, NEW n \in Node, PurgeNode(n)
  PROVE  IInv'
<1> USE DEF IInv, PurgeNode, disk, threads, counters
<1>1. /\ nodes' \in [DOMAIN nodes' -> NodeRow] /\ System \subseteq DOMAIN nodes'
      /\ DOMAIN nodes' \subseteq Node
  BY DEF TypeOK, Drop, Purgeable
<1>2. /\ fileObjects' \in [DOMAIN fileObjects' -> ObjectRow]
      /\ DOMAIN fileObjects' = DOMAIN fileObjects \ {n}
      /\ \A m \in DOMAIN fileObjects' : fileObjects'[m] = fileObjects[m]
  BY DEF TypeOK, Drop
<1>3. \A k \in KeysOf(n) : n \in DOMAIN fileObjects /\ k = fileObjects[n].key
  BY DEF KeysOf
<1>4. KeysOf(n) \subseteq Upload
  BY <1>3 DEF TypeOK, ObjectRow
<1>5. TypeOK'
  BY <1>1, <1>2, <1>4 DEF TypeOK
<1>6. FileInv'
  BY <1>2, <1>3 DEF FileInv
<1>7. MutexInv' /\ FreshInv' /\ RowInv' /\ JobInv' /\ TodoInv' /\ ObjectInv'
  BY DEF MutexInv, FreshInv, RowInv, JobInv, TodoInv, ObjectInv
<1> QED
  BY <1>5, <1>6, <1>7

\* No row that still needs its object has a key a purge handler holds.
LEMMA UnlinkPurgedIInv ==
  ASSUME IInv, NEW k \in Upload, UnlinkPurged(k)
  PROVE  IInv'
<1> USE DEF IInv, UnlinkPurged, db, threads
<1>1. errors' \in 0..MaxErrors
  BY BoundAssumption DEF TypeOK, Error, NoError
<1>2. k \in DOMAIN uploads /\ uploads[k].state = "complete"
  BY DEF FileInv
<1>3. /\ objects' \in [DOMAIN objects' -> File]
      /\ DOMAIN objects' \subseteq DOMAIN objects
      /\ DOMAIN objects \ {k} \subseteq DOMAIN objects'
      /\ \A v \in DOMAIN objects' : objects'[v] = objects[v]
  BY DEF TypeOK, Drop
<1>4. TypeOK'
  BY <1>1, <1>3 DEF TypeOK
<1>5. MutexInv' /\ FreshInv'
  BY DEF MutexInv, FreshInv
<1>6. RowInv'
  BY <1>2, <1>3 DEF RowInv
<1>7. JobInv'
  BY <1>2, <1>3 DEF JobInv
<1>8. TodoInv'
  BY <1>2, <1>3 DEF TodoInv
<1>9. FileInv'
  BY <1>3 DEF FileInv
<1>10. ObjectInv'
  BY <1>3 DEF ObjectInv
<1> QED
  BY <1>4, <1>5, <1>6, <1>7, <1>8, <1>9, <1>10

-----------------------------------------------------------------------------
(* Time and crashes.                                                       *)

\* The deadline passes: the promises that remain are fewer.
LEMMA LapseIInv ==
  ASSUME IInv, NEW u \in Upload, Lapse(u)
  PROVE  IInv'
<1> USE DEF IInv, Lapse, db, disk, threads, counters
<1>1. TypeOK'
  BY DEF TypeOK
<1>2. MutexInv' /\ FreshInv' /\ JobInv' /\ FileInv' /\ ObjectInv'
  BY DEF MutexInv, FreshInv, JobInv, FileInv, ObjectInv
<1>3. RowInv' /\ TodoInv'
  BY DEF RowInv, TodoInv
<1> QED
  BY <1>1, <1>2, <1>3

\* A crash at any point leaves tables and directories that satisfy the invariant.
LEMMA CrashIInv ==
  ASSUME IInv, Crash
  PROVE  IInv'
<1> USE DEF IInv, Crash, Thread, db, disk
<1>1. IdleJob \in Job /\ crashes' \in 0..MaxCrashes
  BY SystemNodesAssumption, NameAssumption, BoundAssumption DEF IdleJob, Job, TypeOK
<1>2. pc' \in [Thread -> Label] /\ \A t \in Thread : pc'[t] = "idle"
  BY DEF Label
<1>3. job' \in [Thread -> Job]
  BY <1>1
<1>4. TypeOK'
  BY <1>1, <1>2, <1>3 DEF TypeOK
<1>5. MutexInv'
  BY <1>2 DEF MutexInv, ClientLabel, ReconcilerLabel
<1>6. FreshInv' /\ JobInv' /\ TodoInv'
  BY <1>2 DEF FreshInv, JobInv, TodoInv
<1>7. RowInv' /\ ObjectInv' /\ FileInv'
  BY DEF RowInv, ObjectInv, FileInv
<1> QED
  BY <1>4, <1>5, <1>6, <1>7

-----------------------------------------------------------------------------
(* The invariant.                                                          *)

\* Every step of the service keeps the inductive invariant.
LEMMA NextIInv == IInv /\ [Next]_vars => IInv'
<1> SUFFICES ASSUME IInv, [Next]_vars PROVE IInv'
  OBVIOUS
<1>1. ASSUME NEW p \in Client, Request(p) PROVE IInv'
  BY <1>1, CreateAdmitIInv, CreateReserveIInv, EarlyReturnIInv, PatchOpenIInv,
     TerminateIInv
  DEF Request
<1>2. ASSUME NEW p \in Client, ClientStep(p) PROVE IInv'
  BY <1>2, CreateStageIInv, CreateInsertIInv, PatchAppendIInv, PatchRecordIInv,
     EarlyReturnIInv, IntendIInv, RenameIInv, CommitIInv, UnstageIInv
  DEF ClientStep
<1>3. ASSUME NEW p \in Client, ClientFailure(p) PROVE IInv'
  BY <1>3, CreateUndoIInv, PatchCutIInv, EarlyReturnIInv DEF ClientFailure
<1>4. CASE ReconcileStart
  BY <1>4, ReconcileStartIInv
<1>5. CASE ReconcilerStep
  BY <1>5, ExpireIInv, ResolveIInv, ResolveSkipIInv, ExpireUnstageIInv,
     ListUnfinishedIInv, RepublishIInv, ReconcileEndIInv
  DEF ReconcilerStep
<1>6. CASE FilesService
  BY <1>6, TreeIInv, PurgeNodeIInv, UnlinkPurgedIInv DEF FilesService
<1>7. ASSUME NEW u \in Upload, Lapse(u) PROVE IInv'
  BY <1>7, LapseIInv
<1>8. CASE Crash
  BY <1>8, CrashIInv
<1>9. CASE UNCHANGED vars
  BY <1>9
  DEF vars, IInv, TypeOK, MutexInv, FreshInv, RowInv, JobInv, TodoInv, FileInv, ObjectInv
<1> QED
  BY <1>1, <1>2, <1>3, <1>4, <1>5, <1>6, <1>7, <1>8, <1>9 DEF Next

\* For any number of uploads, handlers, crashes and errors: where the bytes of
\* every upload are at every step of creation, PATCH, finalization, termination,
\* reconciliation and purge, what the holder of the mutex knows, and that nobody
\* else is past the lock.
THEOREM Invariant == Spec => []IInv
<1>1. Init => IInv
  BY InitIInv
<1>2. IInv /\ [Next]_vars => IInv'
  BY NextIInv
<1> QED
  BY <1>1, <1>2, PTL DEF Spec

\* Every variable keeps its type; in particular no reservation or received count
\* is ever negative and every table and directory keeps to its keys.
THEOREM TypeCorrect == Spec => []TypeOK
<1>1. IInv => TypeOK
  BY DEF IInv
<1> QED
  BY <1>1, Invariant, PTL

\* The acknowledged bytes of an upload that can still be resumed or finalized are
\* on disk, in the one directory its state names, and no upload ever fails for
\* having neither file.
THEOREM AcknowledgedBytesRecoverable == Spec => []Recoverable
<1>1. IInv => Recoverable
  <2> SUFFICES ASSUME IInv, NEW u \in DOMAIN uploads
               PROVE  LET r == uploads[u] IN
                      /\ (r.state \in Open /\ u \notin late) \/ r.state = "verifying" =>
                           u \in DOMAIN staging /\ staging[u].length >= r.received
                      /\ r.state = "finalizing" =>
                           \/ /\ u \in DOMAIN staging \ DOMAIN objects
                              /\ staging[u].length >= r.expected
                           \/ /\ u \in DOMAIN objects \ DOMAIN staging
                              /\ objects[u].length >= r.expected
                      /\ r.state # "failed"
    BY DEF Recoverable
  <2> QED
    BY DEF IInv, RowInv, Holds, Open
<1> QED
  BY <1>1, Invariant, PTL

\* Every listed file has its object, not shorter than recorded, and no purge
\* handler is about to remove it.
THEOREM ListedFilesHaveObjects == Spec => []FilesHaveObjects
<1>1. IInv => FilesHaveObjects
  BY DEF IInv, FileInv, FilesHaveObjects, Holds
<1> QED
  BY <1>1, Invariant, PTL

\* No interleaving of finalization, crash and reconciliation publishes an upload
\* twice or publishes one that is not complete.
THEOREM PublishedOnce == Spec => []SingleLogicalFile
<1>1. IInv => SingleLogicalFile
  BY DEF IInv, FileInv, SingleLogicalFile
<1> QED
  BY <1>1, Invariant, PTL

\* An object of the recorded length holds exactly the client's bytes, so every
\* corruption that a retried PATCH leaves shows in the length of the object.
THEOREM CorruptionDetectable == Spec => []CorruptionShowsInLength
<1>1. IInv => CorruptionShowsInLength
  BY DEF IInv, FileInv, CorruptionShowsInLength, Holds
<1> QED
  BY <1>1, Invariant, PTL

-----------------------------------------------------------------------------
(* What a step does to the rows of uploads.                                *)

\* A row stays, keeps its parent, and is not reopened.
RowStays(u) ==
  /\ u \in DOMAIN uploads'
  /\ uploads'[u].parent = uploads[u].parent
  /\ uploads[u].state \in FinalStates => uploads'[u].state \in FinalStates
  /\ uploads[u].state = "complete" => uploads'[u].state = "complete"

\* Settling an upload that is not complete, or settling it as complete, reopens
\* nothing.
LEMMA SettleStays ==
  ASSUME TypeOK, NEW u \in DOMAIN uploads, NEW s \in FinalStates,
         uploads' = Settle(u, s), s = "complete" \/ uploads[u].state # "complete"
  PROVE  \A v \in DOMAIN uploads : RowStays(v)
<1>1. uploads'[u].parent = uploads[u].parent
  BY DEF TypeOK, Settle, UploadRow
<1>2. s \in State
  BY DEF FinalStates
<1>3. /\ DOMAIN uploads' = DOMAIN uploads
      /\ uploads'[u].state = s
      /\ \A v \in DOMAIN uploads \ {u} : uploads'[v] = uploads[v]
  BY <1>2, SettleEffect
<1> QED
  BY <1>1, <1>3 DEF RowStays

\* Steps that do not touch the table.
LEMMA UnchangedStays ==
  ASSUME UNCHANGED uploads
  PROVE  \A v \in DOMAIN uploads : RowStays(v)
  BY DEF RowStays

\* No step of a handler reopens a row or moves it.
LEMMA HandlerStays ==
  ASSUME IInv, NEW p \in Client, Request(p) \/ ClientStep(p) \/ ClientFailure(p)
  PROVE  \A v \in DOMAIN uploads : RowStays(v)
<1> USE DEF IInv
<1>1. CASE CreateInsert(p)
  BY <1>1 DEF CreateInsert, FreshInv, Thread, Put, RowStays
<1>2. CASE PatchRecord(p)
  <2> DEFINE u == job[p].upload
  <2>1. u \in DOMAIN uploads /\ uploads[u].state \in Open
    BY <1>2 DEF PatchRecord, JobInv
  <2>2. /\ DOMAIN uploads' = DOMAIN uploads
        /\ uploads'[u].parent = uploads[u].parent
        /\ \A v \in DOMAIN uploads \ {u} : uploads'[v] = uploads[v]
    BY <1>2, <2>1 DEF PatchRecord, TypeOK, UploadRow
  <2> QED
    BY <2>1, <2>2 DEF RowStays, FinalStates, Reserved, Open
<1>3. CASE Intend(p)
  <2> DEFINE u == job[p].upload
  <2>1. u \in DOMAIN uploads /\ uploads[u].state = "verifying"
    BY <1>3 DEF Intend, JobInv
  <2>2. /\ DOMAIN uploads' = DOMAIN uploads
        /\ uploads'[u].parent = uploads[u].parent
        /\ \A v \in DOMAIN uploads \ {u} : uploads'[v] = uploads[v]
    BY <1>3, <2>1 DEF Intend, SetState, TypeOK, UploadRow
  <2> QED
    BY <2>1, <2>2 DEF RowStays, FinalStates, Reserved
<1>4. CASE \E n \in FileId : Commit(p, n)
  <2>1. "complete" \in FinalStates
    BY DEF FinalStates, State, Reserved, Open
  <2> QED
    BY <1>4, <2>1, SettleStays DEF Commit, Publish, JobInv
<1>5. CASE \E u \in Upload : Terminate(p, u)
  <2>1. "terminated" \in FinalStates
    BY DEF FinalStates, State, Reserved, Open
  <2> QED
    BY <1>5, <2>1, SettleStays DEF Terminate, Terminable
<1>6. CASE UNCHANGED uploads
  BY <1>6, UnchangedStays
<1> QED
  BY <1>1, <1>2, <1>3, <1>4, <1>5, <1>6
  DEF Request, ClientStep, ClientFailure, CreateAdmit, CreateReserve, CreateReserveUnsummed, CreateReject,
      PatchOpen, CreateStage, PatchAppend, PatchOverlong, Rename, CommitConflict,
      Unstage, CreateUndo, PatchCut, HandlerError, db

\* Neither does a step of the reconciler, whose list is as old as its lock.
LEMMA ReconcilerStays ==
  ASSUME IInv, ReconcilerStep
  PROVE  \A v \in DOMAIN uploads : RowStays(v)
<1> USE DEF IInv
<1>1. {"complete", "expired", "failed"} \subseteq FinalStates
  BY DEF FinalStates, State, Reserved, Open
<1>2. ASSUME NEW u \in Upload, Expire(u)
      PROVE  \A v \in DOMAIN uploads : RowStays(v)
  <2>1. u \in DOMAIN uploads /\ uploads[u].state # "complete"
    BY <1>2 DEF Expire, TodoInv, Open
  <2> QED
    BY <1>1, <1>2, <2>1, SettleStays, UnchangedStays DEF Expire
<1>3. ASSUME NEW u \in Upload, Resolve(u)
      PROVE  \A v \in DOMAIN uploads : RowStays(v)
  <2>1. u \in DOMAIN uploads /\ uploads[u].state = "finalizing"
    BY <1>3 DEF Resolve, TodoInv
  <2> QED
    BY <1>1, <1>3, <2>1, SettleStays, UnchangedStays DEF Resolve
<1>4. CASE (\E n \in FileId : Republish(n)) \/ RepublishRejected
  <2>1. /\ job[Reconciler].upload \in DOMAIN uploads
        /\ uploads' = Settle(job[Reconciler].upload, "complete")
    BY <1>4 DEF Republish, RepublishRejected, Publish, TodoInv
  <2> QED
    BY <1>1, <2>1, SettleStays
<1>5. CASE UNCHANGED uploads
  BY <1>5, UnchangedStays
<1> QED
  BY <1>2, <1>3, <1>4, <1>5
  DEF ReconcilerStep, ResolveSkip, ExpireUnstage, ListUnfinished, RepublishFailed,
      ReconcileEnd, db

\* No step at all reopens a row or moves it to another folder.
LEMMA NextStays ==
  ASSUME IInv, [Next]_vars
  PROVE  \A v \in DOMAIN uploads : RowStays(v)
<1>1. CASE \E p \in Client : Request(p) \/ ClientStep(p) \/ ClientFailure(p)
  BY <1>1, HandlerStays
<1>2. CASE ReconcilerStep
  BY <1>2, ReconcilerStays
<1>3. CASE UNCHANGED uploads
  BY <1>3, UnchangedStays
<1>4. FilesService => UNCHANGED uploads
  BY DEF FilesService, CreateFolder, TrashNode, RestoreNode, PurgeNode, UnlinkPurged, db
<1>5. ReconcileStart \/ (\E u \in Upload : Lapse(u)) \/ Crash \/ UNCHANGED vars
        => UNCHANGED uploads
  BY DEF ReconcileStart, Lapse, Crash, vars, db
<1> QED
  BY <1>1, <1>2, <1>3, <1>4, <1>5 DEF Next

\* An upload that ended stays ended, whatever the other threads read before it did.
THEOREM EndedForGood == Spec => EndedStaysEnded
<1>1. IInv /\ [Next]_vars => [EndedStay]_vars
  BY NextStays DEF EndedStay, RowStays
<1> QED
  BY <1>1, Invariant, PTL DEF Spec, EndedStaysEnded

\* Only CreateInsert adds a row, below a folder that is there.
LEMMA NewRowsPinned ==
  ASSUME IInv, [Next]_vars, NEW u \in DOMAIN uploads', u \notin DOMAIN uploads
  PROVE  uploads'[u].parent \in DOMAIN nodes' /\ UNCHANGED nodes
<1>1. ASSUME NEW p \in Client, Request(p) \/ ClientStep(p) \/ ClientFailure(p),
             ~CreateInsert(p)
      PROVE  DOMAIN uploads' = DOMAIN uploads
  BY <1>1
  DEF Request, ClientStep, ClientFailure, CreateAdmit, CreateReserve, CreateReserveUnsummed, CreateReject,
      PatchOpen, CreateStage, PatchAppend, PatchRecord, PatchOverlong, Intend, SetState,
      Rename, Commit, Publish, Settle, CommitConflict, Terminate, Unstage, CreateUndo,
      PatchCut, HandlerError, db
<1>2. ReconcilerStep => DOMAIN uploads' = DOMAIN uploads
  BY DEF ReconcilerStep, Expire, Resolve, ResolveSkip, ExpireUnstage, ListUnfinished,
         Republish, RepublishRejected, RepublishFailed, ReconcileEnd, Publish, Settle, db
<1>3. FilesService \/ ReconcileStart \/ (\E v \in Upload : Lapse(v)) \/ Crash
        \/ UNCHANGED vars => UNCHANGED uploads
  BY DEF FilesService, CreateFolder, TrashNode, RestoreNode, PurgeNode, UnlinkPurged,
         ReconcileStart, Lapse, Crash, vars, db
<1>4. PICK p \in Client : CreateInsert(p)
  BY <1>1, <1>2, <1>3 DEF Next
<1> QED
  BY <1>4 DEF CreateInsert, Put

\* Only a purge takes a row out of nodes, and no upload names that row.
LEMMA NodesStay ==
  ASSUME IInv, [Next]_vars, NEW n \in DOMAIN nodes, n \notin DOMAIN nodes'
  PROVE  Purgeable(n) /\ UNCHANGED uploads
<1>1. ASSUME NEW p \in Client, Request(p) \/ ClientStep(p) \/ ClientFailure(p)
      PROVE  DOMAIN nodes \subseteq DOMAIN nodes'
  BY <1>1
  DEF Request, ClientStep, ClientFailure, CreateAdmit, CreateReserve, CreateReserveUnsummed, CreateReject,
      PatchOpen, CreateStage, CreateInsert, PatchAppend, PatchRecord, PatchOverlong,
      Intend, Rename, Commit, Publish, Put, CommitConflict, Terminate, Unstage,
      CreateUndo, PatchCut, HandlerError, db
<1>2. ReconcilerStep => DOMAIN nodes \subseteq DOMAIN nodes'
  BY DEF ReconcilerStep, Expire, Resolve, ResolveSkip, ExpireUnstage, ListUnfinished,
         Republish, RepublishRejected, RepublishFailed, ReconcileEnd, Publish, Put, db
<1>3. (\E m \in NewFolder, parent \in Node, name \in Name : CreateFolder(m, parent, name))
        => DOMAIN nodes \subseteq DOMAIN nodes'
  BY DEF CreateFolder, Put
<1>4. (\E m \in Node : TrashNode(m) \/ RestoreNode(m)) => DOMAIN nodes' = DOMAIN nodes
  BY DEF TrashNode, RestoreNode, Trashed, Restored, RestoredTo
<1>5. (\E k \in Upload : UnlinkPurged(k)) \/ ReconcileStart \/ (\E v \in Upload : Lapse(v))
        \/ Crash \/ UNCHANGED vars => UNCHANGED nodes
  BY DEF UnlinkPurged, ReconcileStart, Lapse, Crash, vars, db
<1>6. PICK m \in Node : PurgeNode(m)
  BY <1>1, <1>2, <1>3, <1>4, <1>5 DEF Next, FilesService
<1> QED
  BY <1>6 DEF PurgeNode, Drop

\* The folder of an upload stays for as long as the upload's row does: a purge is
\* refused, trash and restore keep the row.
LEMMA ParentStaysPinned == Spec => []ParentPinned
<1>1. Init => ParentPinned
  BY DEF Init, Empty, ParentPinned
<1>2. IInv /\ ParentPinned /\ [Next]_vars => ParentPinned'
  <2> SUFFICES ASSUME IInv, ParentPinned, [Next]_vars, NEW u \in DOMAIN uploads'
               PROVE  uploads'[u].parent \in DOMAIN nodes'
    BY DEF ParentPinned
  <2>1. CASE u \in DOMAIN uploads
    <3>1. uploads'[u].parent = uploads[u].parent
      BY <2>1, NextStays DEF RowStays
    <3>2. uploads[u].parent \in DOMAIN nodes
      BY <2>1 DEF ParentPinned
    <3>3. ~Purgeable(uploads[u].parent)
      BY <2>1 DEF Purgeable
    <3> QED
      BY <3>1, <3>2, <3>3, NodesStay
  <2>2. CASE u \notin DOMAIN uploads
    BY <2>2, NewRowsPinned
  <2> QED
    BY <2>1, <2>2
<1> QED
  BY <1>1, <1>2, Invariant, PTL DEF Spec

\* A publication leaves the upload with its file.
LEMMA PublishListsUpload ==
  ASSUME NEW u, NEW n, Publish(u, n)
  PROVE  \E m \in DOMAIN fileObjects' : fileObjects'[m].key = u
  BY DEF Publish, Put

\* A step that settles or sets one row otherwise completes no upload.
LEMMA OtherwiseIncomplete ==
  ASSUME TypeOK, NEW v, NEW s, s # "complete", NEW u \in DOMAIN uploads,
         uploads[u].state # "complete",
         uploads' = Settle(v, s) \/ uploads' = SetState(v, s)
  PROVE  uploads'[u].state # "complete"
  BY DEF TypeOK, UploadRow, Settle, SetState

\* Only the two publications and a rejected one complete an upload.
LEMMA CompletedByPublication ==
  ASSUME IInv, [Next]_vars, NEW u \in DOMAIN uploads,
         uploads[u].state # "complete", uploads'[u].state = "complete"
  PROVE  \/ \E m \in DOMAIN fileObjects' : fileObjects'[m].key = u
         \/ u = job[Reconciler].upload /\ RepublishRejected
<1>t. TypeOK
  BY DEF IInv
<1>c. ~ UNCHANGED uploads
  OBVIOUS
<1>1. ASSUME NEW p \in Client, Request(p) \/ ClientStep(p) \/ ClientFailure(p)
      PROVE  \E n \in FileId : Commit(p, n) /\ u = job[p].upload
  <2>1. ~CreateInsert(p)
    BY DEF CreateInsert, Put, IInv, FreshInv, Thread
  <2>2. ~PatchRecord(p)
    BY <1>t DEF PatchRecord, TypeOK, UploadRow
  <2>3. ~Intend(p)
    BY <1>t, OtherwiseIncomplete DEF Intend
  <2>4. ~ \E v \in Upload : Terminate(p, v)
    BY <1>t, OtherwiseIncomplete DEF Terminate
  <2>5. PICK n \in FileId : Commit(p, n)
    BY <1>c, <1>1, <2>1, <2>2, <2>3, <2>4
    DEF Request, ClientStep, ClientFailure, CreateAdmit, CreateReserve, CreateReserveUnsummed,
        CreateReject, PatchOpen, CreateStage, PatchAppend, PatchOverlong, Rename,
        CommitConflict, Unstage, CreateUndo, PatchCut, HandlerError, db
  <2> QED
    BY <1>t, <2>5 DEF Commit, Publish, Settle, TypeOK
<1>2. ASSUME ReconcilerStep, ~RepublishRejected
      PROVE  \E n \in FileId : Republish(n) /\ u = job[Reconciler].upload
  <2>1. ~ \E v \in Upload : Expire(v) \/ Resolve(v)
    BY <1>t, <1>c, OtherwiseIncomplete DEF Expire, Resolve
  <2>2. PICK n \in FileId : Republish(n)
    BY <1>c, <1>2, <2>1
    DEF ReconcilerStep, ResolveSkip, ExpireUnstage, ListUnfinished, RepublishFailed,
        ReconcileEnd, db
  <2> QED
    BY <1>t, <2>2 DEF Republish, Publish, Settle, TypeOK
<1>3. RepublishRejected => u = job[Reconciler].upload
  BY DEF RepublishRejected, Settle
<1>4. ~(FilesService \/ ReconcileStart \/ (\E v \in Upload : Lapse(v)) \/ Crash
          \/ UNCHANGED vars)
  BY DEF FilesService, CreateFolder, TrashNode, RestoreNode, PurgeNode, UnlinkPurged,
         ReconcileStart, Lapse, Crash, vars, db
<1> QED
  BY <1>1, <1>2, <1>3, <1>4, PublishListsUpload DEF Next, Commit, Republish

\* For any number of uploads, handlers, crashes and errors: without an error in
\* the step itself, an upload is completed without a file only if its name was
\* taken; the other two constraints of the INSERTs cannot be what rejected them.
THEOREM FilesLostToNamesOnly == Spec => OnlyNamesCostFiles
<1>1. ASSUME IInv, ParentPinned, [Next]_vars, NEW u \in DOMAIN uploads,
             uploads[u].state # "complete", uploads'[u].state = "complete",
             \A n \in DOMAIN fileObjects' : fileObjects'[n].key # u, errors' = errors
      PROVE  NameTaken(nodes, uploads[u].parent, uploads[u].name)
  <2>1. u = job[Reconciler].upload /\ RepublishRejected
    BY <1>1, CompletedByPublication
  <2>2. ~CanPublish(u)
    BY <1>1, <2>1 DEF RepublishRejected, Error, IInv, TypeOK
  <2>3. \A n \in DOMAIN fileObjects : fileObjects[n].key # u
    BY <1>1 DEF IInv, FileInv
  <2>4. uploads[u].parent \in DOMAIN nodes
    BY <1>1 DEF ParentPinned
  <2> QED
    BY <2>2, <2>3, <2>4 DEF CanPublish
<1> DEFINE CostsItsName ==
      \A u \in DOMAIN uploads :
        /\ uploads[u].state # "complete" /\ uploads'[u].state = "complete"
        /\ \A n \in DOMAIN fileObjects' : fileObjects'[n].key # u
        /\ errors' = errors
        => NameTaken(nodes, uploads[u].parent, uploads[u].name)
<1>2. IInv /\ ParentPinned /\ [Next]_vars => [CostsItsName]_vars
  BY <1>1
<1> QED
  BY <1>2, Invariant, ParentStaysPinned, PTL DEF Spec, OnlyNamesCostFiles

-----------------------------------------------------------------------------
(* The mapped state.                                                       *)

\* The phase of a row follows its state.
LEMMA PhaseOfRow ==
  ASSUME TypeOK, NEW u \in DOMAIN uploads
  PROVE  /\ uploads[u].state \in Open => Phase(u) = "open"
         /\ uploads[u].state \in {"verifying", "finalizing"} => Phase(u) = "sealed"
         /\ uploads[u].state = "complete" => Phase(u) = "complete"
         /\ uploads[u].state \in {"failed", "expired", "terminated"} => Phase(u) = "closed"
<1>1. StateOf(u) = uploads[u].state
  BY DEF StateOf
<1> QED
  BY <1>1 DEF Phase, Open

\* The same of the next state.
LEMMA PhaseOfNewRow ==
  ASSUME NEW u \in DOMAIN uploads'
  PROVE  /\ uploads'[u].state \in Open => Phase(u)' = "open"
         /\ uploads'[u].state \in {"verifying", "finalizing"} => Phase(u)' = "sealed"
         /\ uploads'[u].state = "complete" => Phase(u)' = "complete"
         /\ uploads'[u].state \in {"failed", "expired", "terminated"} => Phase(u)' = "closed"
<1>1. StateOf(u)' = uploads'[u].state
  BY DEF StateOf
<1> QED
  BY <1>1 DEF Phase, Open

\* A step that does not write uploads, and one that does not write file_objects.
LEMMA RowsKept ==
  ASSUME UNCHANGED uploads
  PROVE  UNCHANGED <<Status, Declared, Acknowledged>>
  BY DEF Status, Declared, Acknowledged, Phase, StateOf

LEMMA FilesKept ==
  ASSUME UNCHANGED fileObjects
  PROVE  UNCHANGED Listed
  BY DEF Listed

\* A step that writes one row of uploads, or adds it.
LEMMA OneRow ==
  ASSUME NEW u \in Upload, DOMAIN uploads' = DOMAIN uploads \cup {u},
         \A v \in DOMAIN uploads \ {u} : uploads'[v] = uploads[v]
  PROVE  /\ Status' = [Status EXCEPT ![u] = Phase(u)']
         /\ Declared' = [Declared EXCEPT ![u] = uploads'[u].expected]
         /\ Acknowledged' = [Acknowledged EXCEPT ![u] = uploads'[u].received]
<1>1. \A v \in Upload \ {u} : Phase(v)' = Phase(v)
  BY DEF Phase, StateOf
<1>2. Status' = [Status EXCEPT ![u] = Phase(u)']
  BY <1>1 DEF Status
<1>3. Declared' = [Declared EXCEPT ![u] = uploads'[u].expected]
  BY DEF Declared
<1>4. Acknowledged' = [Acknowledged EXCEPT ![u] = uploads'[u].received]
  BY DEF Acknowledged
<1> QED
  BY <1>2, <1>3, <1>4

\* A step that only changes the state and the reservation of a row.
LEMMA OneState ==
  ASSUME TypeOK, NEW u \in DOMAIN uploads, DOMAIN uploads' = DOMAIN uploads,
         \A v \in DOMAIN uploads \ {u} : uploads'[v] = uploads[v],
         uploads'[u].expected = uploads[u].expected,
         uploads'[u].received = uploads[u].received
  PROVE  /\ u \in Upload
         /\ Status[u] = Phase(u)
         /\ Status' = [Status EXCEPT ![u] = Phase(u)']
         /\ UNCHANGED <<Declared, Acknowledged>>
<1>1. u \in Upload
  BY DEF TypeOK
<1>2. /\ Status' = [Status EXCEPT ![u] = Phase(u)']
      /\ Declared' = [Declared EXCEPT ![u] = uploads'[u].expected]
      /\ Acknowledged' = [Acknowledged EXCEPT ![u] = uploads'[u].received]
  BY <1>1, OneRow
<1>3. Declared[u] = uploads[u].expected /\ Acknowledged[u] = uploads[u].received
      /\ Status[u] = Phase(u)
  BY <1>1 DEF Declared, Acknowledged, Status
<1>4. DOMAIN Declared = Upload /\ Declared = [v \in Upload |-> Declared[v]]
  BY DEF Declared
<1>5. DOMAIN Acknowledged = Upload /\ Acknowledged = [v \in Upload |-> Acknowledged[v]]
  BY DEF Acknowledged
<1> QED
  BY <1>1, <1>2, <1>3, <1>4, <1>5

\* Settling a row changes neither of its sizes.
LEMMA SettleKeeps ==
  ASSUME TypeOK, NEW u \in DOMAIN uploads, NEW s \in State, uploads' = Settle(u, s)
  PROVE  /\ u \in Upload /\ u \in DOMAIN uploads'
         /\ uploads'[u].state = s
         /\ Status[u] = Phase(u)
         /\ Status' = [Status EXCEPT ![u] = Phase(u)']
         /\ UNCHANGED <<Declared, Acknowledged>>
<1>1. /\ uploads'[u].expected = uploads[u].expected
      /\ uploads'[u].received = uploads[u].received
  BY DEF TypeOK, Settle, UploadRow
<1> QED
  BY <1>1, SettleEffect, OneState

-----------------------------------------------------------------------------
(* Initial state, and the limit on sizes.                                  *)

LEMMA InitImplements == Init => Contract!Init
<1> SUFFICES ASSUME Init PROVE Contract!Init
  OBVIOUS
<1>1. DOMAIN uploads = {} /\ DOMAIN fileObjects = {}
  BY DEF Init, Empty
<1>2. \A u \in Upload : Phase(u) = "none"
  BY <1>1 DEF Phase, StateOf, Open
<1>3. Listed = {}
  BY <1>1 DEF Listed
<1> QED
  BY <1>1, <1>2, <1>3 DEF Contract!Init, Status, Declared, Acknowledged

\* The checks of POST before the lock bound the size until the row is there.
LEMMA HandlerSize ==
  ASSUME IInv, SizeInv, NEW p \in Client, Request(p) \/ ClientStep(p) \/ ClientFailure(p)
  PROVE  SizeInv'
<1>0. p \in Thread /\ pc \in [Thread -> Label] /\ job \in [Thread -> Job]
  BY DEF Thread, IInv, TypeOK
<1>1. CASE \E u \in Upload, parent \in Node, name \in Name, size \in UploadSize :
             CreateAdmit(p, u, parent, name, size)
  BY <1>0, <1>1 DEF CreateAdmit, SizeInv
<1>2. CASE CreateReserve(p) \/ CreateReserveUnsummed(p) \/ CreateStage(p)
  BY <1>0, <1>2 DEF CreateReserve, CreateReserveUnsummed, CreateStage, Acquire, Goto, SizeInv
<1>3. CASE Return(p)
  BY <1>0, <1>3 DEF Return, SizeInv
<1>4. CASE \E n \in 0..MaxChunk : PatchAppend(p, n)
  BY <1>0, <1>4 DEF PatchAppend, SizeInv
<1>5. CASE (\E u \in Upload, offset \in 0..MaxLength : PatchOpen(p, u, offset))
             \/ (\E u \in Upload : Terminate(p, u))
  BY <1>0, <1>5 DEF PatchOpen, Terminate, Acquire, SizeInv
<1>6. CASE Goto(p, "hash") \/ Goto(p, "rename") \/ Goto(p, "commit")
  BY <1>0, <1>6 DEF Goto, SizeInv
<1> QED
  BY <1>1, <1>2, <1>3, <1>4, <1>5, <1>6
  DEF Request, ClientStep, ClientFailure, CreateReject, CreateInsert, CreateUndo,
      PatchRecord, PatchOverlong, PatchCut, Intend, Rename, Commit, CommitConflict,
      Unstage, HandlerError

LEMMA NextSize == IInv /\ SizeInv /\ [Next]_vars => SizeInv'
<1> SUFFICES ASSUME IInv, SizeInv, [Next]_vars PROVE SizeInv'
  OBVIOUS
<1>0. Reconciler \in Thread /\ pc \in [Thread -> Label] /\ job \in [Thread -> Job]
  BY DEF Thread, IInv, TypeOK
<1>1. CASE \E p \in Client : Request(p) \/ ClientStep(p) \/ ClientFailure(p)
  BY <1>1, HandlerSize
<1>2. CASE ReconcileStart \/ ReconcilerStep
  BY <1>0, <1>2
  DEF ReconcileStart, ReconcilerStep, Expire, ExpireUnstage, ListUnfinished, Resolve,
      ResolveSkip, ResolveNext, Republish, RepublishRejected, RepublishFailed,
      ReconcileEnd, Acquire, Goto, Return, threads, SizeInv
<1>3. CASE FilesService \/ (\E u \in Upload : Lapse(u)) \/ UNCHANGED vars
  BY <1>3
  DEF FilesService, CreateFolder, TrashNode, RestoreNode, PurgeNode, UnlinkPurged,
      Lapse, threads, vars, SizeInv
<1>4. CASE Crash
  BY <1>4 DEF Crash, SizeInv
<1> QED
  BY <1>1, <1>2, <1>3, <1>4 DEF Next

\* A file and its node come in one transaction and go in one.
LEMMA NextNodes == IInv /\ NodeInv /\ [Next]_vars => NodeInv'
<1> SUFFICES ASSUME IInv, NodeInv, [Next]_vars PROVE NodeInv'
  OBVIOUS
<1>1. ASSUME NEW u, NEW n \in FileId, Publish(u, n) PROVE NodeInv'
  BY <1>1 DEF Publish, Put, NodeInv
<1>2. CASE \E n \in Node : PurgeNode(n)
  BY <1>2 DEF PurgeNode, Drop, NodeInv
<1>3. CASE DOMAIN nodes \subseteq DOMAIN nodes' /\ UNCHANGED fileObjects
  BY <1>3 DEF NodeInv
<1>4. CASE \E p \in Client : Request(p) \/ ClientStep(p) \/ ClientFailure(p)
  BY <1>1, <1>3, <1>4
  DEF Request, ClientStep, ClientFailure, CreateAdmit, CreateReserve, CreateReserveUnsummed,
      CreateReject, PatchOpen, CreateStage, CreateInsert, PatchAppend, PatchRecord,
      PatchOverlong, Intend, Rename, Commit, CommitConflict, Terminate, Unstage,
      CreateUndo, PatchCut, HandlerError, db
<1>5. CASE ReconcilerStep
  BY <1>1, <1>3, <1>5
  DEF ReconcilerStep, Expire, Resolve, ResolveSkip, ExpireUnstage, ListUnfinished,
      Republish, RepublishRejected, RepublishFailed, ReconcileEnd, db
<1>6. CASE \E n \in NewFolder, parent \in Node, name \in Name : CreateFolder(n, parent, name)
  BY <1>3, <1>6 DEF CreateFolder, Put
<1>7. CASE \E n \in Node : TrashNode(n) \/ RestoreNode(n)
  BY <1>3, <1>7 DEF TrashNode, RestoreNode, Trashed, Restored, RestoredTo
<1>8. CASE UNCHANGED <<nodes, fileObjects>>
  BY <1>8 DEF NodeInv
<1> QED
  BY <1>2, <1>4, <1>5, <1>6, <1>7, <1>8
  DEF Next, FilesService, UnlinkPurged, ReconcileStart, Lapse, Crash, vars, db

-----------------------------------------------------------------------------
(* The steps that mean something to the contract.                          *)

LEMMA InsertOpens ==
  ASSUME IInv, SizeInv, NEW p \in Client, CreateInsert(p)
  PROVE  Contract!Next
<1> PICK j \in Job : j = job[p]
  BY DEF IInv, TypeOK, Thread
<1> DEFINE u == j.upload
<1>1. /\ u \in Upload \ DOMAIN uploads /\ j.bytes \in 0..MaxFileBytes
  BY BoundAssumption DEF CreateInsert, IInv, FreshInv, SizeInv, TypeOK, Job, Thread
<1>2. /\ DOMAIN uploads' = DOMAIN uploads \cup {u}
      /\ \A v \in DOMAIN uploads \ {u} : uploads'[v] = uploads[v]
      /\ uploads'[u].state = "created" /\ uploads'[u].expected = j.bytes
      /\ uploads'[u].received = 0
      /\ UNCHANGED fileObjects
  BY <1>1 DEF CreateInsert, Put
<1>3. Phase(u) = "none" /\ Phase(u)' = "open"
  BY <1>1, <1>2, PhaseOfNewRow DEF Phase, StateOf, Open
<1>4. Status[u] = "none" /\ Acknowledged[u] = 0
  BY <1>1, <1>3 DEF Status, Acknowledged
<1>5. Acknowledged = [v \in Upload |-> Acknowledged[v]]
  BY DEF Acknowledged
<1>6. /\ Status' = [Status EXCEPT ![u] = "open"]
      /\ Declared' = [Declared EXCEPT ![u] = j.bytes]
      /\ Acknowledged' = [Acknowledged EXCEPT ![u] = 0]
  BY <1>1, <1>2, <1>3, OneRow
<1>7. UNCHANGED Acknowledged
  BY <1>4, <1>5, <1>6
<1>8. Contract!Open(u, j.bytes)
  BY <1>2, <1>4, <1>6, <1>7, FilesKept DEF Contract!Open, Contract!Become
<1> QED
  BY <1>1, <1>8 DEF Contract!Next

LEMMA RecordReceives ==
  ASSUME IInv, NEW p \in Client, PatchRecord(p)
  PROVE  Contract!Next
<1> PICK u, n : u = job[p].upload /\ n = Received(p)
  OBVIOUS
<1>1. /\ u \in DOMAIN uploads /\ u \in Upload /\ uploads[u].state \in Open
      /\ uploads[u] \in UploadRow /\ job[p].bytes \in Nat
  BY DEF PatchRecord, IInv, JobInv, TypeOK, Job, Thread
<1>2. uploads[u].received \in Nat /\ uploads[u].expected \in Nat
  BY <1>1 DEF UploadRow
<1>3. n \in uploads[u].received..uploads[u].expected
  BY <1>1, <1>2 DEF PatchRecord, Received
<1>4. /\ DOMAIN uploads' = DOMAIN uploads
      /\ \A v \in DOMAIN uploads \ {u} : uploads'[v] = uploads[v]
      /\ uploads'[u].expected = uploads[u].expected
      /\ uploads'[u].received = n
      /\ uploads'[u].state = IF n = uploads[u].expected THEN "verifying" ELSE "receiving"
      /\ UNCHANGED fileObjects
  BY <1>1 DEF PatchRecord, IInv, TypeOK, UploadRow
<1>5. /\ Status[u] = "open" /\ Declared[u] = uploads[u].expected
      /\ Acknowledged[u] = uploads[u].received
  BY <1>1, PhaseOfRow DEF Status, Declared, Acknowledged, IInv
<1>6. Phase(u)' = IF n = Declared[u] THEN "sealed" ELSE "open"
  BY <1>1, <1>4, <1>5, PhaseOfNewRow DEF Open
<1>7. /\ Status' = [Status EXCEPT ![u] = Phase(u)']
      /\ Declared' = [Declared EXCEPT ![u] = uploads[u].expected]
      /\ Acknowledged' = [Acknowledged EXCEPT ![u] = n]
  <2>1. DOMAIN uploads' = DOMAIN uploads \cup {u}
    BY <1>1, <1>4
  <2> QED
    BY <1>1, <1>4, <2>1, OneRow
<1>8. UNCHANGED Declared
  BY <1>1, <1>5, <1>7 DEF Declared
<1>9. Contract!Receive(u, n)
  BY <1>4, <1>5, <1>6, <1>7, <1>8, FilesKept DEF Contract!Receive, Contract!Become
<1> QED
  BY <1>1, <1>3, <1>5, <1>9 DEF Contract!Next

\* Phase A only records the intention: the contract does not see it.
LEMMA IntendStutters ==
  ASSUME IInv, NEW p \in Client, Intend(p)
  PROVE  UNCHANGED Contract!vars
<1> PICK u : u = job[p].upload
  OBVIOUS
<1>1. u \in DOMAIN uploads /\ uploads[u].state = "verifying" /\ "finalizing" \in State
  BY DEF Intend, IInv, JobInv, State, Reserved
<1>2. /\ uploads' = SetState(u, "finalizing") /\ UNCHANGED fileObjects
  BY DEF Intend
<1>3. /\ DOMAIN uploads' = DOMAIN uploads
      /\ uploads'[u].state = "finalizing"
      /\ uploads'[u].received = uploads[u].received
      /\ uploads'[u].expected = uploads[u].expected
      /\ \A v \in DOMAIN uploads \ {u} : uploads'[v] = uploads[v]
  BY <1>1, <1>2, SetStateEffect DEF IInv
<1>4. /\ u \in Upload /\ Status[u] = Phase(u)
      /\ Status' = [Status EXCEPT ![u] = Phase(u)']
      /\ UNCHANGED <<Declared, Acknowledged>>
  BY <1>1, <1>3, OneState DEF IInv
<1>5. Phase(u) = "sealed" /\ Phase(u)' = "sealed"
  BY <1>1, <1>3, PhaseOfRow, PhaseOfNewRow DEF IInv
<1>6. UNCHANGED Status
  BY <1>4, <1>5 DEF Status
<1> QED
  BY <1>2, <1>4, <1>6, FilesKept DEF Contract!vars

\* Phase C, in the handler or in the reconciler.
LEMMA PublishPublishes ==
  ASSUME IInv, NodeInv, NEW u \in DOMAIN uploads, NEW n \in FileId, Publish(u, n),
         uploads[u].state = "finalizing"
  PROVE  Contract!Next
<1>1. "complete" \in State /\ uploads' = Settle(u, "complete")
  BY DEF State, Publish
<1>2. /\ u \in Upload /\ u \in DOMAIN uploads'
      /\ uploads'[u].state = "complete"
      /\ Status[u] = Phase(u)
      /\ Status' = [Status EXCEPT ![u] = Phase(u)']
      /\ UNCHANGED <<Declared, Acknowledged>>
  BY <1>1, SettleKeeps DEF IInv
<1>3. Phase(u) = "sealed" /\ Phase(u)' = "complete"
  BY <1>2, PhaseOfRow, PhaseOfNewRow DEF IInv
<1>4. /\ DOMAIN fileObjects' = DOMAIN fileObjects \cup {n}
      /\ fileObjects'[n].key = u
      /\ \A m \in DOMAIN fileObjects \ {n} : /\ fileObjects'[m] = fileObjects[m]
                                             /\ fileObjects[m].key # u
      /\ n \notin DOMAIN fileObjects
  <2>1. n \notin DOMAIN fileObjects
    BY DEF Publish, NodeInv
  <2> QED
    BY <2>1, PublishEffect
<1>5. Listed' = Listed \cup {u}
  BY <1>4 DEF Listed
<1>6. Contract!Publish(u)
  BY <1>2, <1>3, <1>5 DEF Contract!Publish, Contract!Become
<1> QED
  BY <1>2, <1>6 DEF Contract!Next

\* The reconciler completes a finalizing upload without a file.
LEMMA RejectedForfeits ==
  ASSUME IInv, RepublishRejected
  PROVE  Contract!Next
<1> PICK u : u = job[Reconciler].upload
  OBVIOUS
<1>1. /\ u \in DOMAIN uploads /\ uploads[u].state = "finalizing"
      /\ uploads' = Settle(u, "complete") /\ "complete" \in State
      /\ UNCHANGED fileObjects
  BY DEF RepublishRejected, IInv, TodoInv, State
<1>2. /\ u \in Upload /\ u \in DOMAIN uploads'
      /\ uploads'[u].state = "complete"
      /\ Status[u] = Phase(u)
      /\ Status' = [Status EXCEPT ![u] = Phase(u)']
      /\ UNCHANGED <<Declared, Acknowledged>>
  BY <1>1, SettleKeeps DEF IInv
<1>3. Phase(u) = "sealed" /\ Phase(u)' = "complete"
  BY <1>1, <1>2, PhaseOfRow, PhaseOfNewRow DEF IInv
<1>4. Contract!Forfeit(u)
  BY <1>1, <1>2, <1>3, FilesKept DEF Contract!Forfeit, Contract!Become
<1> QED
  BY <1>2, <1>4 DEF Contract!Next

\* Expiry, termination and the reconciler's last resort.  A second one finds the
\* upload closed, and the contract does not see it.
LEMMA SettleCloses ==
  ASSUME IInv, NEW u \in DOMAIN uploads, NEW s \in {"failed", "expired", "terminated"},
         uploads' = Settle(u, s), UNCHANGED fileObjects, uploads[u].state # "complete"
  PROVE  Contract!Next \/ UNCHANGED Contract!vars
<1>1. s \in State
  BY DEF State
<1>2. /\ u \in Upload /\ u \in DOMAIN uploads'
      /\ uploads'[u].state = s
      /\ Status[u] = Phase(u)
      /\ Status' = [Status EXCEPT ![u] = Phase(u)']
      /\ UNCHANGED <<Declared, Acknowledged>>
  BY <1>1, SettleKeeps DEF IInv
<1>3. Phase(u)' = "closed"
  BY <1>2, PhaseOfNewRow
<1>4. Phase(u) \in {"open", "sealed", "closed"}
  BY PhaseOfRow DEF IInv, TypeOK, UploadRow, State, Reserved, Open
<1>5. CASE Phase(u) = "closed"
  <2>1. UNCHANGED Status
    BY <1>2, <1>3, <1>5 DEF Status
  <2> QED
    BY <1>2, <2>1, FilesKept DEF Contract!vars
<1>6. CASE Phase(u) \in {"open", "sealed"}
  <2>1. Contract!Close(u)
    BY <1>2, <1>3, <1>6, FilesKept DEF Contract!Close, Contract!Become
  <2> QED
    BY <1>2, <2>1 DEF Contract!Next
<1> QED
  BY <1>4, <1>5, <1>6

\* A purge takes one file out of the list, or a folder out of the tree.
LEMMA PurgeDelists ==
  ASSUME IInv, NEW n \in Node, PurgeNode(n)
  PROVE  Contract!Next \/ UNCHANGED Contract!vars
<1>1. UNCHANGED <<Status, Declared, Acknowledged>>
  BY RowsKept DEF PurgeNode
<1>2. /\ DOMAIN fileObjects' = DOMAIN fileObjects \ {n}
      /\ \A m \in DOMAIN fileObjects' : fileObjects'[m] = fileObjects[m]
  BY DEF PurgeNode, Drop
<1>3. CASE n \notin DOMAIN fileObjects
  <2>1. UNCHANGED Listed
    BY <1>2, <1>3 DEF Listed
  <2> QED
    BY <1>1, <2>1 DEF Contract!vars
<1>4. CASE n \in DOMAIN fileObjects
  <2> DEFINE k == fileObjects[n].key
  <2>1. k \in Upload /\ k \in Listed
    BY <1>4 DEF IInv, TypeOK, ObjectRow, Listed
  <2>2. \A m \in DOMAIN fileObjects : fileObjects[m].key = k => m = n
    BY <1>4 DEF IInv, FileInv
  <2>3. Listed' = Listed \ {k}
    BY <1>2, <1>4, <2>2 DEF Listed
  <2>4. Contract!Delist(k)
    BY <1>1, <2>1, <2>3 DEF Contract!Delist
  <2> QED
    BY <2>1, <2>4 DEF Contract!Next
<1> QED
  BY <1>3, <1>4

-----------------------------------------------------------------------------
(* Every step.                                                             *)

LEMMA KeptStutters ==
  ASSUME UNCHANGED <<uploads, fileObjects>>
  PROVE  UNCHANGED Contract!vars
  BY RowsKept, FilesKept DEF Contract!vars

LEMMA HandlerImplements ==
  ASSUME IInv, SizeInv, NodeInv, NEW p \in Client,
         Request(p) \/ ClientStep(p) \/ ClientFailure(p)
  PROVE  Contract!Next \/ UNCHANGED Contract!vars
<1>1. CASE CreateInsert(p)
  BY <1>1, InsertOpens
<1>2. CASE PatchRecord(p)
  BY <1>2, RecordReceives
<1>3. CASE Intend(p)
  BY <1>3, IntendStutters
<1>4. CASE \E n \in FileId : Commit(p, n)
  <2> PICK n \in FileId, u \in {job[p].upload} : Commit(p, n)
    BY <1>4
  <2>1. u \in DOMAIN uploads /\ uploads[u].state = "finalizing" /\ Publish(u, n)
    BY DEF Commit, IInv, JobInv
  <2> QED
    BY <2>1, PublishPublishes
<1>5. CASE \E u \in Upload : Terminate(p, u)
  <2> PICK u \in Upload : Terminate(p, u)
    BY <1>5
  <2>1. /\ u \in DOMAIN uploads /\ uploads[u].state # "complete"
        /\ uploads' = Settle(u, "terminated") /\ UNCHANGED fileObjects
    BY DEF Terminate, Terminable
  <2> QED
    BY <2>1, SettleCloses
<1>6. CASE UNCHANGED <<uploads, fileObjects>>
  BY <1>6, KeptStutters
<1> QED
  BY <1>1, <1>2, <1>3, <1>4, <1>5, <1>6
  DEF Request, ClientStep, ClientFailure, CreateAdmit, CreateReserve, CreateReserveUnsummed,
      CreateReject, PatchOpen, CreateStage, PatchAppend, PatchOverlong, Rename,
      CommitConflict, Unstage, CreateUndo, PatchCut, HandlerError, db

LEMMA ReconcilerImplements ==
  ASSUME IInv, NodeInv, ReconcilerStep
  PROVE  Contract!Next \/ UNCHANGED Contract!vars
<1>1. ASSUME NEW u \in Upload, Expire(u)
      PROVE  Contract!Next \/ UNCHANGED Contract!vars
  <2>1. u \in DOMAIN uploads /\ uploads[u].state # "complete"
    BY <1>1 DEF Expire, IInv, TodoInv, Open
  <2>2. uploads' = Settle(u, "expired") \/ UNCHANGED uploads
    BY <1>1 DEF Expire
  <2>3. UNCHANGED fileObjects
    BY <1>1 DEF Expire
  <2> QED
    BY <2>1, <2>2, <2>3, SettleCloses, KeptStutters
<1>2. ASSUME NEW u \in Upload, Resolve(u)
      PROVE  Contract!Next \/ UNCHANGED Contract!vars
  <2>1. u \in DOMAIN uploads /\ uploads[u].state # "complete"
    BY <1>2 DEF Resolve, IInv, TodoInv
  <2>2. uploads' = Settle(u, "failed") \/ UNCHANGED uploads
    BY <1>2 DEF Resolve
  <2>3. UNCHANGED fileObjects
    BY <1>2 DEF Resolve
  <2> QED
    BY <2>1, <2>2, <2>3, SettleCloses, KeptStutters
<1>3. CASE \E n \in FileId : Republish(n)
  <2> PICK n \in FileId, u \in {job[Reconciler].upload} : Republish(n)
    BY <1>3
  <2>1. u \in DOMAIN uploads /\ uploads[u].state = "finalizing" /\ Publish(u, n)
    BY DEF Republish, IInv, TodoInv
  <2> QED
    BY <2>1, PublishPublishes
<1>4. CASE RepublishRejected
  BY <1>4, RejectedForfeits
<1>5. CASE UNCHANGED <<uploads, fileObjects>>
  BY <1>5, KeptStutters
<1> QED
  BY <1>1, <1>2, <1>3, <1>4, <1>5
  DEF ReconcilerStep, ResolveSkip, ExpireUnstage, ListUnfinished, RepublishFailed,
      ReconcileEnd, db

LEMMA NextImplements ==
  IInv /\ SizeInv /\ NodeInv /\ [Next]_vars => [Contract!Next]_Contract!vars
<1> SUFFICES ASSUME IInv, SizeInv, NodeInv, [Next]_vars
             PROVE  Contract!Next \/ UNCHANGED Contract!vars
  OBVIOUS
<1>1. CASE \E p \in Client : Request(p) \/ ClientStep(p) \/ ClientFailure(p)
  BY <1>1, HandlerImplements
<1>2. CASE ReconcilerStep
  BY <1>2, ReconcilerImplements
<1>3. CASE \E n \in Node : PurgeNode(n)
  BY <1>3, PurgeDelists
<1>4. CASE UNCHANGED <<uploads, fileObjects>>
  BY <1>4, KeptStutters
<1> QED
  BY <1>1, <1>2, <1>3, <1>4
  DEF Next, FilesService, CreateFolder, TrashNode, RestoreNode, UnlinkPurged,
      ReconcileStart, Lapse, Crash, vars, db

\* The service implements its contract: with any number of clients and uploads,
\* crashes and failing statements, what a client and the tree see of an upload
\* is a behaviour of UploadContract.
THEOREM ServiceImplementsContract == Spec => ImplementsContract
<1>1. Init => SizeInv /\ NodeInv
  BY DEF Init, SizeInv, Empty, NodeInv
<1> QED
  BY <1>1, InitImplements, NextSize, NextNodes, NextImplements, Invariant, PTL
  DEF Spec, ImplementsContract, Contract!Spec

-----------------------------------------------------------------------------
(* The quota.  Each statement moves what one row promises: into the other  *)
(* sum, out of both, or, once CreateReserve has found room, in.            *)

\* What is stored and what is promised.
Promised == StoredBytes + SumFunction(Reservations)

\* The sums are over finite columns of natural numbers.
LEMMA SumsTyped ==
  ASSUME IInv, ReservationInv
  PROVE  /\ \A n \in DOMAIN fileObjects : Sizes[n] = fileObjects[n].size /\ Sizes[n] \in Nat
         /\ \A u \in DOMAIN uploads : /\ Reservations[u] = uploads[u].reservation
                                      /\ Reservations[u] \in Nat
         /\ StoredBytes = SumFunctionOnSet(Sizes, DOMAIN fileObjects)
         /\ SumFunction(Reservations) = SumFunctionOnSet(Reservations, DOMAIN uploads)
         /\ StoredBytes \in Nat /\ SumFunction(Reservations) \in Nat
<1>1. \A n \in DOMAIN fileObjects : Sizes[n] = fileObjects[n].size /\ Sizes[n] \in Nat
  BY DEF IInv, TypeOK, ObjectRow, Sizes
<1>2. \A u \in DOMAIN uploads : /\ Reservations[u] = uploads[u].reservation
                                /\ Reservations[u] \in Nat
  BY DEF IInv, TypeOK, UploadRow, Reservations
<1>3. StoredBytes = SumFunctionOnSet(Sizes, DOMAIN fileObjects)
  BY DEF StoredBytes, SumFunction, Sizes
<1>4. SumFunction(Reservations) = SumFunctionOnSet(Reservations, DOMAIN uploads)
  BY DEF SumFunction, Reservations
<1> QED
  BY <1>1, <1>2, <1>3, <1>4, SumNat DEF ReservationInv

\* Columns that do not change.
LEMMA SumsKept ==
  /\ UNCHANGED fileObjects => UNCHANGED <<Sizes, StoredBytes>>
  /\ UNCHANGED uploads => UNCHANGED <<Reservations, SumFunction(Reservations)>>
BY DEF Sizes, StoredBytes, Reservations

\* The sum in CreateUpload leaves out the rows that reserve nothing.
LEMMA ReservedIsAll ==
  ASSUME IInv, ReservationInv
  PROVE  ReservedBytes = SumFunction(Reservations)
<1> DEFINE R == {u \in DOMAIN uploads : uploads[u].state \in Reserved}
<1>1. \A u \in DOMAIN uploads \ R : Reservations[u] = 0
  BY SumsTyped DEF ReservationInv
<1>2. SumFunctionOnSet(Reservations, DOMAIN uploads) = SumFunctionOnSet(Reservations, R)
  BY <1>1, SumsTyped, SumZeros DEF ReservationInv
<1> QED
  BY <1>2, SumsTyped DEF ReservedBytes

\* One row of uploads is written.
LEMMA RowMoves ==
  ASSUME IInv, ReservationInv, NEW u \in DOMAIN uploads,
         DOMAIN uploads' = DOMAIN uploads,
         \A v \in DOMAIN uploads \ {u} : uploads'[v] = uploads[v],
         uploads'[u].reservation \in Nat
  PROVE  /\ SumFunction(Reservations)' \in Nat
         /\ SumFunction(Reservations)' + uploads[u].reservation
              = SumFunction(Reservations) + uploads'[u].reservation
<1> DEFINE f == Reservations
           h == Reservations'
<1>1. SumFunction(Reservations)' = SumFunctionOnSet(h, DOMAIN uploads)
  BY DEF SumFunction, Reservations
<1>2. SumFunction(Reservations) = SumFunctionOnSet(f, DOMAIN uploads)
  BY SumsTyped
<1>3. \A v \in DOMAIN uploads : /\ f[v] \in Nat /\ f[v] = uploads[v].reservation
                                /\ h[v] = uploads'[v].reservation
  BY SumsTyped DEF Reservations
<1>4. /\ h[u] = uploads'[u].reservation /\ f[u] = uploads[u].reservation
      /\ \A v \in DOMAIN uploads \ {u} : h[v] = f[v]
  BY <1>3
<1> HIDE DEF f, h
<1>5. /\ SumFunctionOnSet(h, DOMAIN uploads) \in Nat
      /\ SumFunctionOnSet(h, DOMAIN uploads) + f[u]
           = SumFunctionOnSet(f, DOMAIN uploads) + h[u]
  BY <1>3, <1>4, SumChange DEF ReservationInv
<1> QED
  BY <1>1, <1>2, <1>4, <1>5

\* Settling a row gives back what it reserved.
LEMMA SettleFrees ==
  ASSUME IInv, ReservationInv, NEW u \in DOMAIN uploads, NEW s \in FinalStates,
         uploads' = Settle(u, s), IsFiniteSet(DOMAIN fileObjects')
  PROVE  /\ ReservationInv'
         /\ SumFunction(Reservations)' \in Nat
         /\ SumFunction(Reservations)' + uploads[u].reservation = SumFunction(Reservations)
<1>1. /\ s \in State /\ s \notin Reserved
      /\ SumFunction(Reservations) \in Nat
  BY SumsTyped DEF FinalStates
<1>2. /\ DOMAIN uploads' = DOMAIN uploads
      /\ \A v \in DOMAIN uploads \ {u} : uploads'[v] = uploads[v]
      /\ uploads'[u].state = s
  BY <1>1, SettleEffect DEF IInv
<1>0. uploads'[u].reservation = 0
  BY DEF IInv, TypeOK, Settle, UploadRow
<1>3. ReservationInv'
  <2>1. IsFiniteSet(DOMAIN uploads')
    BY <1>2 DEF ReservationInv
  <2>2. ASSUME NEW v \in DOMAIN uploads
        PROVE  uploads'[v].reservation =
                 IF uploads'[v].state \in Reserved THEN uploads'[v].expected ELSE 0
    BY <1>0, <1>1, <1>2 DEF ReservationInv
  <2> QED
    BY <1>2, <2>1, <2>2 DEF ReservationInv
<1>4. /\ SumFunction(Reservations)' \in Nat
      /\ SumFunction(Reservations)' + uploads[u].reservation
           = SumFunction(Reservations) + 0
  BY <1>0, <1>2, RowMoves
<1> QED
  BY <1>1, <1>3, <1>4

\* Settling without publishing lowers the promise.
LEMMA SettleLowers ==
  ASSUME IInv, ReservationInv, NEW u \in DOMAIN uploads, NEW s \in FinalStates,
         uploads' = Settle(u, s), UNCHANGED fileObjects
  PROVE  ReservationInv' /\ Promised' <= Promised
<1>1. /\ ReservationInv'
      /\ SumFunction(Reservations)' \in Nat
      /\ SumFunction(Reservations)' + uploads[u].reservation = SumFunction(Reservations)
  BY SettleFrees DEF ReservationInv
<1>2. uploads[u].reservation \in Nat
  BY DEF IInv, TypeOK, UploadRow
<1>3. UNCHANGED StoredBytes /\ StoredBytes \in Nat
  BY SumsTyped, SumsKept
<1> QED
  BY <1>1, <1>2, <1>3 DEF Promised

\* The Phase C transaction turns a reservation into a stored file of that size.
LEMMA PublishKeeps ==
  ASSUME IInv, NodeInv, ReservationInv, NEW u \in DOMAIN uploads, NEW n \in FileId,
         uploads[u].state = "finalizing", Publish(u, n)
  PROVE  ReservationInv' /\ Promised' = Promised
<1> DEFINE S == DOMAIN fileObjects
           f == Sizes
           h == Sizes'
<1>1. /\ n \notin S /\ DOMAIN fileObjects' = S \cup {n}
      /\ fileObjects'[n].size = uploads[u].expected
      /\ \A m \in S : fileObjects'[m] = fileObjects[m]
  BY PublishEffect DEF Publish, NodeInv
<1>2. uploads[u].reservation = uploads[u].expected /\ uploads[u].expected \in Nat
  BY DEF ReservationInv, Reserved, IInv, TypeOK, UploadRow
<1>3. StoredBytes' = SumFunctionOnSet(h, S \cup {n}) /\ h[n] = uploads[u].expected
  BY <1>1 DEF StoredBytes, SumFunction, Sizes
<1>4. StoredBytes = SumFunctionOnSet(f, S) /\ IsFiniteSet(S)
  BY SumsTyped DEF ReservationInv
<1>5. \A m \in S : f[m] \in Nat /\ h[m] = f[m]
  BY <1>1, SumsTyped DEF Sizes
<1> HIDE DEF f, h, S
<1>6. /\ SumFunctionOnSet(f, S) \in Nat
      /\ SumFunctionOnSet(h, S \cup {n}) = SumFunctionOnSet(f, S) + h[n]
  BY <1>1, <1>2, <1>3, <1>4, <1>5, SumAdd
<1>7. IsFiniteSet(S \cup {n})
  BY <1>4, FS_AddElement
<1>8. "complete" \in FinalStates /\ uploads' = Settle(u, "complete")
  BY DEF FinalStates, State, Reserved, Open, Publish
<1>9. /\ ReservationInv'
      /\ SumFunction(Reservations)' \in Nat
      /\ SumFunction(Reservations)' + uploads[u].reservation = SumFunction(Reservations)
  BY <1>1, <1>7, <1>8, SettleFrees
<1> QED
  BY <1>2, <1>3, <1>4, <1>6, <1>9 DEF Promised

\* A row goes on: state and received_bytes change, the reservation stays.
LEMMA ProgressKeeps ==
  ASSUME IInv, ReservationInv, NEW u \in DOMAIN uploads,
         DOMAIN uploads' = DOMAIN uploads,
         \A v \in DOMAIN uploads \ {u} : uploads'[v] = uploads[v],
         uploads[u].state \in Reserved, uploads'[u].state \in Reserved,
         uploads'[u].expected = uploads[u].expected,
         uploads'[u].reservation = uploads[u].reservation,
         UNCHANGED fileObjects
  PROVE  ReservationInv' /\ Promised' = Promised
<1>1. ReservationInv'
  BY DEF ReservationInv
<1>2. uploads[u].reservation \in Nat
  BY DEF IInv, TypeOK, UploadRow
<1>3. /\ SumFunction(Reservations)' \in Nat /\ SumFunction(Reservations) \in Nat
      /\ SumFunction(Reservations)' + uploads[u].reservation
           = SumFunction(Reservations) + uploads[u].reservation
  BY <1>2, RowMoves, SumsTyped
<1>4. SumFunction(Reservations)' = SumFunction(Reservations)
  BY <1>2, <1>3
<1> QED
  BY <1>1, <1>4, SumsKept DEF Promised

\* A new row promises its whole size.
LEMMA InsertPromises ==
  ASSUME IInv, ReservationInv, NEW p \in Client, CreateInsert(p)
  PROVE  ReservationInv' /\ Promised' = Promised + job[p].bytes
<1> DEFINE S == DOMAIN uploads
           u == job[p].upload
           f == Reservations
           h == Reservations'
<1>1. u \notin S /\ job[p].bytes \in Nat
  BY DEF CreateInsert, IInv, FreshInv, Thread, TypeOK, Job
<1>2. /\ DOMAIN uploads' = S \cup {u}
      /\ uploads'[u].state = "created"
      /\ uploads'[u].expected = job[p].bytes /\ uploads'[u].reservation = job[p].bytes
      /\ \A v \in S : uploads'[v] = uploads[v]
      /\ UNCHANGED fileObjects
  BY <1>1 DEF CreateInsert, Put
<1>3. IsFiniteSet(S \cup {u}) /\ IsFiniteSet(S)
  BY FS_AddElement DEF ReservationInv
<1>4. ReservationInv'
  BY <1>2, <1>3 DEF ReservationInv, Reserved, Open
<1>5. SumFunction(Reservations)' = SumFunctionOnSet(h, S \cup {u}) /\ h[u] = job[p].bytes
  BY <1>2 DEF SumFunction, Reservations
<1>6. SumFunction(Reservations) = SumFunctionOnSet(f, S)
  BY SumsTyped
<1>7. \A v \in S : f[v] \in Nat /\ h[v] = f[v]
  BY <1>2, SumsTyped DEF Reservations
<1> HIDE DEF f, h, S, u
<1>8. /\ SumFunctionOnSet(f, S) \in Nat
      /\ SumFunctionOnSet(h, S \cup {u}) = SumFunctionOnSet(f, S) + h[u]
  BY <1>1, <1>3, <1>5, <1>7, SumAdd
<1>9. UNCHANGED StoredBytes /\ StoredBytes \in Nat
  BY <1>2, SumsTyped, SumsKept
<1> QED
  BY <1>1, <1>4, <1>5, <1>6, <1>8, <1>9 DEF Promised

\* A purge takes a size out of the sum, if the node was a file.
LEMMA PurgeLowers ==
  ASSUME IInv, ReservationInv, NEW n \in Node, PurgeNode(n)
  PROVE  ReservationInv' /\ Promised' <= Promised
<1> DEFINE S == DOMAIN fileObjects
           f == Sizes
           h == Sizes'
<1>1. /\ DOMAIN fileObjects' = S \ {n}
      /\ \A m \in S \ {n} : fileObjects'[m] = fileObjects[m]
      /\ UNCHANGED uploads
  BY DEF PurgeNode, Drop
<1>2. IsFiniteSet(S) /\ IsFiniteSet(S \ {n})
  BY FS_RemoveElement DEF ReservationInv
<1>3. ReservationInv'
  BY <1>1, <1>2 DEF ReservationInv
<1>4. StoredBytes' = SumFunctionOnSet(h, S \ {n})
  BY <1>1 DEF StoredBytes, SumFunction, Sizes
<1>5. StoredBytes = SumFunctionOnSet(f, S) /\ StoredBytes \in Nat
  BY SumsTyped
<1>6. /\ \A m \in S : f[m] \in Nat
      /\ \A m \in S \ {n} : h[m] = f[m]
  BY <1>1, SumsTyped DEF Sizes
<1> HIDE DEF f, h, S
<1>7. /\ SumFunctionOnSet(h, S \ {n}) \in Nat
      /\ SumFunctionOnSet(h, S \ {n}) <= SumFunctionOnSet(f, S)
  BY <1>2, <1>6, SumPart
<1>8. UNCHANGED SumFunction(Reservations) /\ SumFunction(Reservations) \in Nat
  BY <1>1, SumsKept, SumsTyped
<1> QED
  BY <1>3, <1>4, <1>5, <1>7, <1>8 DEF Promised

\* All other steps.
LEMMA RowsKeptPromise ==
  ASSUME ReservationInv, UNCHANGED <<uploads, fileObjects>>, IInv
  PROVE  ReservationInv' /\ Promised' <= Promised
<1>1. ReservationInv'
  BY DEF ReservationInv
<1>2. Promised \in Nat
  BY SumsTyped DEF Promised
<1>3. Promised' = Promised
  BY SumsKept DEF Promised
<1> QED
  BY <1>1, <1>2, <1>3

\* What a step of a handler promises: nothing more, unless it inserts a row.
LEMMA HandlerPromises ==
  ASSUME IInv, NodeInv, ReservationInv, NEW p \in Client,
         Request(p) \/ ClientStep(p) \/ ClientFailure(p)
  PROVE  ReservationInv' /\ (Promised' <= Promised \/ CreateInsert(p))
<1> USE DEF IInv
<1>0. Promised \in Nat
  BY SumsTyped DEF Promised
<1>1. CASE CreateInsert(p)
  BY <1>1, InsertPromises
<1>2. CASE PatchRecord(p)
  <2> DEFINE u == job[p].upload
  <2>1. u \in DOMAIN uploads /\ uploads[u].state \in Open
    BY <1>2 DEF PatchRecord, JobInv
  <2>2. /\ DOMAIN uploads' = DOMAIN uploads
        /\ uploads'[u].expected = uploads[u].expected
        /\ uploads'[u].reservation = uploads[u].reservation
        /\ uploads'[u].state \in {"verifying", "receiving"}
        /\ \A v \in DOMAIN uploads \ {u} : uploads'[v] = uploads[v]
        /\ UNCHANGED fileObjects
    BY <1>2, <2>1 DEF PatchRecord, TypeOK, UploadRow
  <2> HIDE DEF IInv
  <2> QED
    BY <1>0, <2>1, <2>2, ProgressKeeps DEF Reserved, Open
<1>3. CASE Intend(p)
  <2> DEFINE u == job[p].upload
  <2>1. u \in DOMAIN uploads /\ uploads[u].state = "verifying"
    BY <1>3 DEF Intend, JobInv
  <2>2. /\ DOMAIN uploads' = DOMAIN uploads
        /\ uploads'[u].expected = uploads[u].expected
        /\ uploads'[u].reservation = uploads[u].reservation
        /\ uploads'[u].state = "finalizing"
        /\ \A v \in DOMAIN uploads \ {u} : uploads'[v] = uploads[v]
        /\ UNCHANGED fileObjects
    BY <1>3, <2>1 DEF Intend, SetState, TypeOK, UploadRow
  <2> HIDE DEF IInv
  <2> QED
    BY <1>0, <2>1, <2>2, ProgressKeeps DEF Reserved
<1>4. ASSUME NEW n \in FileId, Commit(p, n)
      PROVE  ReservationInv' /\ Promised' <= Promised
  <2>1. /\ job[p].upload \in DOMAIN uploads /\ uploads[job[p].upload].state = "finalizing"
        /\ Publish(job[p].upload, n)
    BY <1>4 DEF Commit, JobInv
  <2> QED
    BY <1>0, <2>1, PublishKeeps
<1>5. ASSUME NEW u \in Upload, Terminate(p, u)
      PROVE  ReservationInv' /\ Promised' <= Promised
  <2>1. "terminated" \in FinalStates
    BY DEF FinalStates, State, Reserved, Open
  <2> QED
    BY <1>5, <2>1, SettleLowers DEF Terminate, Terminable
<1>6. CASE UNCHANGED <<uploads, fileObjects>>
  BY <1>6, RowsKeptPromise
<1> QED
  BY <1>1, <1>2, <1>3, <1>4, <1>5, <1>6
  DEF Request, ClientStep, ClientFailure, CreateAdmit, CreateReserve, CreateReserveUnsummed,
      CreateReject, PatchOpen, CreateStage, PatchAppend, PatchOverlong, Rename,
      CommitConflict, Unstage, CreateUndo, PatchCut, HandlerError, db

\* The reconciler settles rows, and publishes some.
LEMMA ReconcilerPromises ==
  ASSUME IInv, NodeInv, ReservationInv, ReconcilerStep
  PROVE  ReservationInv' /\ Promised' <= Promised
<1>0. Promised \in Nat
  BY SumsTyped DEF Promised
<1>1. {"complete", "expired", "failed"} \subseteq FinalStates
  BY DEF FinalStates, State, Reserved, Open
<1>2. ASSUME NEW u \in Upload, Expire(u) PROVE ReservationInv' /\ Promised' <= Promised
  <2>1. u \in DOMAIN uploads /\ UNCHANGED fileObjects
    BY <1>2 DEF Expire, IInv, TodoInv
  <2>2. uploads' = Settle(u, "expired") \/ UNCHANGED uploads
    BY <1>2 DEF Expire
  <2> QED
    BY <1>1, <2>1, <2>2, SettleLowers, RowsKeptPromise
<1>3. ASSUME NEW u \in Upload, Resolve(u) PROVE ReservationInv' /\ Promised' <= Promised
  <2>1. u \in DOMAIN uploads /\ UNCHANGED fileObjects
    BY <1>3 DEF Resolve, IInv, TodoInv
  <2>2. uploads' = Settle(u, "failed") \/ UNCHANGED uploads
    BY <1>3 DEF Resolve
  <2> QED
    BY <1>1, <2>1, <2>2, SettleLowers, RowsKeptPromise
<1>4. ASSUME NEW n \in FileId, Republish(n) PROVE ReservationInv' /\ Promised' <= Promised
  <2> DEFINE u == job[Reconciler].upload
  <2>1. u \in DOMAIN uploads /\ uploads[u].state = "finalizing" /\ Publish(u, n)
    BY <1>4 DEF Republish, IInv, TodoInv
  <2> QED
    BY <1>0, <2>1, PublishKeeps
<1>5. CASE RepublishRejected
  <2> DEFINE u == job[Reconciler].upload
  <2>1. /\ u \in DOMAIN uploads /\ uploads' = Settle(u, "complete")
        /\ UNCHANGED fileObjects
    BY <1>5 DEF RepublishRejected, IInv, TodoInv
  <2> QED
    BY <1>1, <2>1, SettleLowers
<1>6. CASE UNCHANGED <<uploads, fileObjects>>
  BY <1>6, RowsKeptPromise
<1> QED
  BY <1>2, <1>3, <1>4, <1>5, <1>6
  DEF ReconcilerStep, ResolveSkip, ExpireUnstage, ListUnfinished, RepublishFailed,
      ReconcileEnd, db

\* Only the INSERT of CreateUpload promises more, and it promises what its job says.
LEMMA NextPromises ==
  ASSUME IInv, NodeInv, ReservationInv, [Next]_vars
  PROVE  /\ ReservationInv'
         /\ \/ Promised' <= Promised
            \/ \E p \in Client : CreateInsert(p) /\ Promised' = Promised + job[p].bytes
<1>1. CASE \E p \in Client : Request(p) \/ ClientStep(p) \/ ClientFailure(p)
  BY <1>1, HandlerPromises, InsertPromises
<1>2. CASE ReconcilerStep
  BY <1>2, ReconcilerPromises
<1>3. CASE \E n \in Node : PurgeNode(n)
  BY <1>3, PurgeLowers
<1>4. CASE UNCHANGED <<uploads, fileObjects>>
  BY <1>4, RowsKeptPromise
<1> QED
  BY <1>1, <1>2, <1>3, <1>4
  DEF Next, FilesService, CreateFolder, TrashNode, RestoreNode, UnlinkPurged,
      ReconcileStart, Lapse, Crash, vars, db

\* A creation under way was allowed, just now or before; its job stays.
LEMMA CreationsWereAllowed ==
  ASSUME IInv, [Next]_vars, NEW p \in Client, pc'[p] \in {"stage", "insert"}
  PROVE  \/ CreateReserve(p) \/ CreateReserveUnsummed(p)
         \/ pc[p] \in {"stage", "insert"} /\ job'[p] = job[p]
<1>0. /\ p \in Thread /\ Reconciler \notin Client /\ Client \subseteq Thread
      /\ pc \in [Thread -> Label] /\ job \in [Thread -> Job]
  BY ThreadAssumption DEF Thread, IInv, TypeOK
<1>1. ASSUME NEW q \in Client, q # p, Request(q) \/ ClientStep(q) \/ ClientFailure(q)
      PROVE  pc'[p] = pc[p] /\ job'[p] = job[p]
  BY <1>0, <1>1
  DEF Request, ClientStep, ClientFailure, CreateAdmit, CreateReserve, CreateReserveUnsummed,
      CreateReject, PatchOpen, CreateStage, CreateInsert, PatchAppend, PatchRecord,
      PatchOverlong, Intend, Rename, Commit, CommitConflict, Terminate, Unstage,
      CreateUndo, PatchCut, HandlerError, Acquire, Goto, Return
<1>2. ASSUME Request(p) \/ ClientStep(p) \/ ClientFailure(p),
             ~CreateReserve(p), ~CreateReserveUnsummed(p)
      PROVE  pc[p] \in {"stage", "insert"} /\ job'[p] = job[p]
  BY <1>0, <1>2
  DEF Request, ClientStep, ClientFailure, CreateAdmit,
      CreateReject, PatchOpen, CreateStage, CreateInsert, PatchAppend, PatchRecord,
      PatchOverlong, Intend, Rename, Commit, CommitConflict, Terminate, Unstage,
      CreateUndo, PatchCut, HandlerError, Acquire, Goto, Return
<1>3. ASSUME ReconcileStart \/ ReconcilerStep PROVE pc'[p] = pc[p] /\ job'[p] = job[p]
  BY <1>0, <1>3
  DEF ReconcileStart, ReconcilerStep, Expire, ExpireUnstage, ListUnfinished, Resolve,
      ResolveSkip, ResolveNext, Republish, RepublishRejected, RepublishFailed,
      ReconcileEnd, Acquire, Goto, Return, threads
<1>4. ASSUME FilesService \/ (\E u \in Upload : Lapse(u)) \/ UNCHANGED vars
      PROVE  pc'[p] = pc[p] /\ job'[p] = job[p]
  BY <1>4
  DEF FilesService, CreateFolder, TrashNode, RestoreNode, PurgeNode, UnlinkPurged,
      Lapse, threads, vars
<1>5. ~Crash
  BY <1>0 DEF Crash
<1> QED
  BY <1>1, <1>2, <1>3, <1>4, <1>5 DEF Next

\* Errors are counted, never taken back.
LEMMA ErrorsStay ==
  ASSUME IInv, [Next]_vars
  PROVE  errors' = errors \/ (errors' = errors + 1 /\ errors \in Nat)
<1>1. errors \in Nat
  BY BoundAssumption DEF IInv, TypeOK
<1> QED
  BY <1>1
  DEF Next, Request, ClientStep, ClientFailure, CreateAdmit, CreateReserve,
      CreateReserveUnsummed, CreateReject, PatchOpen, CreateStage, CreateInsert,
      PatchAppend, PatchRecord, PatchOverlong, Intend, Rename, Commit, CommitConflict,
      Terminate, Unstage, CreateUndo, PatchCut, HandlerError, ReconcileStart,
      ReconcilerStep, Expire, ExpireUnstage, ListUnfinished, Resolve, ResolveSkip,
      Republish, RepublishRejected, RepublishFailed, ReconcileEnd, FilesService,
      CreateFolder, TrashNode, RestoreNode, PurgeNode, UnlinkPurged, Lapse, Crash,
      Error, NoError, counters, vars

\* The step that takes mu for a creation has found room for it in both sums.
LEMMA ReserveFindsRoom ==
  ASSUME IInv, ReservationInv, NEW p \in Client, CreateReserve(p)
  PROVE  Promised' + job'[p].bytes <= MaxStorageBytes
<1>1. StoredBytes + ReservedBytes + job[p].bytes <= MaxStorageBytes
  BY DEF CreateReserve, CreateAllowed, QuotaAllows
<1>2. job'[p] = job[p]
  BY DEF CreateReserve, Acquire, Thread, IInv, TypeOK
<1>3. Promised' = Promised
  BY SumsKept DEF CreateReserve, db, Promised
<1> QED
  BY <1>1, <1>2, <1>3, ReservedIsAll DEF Promised

\* Room stays: only the one that holds mu uses it up, and purges make more.
LEMMA NextQuota == IInv /\ QuotaInv /\ [Next]_vars => QuotaInv'
<1> SUFFICES ASSUME IInv, QuotaInv, [Next]_vars PROVE QuotaInv'
  OBVIOUS
<1> USE DEF QuotaInv
<1>1. NodeInv' /\ ReservationInv'
  BY NextNodes, NextPromises
<1>2. /\ Promised \in Nat /\ Promised' \in Nat /\ MaxStorageBytes \in Nat
      /\ \A p \in Client : job[p].bytes \in Nat /\ job'[p].bytes \in Nat
  <2>1. IInv'
    BY NextIInv
  <2>2. Promised \in Nat
    BY SumsTyped DEF Promised
  <2>3. Promised' \in Nat
    <3>1. /\ \A n \in DOMAIN fileObjects' : Sizes'[n] \in Nat
          /\ \A u \in DOMAIN uploads' : Reservations'[u] \in Nat
      BY <2>1 DEF IInv, TypeOK, ObjectRow, UploadRow, Sizes, Reservations
    <3>2. IsFiniteSet(DOMAIN uploads') /\ IsFiniteSet(DOMAIN fileObjects')
      BY <1>1 DEF ReservationInv
    <3>3. /\ StoredBytes' = SumFunctionOnSet(Sizes', DOMAIN fileObjects')
          /\ SumFunction(Reservations)' = SumFunctionOnSet(Reservations', DOMAIN uploads')
      BY DEF StoredBytes, SumFunction, Sizes, Reservations
    <3>4. StoredBytes' \in Nat /\ SumFunction(Reservations)' \in Nat
      BY <3>1, <3>2, <3>3, SumNat
    <3> QED
      BY <3>4 DEF Promised
  <2> QED
    BY <2>1, <2>2, <2>3, BoundAssumption DEF IInv, TypeOK, Job, Thread
<1>3. QuotaRespected'
  <2> SUFFICES ASSUME errors' = 0 PROVE Promised' <= MaxStorageBytes
    BY DEF QuotaRespected, Promised
  <2>1. errors = 0
    BY ErrorsStay
  <2>2. Promised <= MaxStorageBytes
    BY <2>1 DEF QuotaRespected, Promised
  <2>3. ASSUME NEW p \in Client, CreateInsert(p)
        PROVE  Promised + job[p].bytes <= MaxStorageBytes
    BY <2>1, <2>3 DEF RoomInv, CreateInsert, Promised
  <2> QED
    BY <1>2, <2>2, <2>3, NextPromises
<1>4. RoomInv'
  <2> SUFFICES ASSUME errors' = 0, NEW p \in Client, pc'[p] \in {"stage", "insert"}
               PROVE  Promised' + job'[p].bytes <= MaxStorageBytes
    BY DEF RoomInv, Promised
  <2>1. errors = 0
    BY ErrorsStay
  <2>2. CASE CreateReserve(p)
    BY <2>2, ReserveFindsRoom
  <2>3. ~CreateReserveUnsummed(p)
    BY <2>1 DEF CreateReserveUnsummed, Error
  <2>4. CASE pc[p] \in {"stage", "insert"} /\ job'[p] = job[p]
    <3>1. Promised + job[p].bytes <= MaxStorageBytes
      BY <2>1, <2>4 DEF RoomInv, Promised
    <3>2. ASSUME NEW q \in Client, CreateInsert(q) PROVE FALSE
      <4>1. p # q => pc[p] \in {"idle", "reserve"}
        BY <3>2, HolderAlone DEF CreateInsert, Thread
      <4>2. pc'[q] = "idle"
        BY <3>2 DEF CreateInsert, Return, Thread, IInv, TypeOK
      <4> QED
        BY <2>4, <4>1, <4>2
    <3>3. Promised' <= Promised
      BY <3>2, NextPromises
    <3> QED
      BY <1>2, <2>4, <3>1, <3>3
  <2> QED
    BY <2>2, <2>3, <2>4, CreationsWereAllowed
<1> QED
  BY <1>1, <1>3, <1>4

\* The initial sums are empty.
LEMMA InitQuota == Init => QuotaInv
<1> SUFFICES ASSUME Init PROVE QuotaInv
  OBVIOUS
<1>1. /\ DOMAIN uploads = {} /\ DOMAIN fileObjects = {}
      /\ \A p \in Client : pc[p] = "idle"
  BY DEF Init, Empty, Thread
<1>2. StoredBytes = 0 /\ SumFunction(Reservations) = 0
  BY <1>1, SumEmpty DEF StoredBytes, Reservations, Sizes, SumFunction
<1> QED
  BY <1>1, <1>2, FS_EmptySet, BoundAssumption
  DEF QuotaInv, NodeInv, ReservationInv, RoomInv, QuotaRespected

\* As long as no statement fails, what is stored and what is promised to all upload
\* rows together stay within the quota: two creations never both get the last
\* bytes, since the one that summed holds mu until its row is in the table.
THEOREM QuotaHolds == Spec => []QuotaRespected
<1>1. QuotaInv => QuotaRespected
  BY DEF QuotaInv
<1> QED
  BY <1>1, InitQuota, NextQuota, Invariant, PTL DEF Spec
=============================================================================
