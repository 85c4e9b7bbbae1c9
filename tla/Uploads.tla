------------------------------ MODULE Uploads ------------------------------
(***************************************************************************)
(* The resumable upload service (internal/uploads) over its two stores:    *)
(* the SQLite tables nodes, file_objects and uploads, and the directories  *)
(* staging/ and objects/.  Database statements and file system calls are   *)
(* single steps; between any two of them another thread may run, the step  *)
(* may fail, or the process may die and come back through main's startup   *)
(* reconciliation.                                                         *)
(*                                                                         *)
(* Threads are the HTTP handlers (Client) and the reconciler goroutine.    *)
(* The service mutex mu covers CreateUpload after its parent check, all of *)
(* WriteChunk with finalizeUpload, TerminateUpload and Reconcile.  The     *)
(* files service never takes it.                                           *)
(*                                                                         *)
(* Keys are generated once per upload, so an upload's id also names its    *)
(* staging file and its object.  A file's content is its length and        *)
(* whether it is the client's own bytes from the first one on.             *)
(***************************************************************************)
EXTENDS NodeTable, Integers, FiniteSetsExt

CONSTANTS Client,          \* HTTP handler threads
          Reconciler,      \* the ticker goroutine (and main, at startup)
          Free,            \* value of mu when nobody holds it
          Upload,          \* upload ids
          NoUpload,
          NewFolder,       \* ids CreateFolder draws from
          UploadSize,      \* expected sizes that clients declare
          MaxFileBytes, MaxStorageBytes, MinFreeBytes,   \* cfg
          DiskBytes,       \* capacity of the volume
          MaxChunk,        \* bound: bytes one PATCH carries
          MaxLength,       \* bound: length of a staging file
          MaxCrashes,      \* bound: how often the process dies
          MaxErrors        \* bound: disconnects and failing statements and calls

ASSUME ThreadAssumption == /\ Reconciler \notin Client
                           /\ Free \notin Client \cup {Reconciler}
ASSUME UploadAssumption == NoUpload \notin Upload
ASSUME NodeAssumption   == NewFolder \subseteq Node \ System
ASSUME NameAssumption   == Name # {}
ASSUME BoundAssumption  ==
  /\ UploadSize \subseteq Nat
  /\ MaxFileBytes \in Nat /\ MaxStorageBytes \in Nat /\ MinFreeBytes \in Nat
  /\ DiskBytes \in Nat /\ MaxChunk \in Nat /\ MaxLength \in Nat
  /\ MaxCrashes \in Nat /\ MaxErrors \in Nat

VARIABLES
  nodes,        \* table nodes
  fileObjects,  \* table file_objects: node id -> storage key and size_bytes
  uploads,      \* table uploads
  staging,      \* files of staging/
  objects,      \* files of objects/
  late,         \* uploads whose expires_at has passed
  serving,      \* main has finished the startup Reconcile and listens
  mu,           \* uploads.Service.mu
  pc, job,      \* per thread: next step, and the locals it works with
  todo,         \* the reconciler's list of rows still to handle
  unlinking,    \* objects that purge handlers have yet to remove
  crashes, errors   \* how many there have been

counters == <<crashes, errors>>
db       == <<nodes, fileObjects, uploads>>
disk     == <<staging, objects>>
threads  == <<mu, pc, job>>
vars     == <<nodes, fileObjects, uploads, staging, objects, late, serving,
              mu, pc, job, todo, unlinking, crashes, errors>>

Thread == Client \cup {Reconciler}
FileId == Node \ (System \cup NewFolder)

Open     == {"created", "receiving"}            \* WriteChunk accepts bytes
Reserved == Open \cup {"verifying", "finalizing"}
State    == Reserved \cup {"complete", "failed", "expired", "terminated"}

File      == [length : Nat, intact : BOOLEAN]
UploadRow == [state : State, parent : Node, name : Name,
              expected : Nat, received : Nat, reservation : Nat]
ObjectRow == [key : Upload, size : Nat]
Job       == [upload : Upload \cup {NoUpload}, parent : Node, name : Name,
              offset : Nat, bytes : Nat]
Label     == {"idle",
              "reserve", "stage", "insert",                    \* CreateUpload
              "append", "record", "hash", "rename", "commit",  \* WriteChunk
              "unstage",                                       \* TerminateUpload
              "expire", "expireUnstage", "resolve", "republish"} \* Reconcile

Empty == [x \in {} |-> x]

IdleJob == [upload |-> NoUpload, parent |-> Root, name |-> CHOOSE x \in Name : TRUE,
            offset |-> 0, bytes |-> 0]

TypeOK ==
  /\ nodes \in [DOMAIN nodes -> NodeRow] /\ System \subseteq DOMAIN nodes
  /\ DOMAIN nodes \subseteq Node
  /\ fileObjects \in [DOMAIN fileObjects -> ObjectRow]
  /\ DOMAIN fileObjects \subseteq Node
  /\ uploads \in [DOMAIN uploads -> UploadRow] /\ DOMAIN uploads \subseteq Upload
  /\ staging \in [DOMAIN staging -> File] /\ DOMAIN staging \subseteq Upload
  /\ objects \in [DOMAIN objects -> File] /\ DOMAIN objects \subseteq Upload
  /\ late \subseteq Upload
  /\ serving \in BOOLEAN
  /\ mu \in Thread \cup {Free}
  /\ pc \in [Thread -> Label]
  /\ job \in [Thread -> Job]
  /\ todo \subseteq Upload
  /\ unlinking \subseteq Upload
  /\ crashes \in 0..MaxCrashes /\ errors \in 0..MaxErrors

Init ==
  /\ nodes = SystemRows
  /\ fileObjects = Empty /\ uploads = Empty /\ staging = Empty /\ objects = Empty
  /\ late = {} /\ todo = {} /\ unlinking = {}
  /\ serving = FALSE
  /\ mu = Free
  /\ pc = [t \in Thread |-> "idle"]
  /\ job = [t \in Thread |-> IdleJob]
  /\ crashes = 0 /\ errors = 0

-----------------------------------------------------------------------------
(* Threads and errors.                                                     *)

\* p takes mu and goes on at l.
Acquire(p, l, j) == /\ mu = Free
                    /\ mu' = p
                    /\ pc' = [pc EXCEPT ![p] = l]
                    /\ job' = [job EXCEPT ![p] = j]

Goto(p, l) == /\ pc' = [pc EXCEPT ![p] = l]
              /\ UNCHANGED <<mu, job>>

\* The deferred Unlock of a return.
Return(p) == /\ mu' = Free
             /\ pc' = [pc EXCEPT ![p] = "idle"]
             /\ job' = [job EXCEPT ![p] = IdleJob]

\* A request arrives at an idle handler of a server that listens.
Arrives(p) == p \in Client /\ serving /\ pc[p] = "idle"

\* Something outside the program goes wrong in this step.
Error == errors < MaxErrors /\ errors' = errors + 1
NoError == UNCHANGED errors

-----------------------------------------------------------------------------
(* Accounting.                                                             *)

\* The columns size_bytes and reservation_bytes.
Sizes        == [n \in DOMAIN fileObjects |-> fileObjects[n].size]
Reservations == [u \in DOMAIN uploads |-> uploads[u].reservation]

StoredBytes == SumFunction(Sizes)

\* Mutant: the sum forgets the uploads that are being verified.
ReservedBytesWithoutVerifying ==
  SumFunctionOnSet(Reservations,
                   {u \in DOMAIN uploads : uploads[u].state \in Open \cup {"finalizing"}})

ReservedBytes ==
  SumFunctionOnSet(Reservations, {u \in DOMAIN uploads : uploads[u].state \in Reserved})

FreeBytes == DiskBytes - SumFunction([u \in DOMAIN staging |-> staging[u].length])
                       - SumFunction([u \in DOMAIN objects |-> objects[u].length])

QuotaAllows(size) == StoredBytes + ReservedBytes + size <= MaxStorageBytes
\* The error of each SUM is dropped by itself and leaves that sum at 0: with
\* both lost, only the size of the new upload counts.
QuotaAllowsUnsummed(size) == size <= MaxStorageBytes
\* GetDiskSpace fails or reports 0 free bytes: the check is skipped.
DiskAllows(size)  == FreeBytes > 0 => FreeBytes - size >= MinFreeBytes

SetState(u, s) == [uploads EXCEPT ![u].state = s]
\* Mutant: the reservation is given back by subtraction, once per settlement.
SettleBySubtraction(u, s) ==
  [uploads EXCEPT ![u].state = s, ![u].reservation = @ - uploads[u].expected]

\* Every terminal state gives the reservation back in the same statement.
Settle(u, s) == [uploads EXCEPT ![u].state = s, ![u].reservation = 0]

-----------------------------------------------------------------------------
(* POST: CreateUpload.                                                     *)

\* An id, and so a pair of storage keys, that no earlier request used.
Fresh(u) == /\ u \notin DOMAIN uploads \cup DOMAIN staging
            /\ \A t \in Thread : job[t].upload # u

\* The parent is looked up before the mutex is taken.
CreateAdmit(p, u, parent, name, size) ==
  /\ Arrives(p) /\ Fresh(u)
  /\ size <= MaxFileBytes
  /\ IsActiveFolder(nodes, parent)
  /\ pc' = [pc EXCEPT ![p] = "reserve"]
  /\ job' = [job EXCEPT ![p] = [upload |-> u, parent |-> parent, name |-> name,
                                offset |-> 0, bytes |-> size]]
  /\ UNCHANGED <<db, disk, late, serving, mu, todo, unlinking, counters>>

CreateAllowed(j) == /\ ~NameTaken(nodes, j.parent, j.name)
                    /\ QuotaAllows(j.bytes)
                    /\ DiskAllows(j.bytes)

\* Name, quota and disk are checked under the mutex.  The queries are one step:
\* of all that does not take the mutex, only the files service changes what they
\* read, and the name is checked again when the file is published.
CreateReserve(p) ==
  /\ pc[p] = "reserve"
  /\ CreateAllowed(job[p])
  /\ Acquire(p, "stage", job[p])
  /\ UNCHANGED <<db, disk, late, serving, todo, unlinking, counters>>

CreateReserveUnsummed(p) ==
  /\ pc[p] = "reserve" /\ Error
  /\ ~NameTaken(nodes, job[p].parent, job[p].name)
  /\ QuotaAllowsUnsummed(job[p].bytes)
  /\ DiskAllows(job[p].bytes)
  /\ Acquire(p, "stage", job[p])
  /\ UNCHANGED <<db, disk, late, serving, todo, unlinking, crashes>>

\* The error stands for the name query's, the one that is not dropped.
CreateReject(p) ==
  /\ pc[p] = "reserve" /\ mu = Free
  /\ IF CreateAllowed(job[p]) THEN Error ELSE NoError
  /\ Return(p)
  /\ UNCHANGED <<db, disk, late, serving, todo, unlinking, crashes>>

CreateStage(p) ==
  /\ pc[p] = "stage"
  /\ staging' = Put(staging, job[p].upload, [length |-> 0, intact |-> TRUE])
  /\ Goto(p, "insert")
  /\ UNCHANGED <<db, objects, late, serving, todo, unlinking, counters>>

\* parent_id is a foreign key: the folder may have been purged since CreateAdmit.
CreateInsert(p) ==
  LET j == job[p] IN
  /\ pc[p] = "insert"
  /\ j.parent \in DOMAIN nodes
  /\ uploads' = Put(uploads, j.upload,
                    [state |-> "created", parent |-> j.parent, name |-> j.name,
                     expected |-> j.bytes, received |-> 0, reservation |-> j.bytes])
  /\ Return(p)
  /\ UNCHANGED <<nodes, fileObjects, disk, late, serving, todo, unlinking,
                 counters>>

\* The INSERT fails, and the staging file is removed.
CreateUndo(p) ==
  /\ pc[p] = "insert"
  /\ IF job[p].parent \in DOMAIN nodes THEN Error ELSE NoError
  /\ staging' = Drop(staging, {job[p].upload})
  /\ Return(p)
  /\ UNCHANGED <<db, objects, late, serving, todo, unlinking, crashes>>

-----------------------------------------------------------------------------
(* PATCH: WriteChunk.                                                      *)

\* Mutant: any offset inside the file is taken.
OffsetInside(u, offset) == offset <= uploads[u].expected

OffsetMatches(u, offset) == offset = uploads[u].received

\* The checks under the mutex, and opening the staging file for append.  A
\* request that fails one of them changes nothing.
PatchOpen(p, u, offset) ==
  /\ Arrives(p)
  /\ u \in DOMAIN uploads
  /\ uploads[u].state \in Open
  /\ u \notin late
  /\ OffsetMatches(u, offset)
  /\ u \in DOMAIN staging
  /\ Acquire(p, "append", [IdleJob EXCEPT !.upload = u, !.offset = offset])
  /\ UNCHANGED <<db, disk, late, serving, todo, unlinking, counters>>

\* n bytes of the client's file, from the offset it was told, go to the end of
\* the staging file (O_APPEND), wherever that is.
Appended(file, offset, n) ==
  [length |-> file.length + n,
   intact |-> file.intact /\ (n = 0 \/ file.length = offset)]

Extend(p, n) ==
  LET u == job[p].upload IN
  /\ staging[u].length + n <= MaxLength
  /\ staging' = [staging EXCEPT ![u] = Appended(staging[u], job[p].offset, n)]

PatchAppend(p, n) ==
  /\ pc[p] = "append"
  /\ Extend(p, n)
  /\ pc' = [pc EXCEPT ![p] = "record"]
  /\ job' = [job EXCEPT ![p].bytes = n]
  /\ UNCHANGED <<db, objects, late, serving, mu, todo, unlinking, counters>>

\* The body ends early (disconnect, read timeout, full disk): the bytes that
\* came are in the file, and the handler returns without recording them.
PatchCut(p, n) ==
  /\ pc[p] = "append" /\ Error
  /\ Extend(p, n)
  /\ Return(p)
  /\ UNCHANGED <<db, objects, late, serving, todo, unlinking, crashes>>

\* Mutant: the length of the chunk is recorded.
ReceivedChunkOnly(p) == job[p].bytes

Received(p) == uploads[job[p].upload].received + job[p].bytes

PatchRecord(p) ==
  LET u == job[p].upload
      whole == Received(p) = uploads[u].expected IN
  /\ pc[p] = "record"
  /\ Received(p) <= uploads[u].expected
  /\ uploads' = [uploads EXCEPT ![u].received = Received(p),
                                ![u].state = IF whole THEN "verifying" ELSE "receiving"]
  /\ IF whole THEN Goto(p, "hash") ELSE Return(p)
  /\ UNCHANGED <<nodes, fileObjects, disk, late, serving, todo, unlinking,
                 counters>>

\* ErrLengthMismatch, found after the bytes were written.
PatchOverlong(p) ==
  /\ pc[p] = "record"
  /\ Received(p) > uploads[job[p].upload].expected
  /\ Return(p)
  /\ UNCHANGED <<db, disk, late, serving, todo, unlinking, counters>>

-----------------------------------------------------------------------------
(* finalizeUpload, still under the mutex of the last PATCH.                *)

\* Phase A, after the whole staging file was read for its checksum.
Intend(p) ==
  /\ pc[p] = "hash"
  /\ job[p].upload \in DOMAIN staging
  /\ uploads' = SetState(job[p].upload, "finalizing")
  /\ Goto(p, "rename")
  /\ UNCHANGED <<nodes, fileObjects, disk, late, serving, todo, unlinking,
                 counters>>

\* Mutant: the error of the rename is dropped.
MoveUnchecked(u) ==
  /\ u \in DOMAIN staging
  /\ \/ objects' = Put(objects, u, staging[u]) /\ staging' = Drop(staging, {u})
     \/ UNCHANGED disk

\* Storage.MoveStagingToObject: an atomic rename.
MoveToObjects(u) ==
  /\ u \in DOMAIN staging
  /\ objects' = Put(objects, u, staging[u])
  /\ staging' = Drop(staging, {u})

\* Phase B.
Rename(p) ==
  /\ pc[p] = "rename"
  /\ MoveToObjects(job[p].upload)
  /\ Goto(p, "commit")
  /\ UNCHANGED <<db, late, serving, todo, unlinking, counters>>

\* The constraints that the two INSERTs of Phase C meet: the parent row, the
\* sibling index, and the unique storage key.
CanPublish(u) ==
  /\ uploads[u].parent \in DOMAIN nodes
  /\ ~NameTaken(nodes, uploads[u].parent, uploads[u].name)
  /\ \A n \in DOMAIN fileObjects : fileObjects[n].key # u

\* Mutant: the upload is marked complete outside the transaction, later.
PublishUnmarked(u, n) ==
  /\ CanPublish(u)
  /\ n \notin DOMAIN nodes
  /\ nodes' = Put(nodes, n, NewRow(uploads[u].parent, "file", uploads[u].name))
  /\ fileObjects' = Put(fileObjects, n, [key |-> u, size |-> uploads[u].expected])
  /\ UNCHANGED uploads

\* The Phase C transaction as a whole, with n the new node's id.
Publish(u, n) ==
  /\ CanPublish(u)
  /\ n \notin DOMAIN nodes
  /\ nodes' = Put(nodes, n, NewRow(uploads[u].parent, "file", uploads[u].name))
  /\ fileObjects' = Put(fileObjects, n, [key |-> u, size |-> uploads[u].expected])
  /\ uploads' = Settle(u, "complete")

Commit(p, n) ==
  /\ pc[p] = "commit"
  /\ Publish(job[p].upload, n)
  /\ Return(p)
  /\ UNCHANGED <<disk, late, serving, todo, unlinking, counters>>

\* A constraint rejects an INSERT: rollback, and the upload stays finalizing.
CommitConflict(p) ==
  /\ pc[p] = "commit"
  /\ ~CanPublish(job[p].upload)
  /\ Return(p)
  /\ UNCHANGED <<db, disk, late, serving, todo, unlinking, counters>>

\* Any step of a handler that fails without an effect of its own: a disconnect
\* cancels the request's context, a statement or a file system call reports an
\* error.  The handler returns.  (At "insert" the removal of the staging file
\* fails as well, which the code ignores.)
HandlerError(p) ==
  /\ pc[p] \in {"stage", "insert", "record", "hash", "rename", "commit", "unstage"}
  /\ Error
  /\ Return(p)
  /\ UNCHANGED <<db, disk, late, serving, todo, unlinking, crashes>>

-----------------------------------------------------------------------------
(* DELETE: TerminateUpload.                                                *)

Terminable(u) == u \in DOMAIN uploads /\ uploads[u].state # "complete"

\* Mutant: TerminateUpload does not take the mutex (and leaves the file).
TerminateUnlocked(p, u) ==
  /\ Arrives(p)
  /\ Terminable(u)
  /\ uploads' = Settle(u, "terminated")
  /\ UNCHANGED <<nodes, fileObjects, disk, late, serving, threads, todo,
                 unlinking, counters>>

Terminate(p, u) ==
  /\ Arrives(p)
  /\ Terminable(u)
  /\ uploads' = Settle(u, "terminated")
  /\ Acquire(p, "unstage", [IdleJob EXCEPT !.upload = u])
  /\ UNCHANGED <<nodes, fileObjects, disk, late, serving, todo, unlinking,
                 counters>>

Unstage(p) ==
  /\ pc[p] = "unstage"
  /\ staging' = Drop(staging, {job[p].upload})
  /\ Return(p)
  /\ UNCHANGED <<db, objects, late, serving, todo, unlinking, counters>>

-----------------------------------------------------------------------------
(* Reconcile: at startup and from the ticker.                              *)

\* Mutants: every upload past its deadline is expired; only untouched ones are.
ExpirableAnyState == {u \in DOMAIN uploads : uploads[u].state \in Reserved /\ u \in late}
ExpirableUntouched == {u \in DOMAIN uploads : uploads[u].state = "created" /\ u \in late}

Expirable == {u \in DOMAIN uploads : uploads[u].state \in Open /\ u \in late}
\* Mutant: only uploads whose rename did not happen are looked at.
UnfinishedStaged ==
  {u \in DOMAIN uploads \cap DOMAIN staging : uploads[u].state = "finalizing"}

Unfinished == {u \in DOMAIN uploads : uploads[u].state = "finalizing"}

ReconcileStart ==
  /\ pc[Reconciler] = "idle"
  /\ Acquire(Reconciler, "expire", IdleJob)
  /\ todo' = Expirable
  /\ UNCHANGED <<db, disk, late, serving, unlinking, counters>>

\* The error of the UPDATE is ignored: the staging file goes in any case.
Expire(u) ==
  /\ pc[Reconciler] = "expire" /\ u \in todo
  /\ \/ uploads' = Settle(u, "expired") /\ NoError
     \/ UNCHANGED uploads /\ Error
  /\ pc' = [pc EXCEPT ![Reconciler] = "expireUnstage"]
  /\ job' = [job EXCEPT ![Reconciler].upload = u]
  /\ UNCHANGED <<nodes, fileObjects, disk, late, serving, mu, todo, unlinking,
                 crashes>>

ExpireUnstage ==
  LET u == job[Reconciler].upload IN
  /\ pc[Reconciler] = "expireUnstage"
  /\ \/ staging' = Drop(staging, {u}) /\ NoError
     \/ UNCHANGED staging /\ Error
  /\ todo' = todo \ {u}
  /\ Goto(Reconciler, "expire")
  /\ UNCHANGED <<db, objects, late, serving, unlinking, crashes>>

\* The list of finalizing uploads; an error stands for the failed first query,
\* which skips the expiry.
ListUnfinished ==
  /\ pc[Reconciler] = "expire"
  /\ IF todo = {} THEN NoError ELSE Error
  /\ todo' = Unfinished
  /\ Goto(Reconciler, "resolve")
  /\ UNCHANGED <<db, disk, late, serving, unlinking, crashes>>

\* One finalizing upload: an object on disk, only a staging file, or neither.
Resolve(u) ==
  /\ pc[Reconciler] = "resolve" /\ u \in todo
  /\ IF u \in DOMAIN objects \cup DOMAIN staging
       THEN /\ IF u \in DOMAIN objects THEN UNCHANGED disk ELSE MoveToObjects(u)
            /\ pc' = [pc EXCEPT ![Reconciler] = "republish"]
            /\ job' = [job EXCEPT ![Reconciler].upload = u]
            /\ UNCHANGED <<uploads, todo>>
       ELSE /\ uploads' = Settle(u, "failed")
            /\ todo' = todo \ {u}
            /\ UNCHANGED <<disk, pc, job>>
  /\ UNCHANGED <<nodes, fileObjects, late, serving, mu, unlinking, counters>>

\* The rename, or the statement that marks the upload, fails: on to the next.
ResolveSkip(u) ==
  /\ pc[Reconciler] = "resolve" /\ u \in todo \ DOMAIN objects
  /\ Error
  /\ todo' = todo \ {u}
  /\ UNCHANGED <<db, disk, late, serving, threads, unlinking, crashes>>

ResolveNext(u) == /\ todo' = todo \ {u}
                  /\ Goto(Reconciler, "resolve")

\* The transaction of the reconciler.  The errors of its statements are
\* dropped, so the UPDATE commits when the INSERTs were rejected (or found the
\* database busy); when a file_object is there already only the UPDATE runs.
Republish(n) ==
  LET u == job[Reconciler].upload IN
  /\ pc[Reconciler] = "republish"
  /\ Publish(u, n)
  /\ staging' = Drop(staging, {u})
  /\ ResolveNext(u)
  /\ UNCHANGED <<objects, late, serving, unlinking, counters>>

RepublishRejected ==
  LET u == job[Reconciler].upload IN
  /\ pc[Reconciler] = "republish"
  /\ IF CanPublish(u) THEN Error ELSE NoError
  /\ uploads' = Settle(u, "complete")
  /\ staging' = Drop(staging, {u})
  /\ ResolveNext(u)
  /\ UNCHANGED <<nodes, fileObjects, objects, late, serving, unlinking, crashes>>

\* The transaction does not start or does not commit.
RepublishFailed ==
  LET u == job[Reconciler].upload IN
  /\ pc[Reconciler] = "republish" /\ Error
  /\ staging' = Drop(staging, {u})
  /\ ResolveNext(u)
  /\ UNCHANGED <<db, objects, late, serving, unlinking, crashes>>

\* main starts to listen after the startup run, whatever that returned.
ReconcileEnd ==
  /\ \/ pc[Reconciler] = "resolve" /\ todo = {} /\ NoError
     \/ pc[Reconciler] = "expire" /\ Error
  /\ Return(Reconciler)
  /\ todo' = {}
  /\ serving' = TRUE
  /\ UNCHANGED <<db, disk, late, unlinking, crashes>>

-----------------------------------------------------------------------------
(* The files service and the purge handler: no mutex.  Each request is one *)
(* database transaction here.                                              *)

CreateFolder(n, parent, name) ==
  /\ serving
  /\ n \in NewFolder \ DOMAIN nodes
  /\ IsActiveFolder(nodes, parent)
  /\ ~NameTaken(nodes, parent, name)
  /\ nodes' = Put(nodes, n, NewRow(parent, "folder", name))
  /\ UNCHANGED <<fileObjects, uploads, disk, late, serving, threads, todo,
                 unlinking, counters>>

TrashNode(n) ==
  /\ serving
  /\ n \in DOMAIN nodes \ System
  /\ nodes' = Trashed(nodes, n)
  /\ UNCHANGED <<fileObjects, uploads, disk, late, serving, threads, todo,
                 unlinking, counters>>

RestoreNode(n) ==
  /\ serving
  /\ n \in DOMAIN nodes /\ nodes[n].trashed
  /\ UniqueSiblings(Restored(nodes, n))
  /\ nodes' = Restored(nodes, n)
  /\ UNCHANGED <<fileObjects, uploads, disk, late, serving, threads, todo,
                 unlinking, counters>>

\* Mutant: uploads.parent_id is not a foreign key.
PurgeableUnpinned(n) == /\ n \in DOMAIN nodes \ System
                        /\ nodes[n].trashed
                        /\ Children(nodes, n) = {}

\* Both foreign keys to nodes restrict the DELETE, and SQLite deletes rows in
\* the order of their creation.  A child is created after its folder here (no
\* request of this module moves one elsewhere), so a folder with children
\* cannot go, nor can one that an upload row names.
Purgeable(n) == /\ n \in DOMAIN nodes \ System
                /\ nodes[n].trashed
                /\ Children(nodes, n) = {}
                /\ \A u \in DOMAIN uploads : uploads[u].parent # n

KeysOf(n) == {fileObjects[m].key : m \in DOMAIN fileObjects \cap {n}}

\* PurgeNode: the row and, by cascade, its file_object.  The handler has the
\* storage key and still has to remove the object.
PurgeNode(n) ==
  /\ serving
  /\ Purgeable(n)
  /\ nodes' = Drop(nodes, {n})
  /\ fileObjects' = Drop(fileObjects, {n})
  /\ unlinking' = unlinking \cup KeysOf(n)
  /\ UNCHANGED <<uploads, disk, late, serving, threads, todo, counters>>

\* HandlePurgeNode: the error of RemoveObject is ignored.
UnlinkPurged(k) ==
  /\ k \in unlinking
  /\ \/ objects' = Drop(objects, {k}) /\ NoError
     \/ UNCHANGED objects /\ Error
  /\ unlinking' = unlinking \ {k}
  /\ UNCHANGED <<db, staging, late, serving, threads, todo, crashes>>

-----------------------------------------------------------------------------
(* Time and crashes.                                                       *)

\* UploadExpiry passes; only uploads that are still open are ever asked.
Lapse(u) ==
  /\ u \in DOMAIN uploads \ late
  /\ uploads[u].state \in Open
  /\ late' = late \cup {u}
  /\ UNCHANGED <<db, disk, serving, threads, todo, unlinking, counters>>

\* The process dies.  Tables and files stay; main reconciles before it listens.
Crash ==
  /\ crashes < MaxCrashes
  /\ crashes' = crashes + 1
  /\ serving' = FALSE
  /\ mu' = Free
  /\ pc' = [t \in Thread |-> "idle"]
  /\ job' = [t \in Thread |-> IdleJob]
  /\ todo' = {}
  /\ unlinking' = {}
  /\ UNCHANGED <<db, disk, late, errors>>

-----------------------------------------------------------------------------
\* What a thread that holds mu does next without an error.
ClientStep(p) ==
  \/ CreateStage(p) \/ CreateInsert(p)
  \/ \E n \in 0..MaxChunk : PatchAppend(p, n)
  \/ PatchRecord(p) \/ PatchOverlong(p)
  \/ Intend(p) \/ Rename(p) \/ CommitConflict(p)
  \/ \E n \in FileId : Commit(p, n)
  \/ Unstage(p)

ClientFailure(p) ==
  \/ CreateUndo(p)
  \/ \E n \in 0..MaxChunk : PatchCut(p, n)
  \/ HandlerError(p)

Request(p) ==
  \/ \E u \in Upload, parent \in Node, name \in Name, size \in UploadSize :
       CreateAdmit(p, u, parent, name, size)
  \/ CreateReserve(p) \/ CreateReserveUnsummed(p) \/ CreateReject(p)
  \/ \E u \in Upload, offset \in 0..MaxLength : PatchOpen(p, u, offset)
  \/ \E u \in Upload : Terminate(p, u)

ReconcilerStep ==
  \/ \E u \in Upload : Expire(u) \/ Resolve(u) \/ ResolveSkip(u)
  \/ ExpireUnstage \/ ListUnfinished
  \/ RepublishRejected \/ RepublishFailed \/ ReconcileEnd
  \/ \E n \in FileId : Republish(n)

FilesService ==
  \/ \E n \in NewFolder, parent \in Node, name \in Name : CreateFolder(n, parent, name)
  \/ \E n \in Node : TrashNode(n) \/ RestoreNode(n) \/ PurgeNode(n)
  \/ \E k \in Upload : UnlinkPurged(k)

Next ==
  \/ \E p \in Client : Request(p) \/ ClientStep(p) \/ ClientFailure(p)
  \/ ReconcileStart
  \/ ReconcilerStep
  \/ FilesService
  \/ \E u \in Upload : Lapse(u)
  \/ Crash

Spec == Init /\ [][Next]_vars

\* A thread that holds the mutex goes on; Go's mutex hands itself to a waiter
\* that starves, so the reconciler, which the ticker starts again and again,
\* gets it (strong fairness).  Nothing is assumed of clients.
Fairness == /\ \A p \in Client : WF_vars(ClientStep(p) \/ ClientFailure(p))
            /\ SF_vars(ReconcileStart)
            /\ WF_vars(ReconcilerStep)

FairSpec == Spec /\ Fairness

-----------------------------------------------------------------------------
(* Properties.                                                             *)

\* "Strict quota enforcement even under concurrent uploads" (ADR-0002): what
\* is stored and what is promised to any upload row never exceed the quota,
\* although CreateUpload reads the two sums and inserts in separate statements.
\* Only without errors: CreateReserveUnsummed breaks it.
QuotaRespected ==
  errors = 0 => StoredBytes + SumFunction(Reservations) <= MaxStorageBytes

\* A file that the database lists has its object on disk, not shorter than
\* size_bytes, and no purge handler is about to remove it: no order of
\* finalization, crash, reconciliation and purge leaves a dangling row.
FilesHaveObjects ==
  \A n \in DOMAIN fileObjects :
    LET k == fileObjects[n].key IN
    /\ k \in DOMAIN objects \ unlinking
    /\ objects[k].length >= fileObjects[n].size

\* "Never create duplicate logical files on retry" (plan 9.7): an upload has at
\* most one file_object, and only once it is complete, so a finalizing upload
\* that the reconciler finds never has one.
SingleLogicalFile ==
  \A n \in DOMAIN fileObjects :
    LET k == fileObjects[n].key IN
    /\ k \in DOMAIN uploads /\ uploads[k].state = "complete"
    /\ \A m \in DOMAIN fileObjects : fileObjects[m].key = k => m = n

\* The bytes that received_bytes acknowledges survive every crash and error: an
\* upload that can still be resumed has a staging file with at least those
\* bytes, a finalizing one has them in exactly one of the two directories (so
\* the reconciler never meets "neither exists", and fails no upload).
Recoverable ==
  \A u \in DOMAIN uploads :
    LET r == uploads[u] IN
    /\ (r.state \in Open /\ u \notin late) \/ r.state = "verifying" =>
         u \in DOMAIN staging /\ staging[u].length >= r.received
    /\ r.state = "finalizing" =>
         \/ u \in DOMAIN staging \ DOMAIN objects /\ staging[u].length >= r.expected
         \/ u \in DOMAIN objects \ DOMAIN staging /\ objects[u].length >= r.expected
    /\ r.state # "failed"

\* A retried PATCH can leave bytes in the staging file twice (see
\* PublishedIntact), but then the object is longer than size_bytes: an object
\* of the recorded length is the client's file, byte for byte.
CorruptionShowsInLength ==
  \A n \in DOMAIN fileObjects :
    LET o == objects[fileObjects[n].key] IN
    o.length = fileObjects[n].size => o.intact

FinalStates == State \ Reserved

EndedStay ==
  \A u \in DOMAIN uploads :
    /\ u \in DOMAIN uploads'
    /\ uploads[u].state \in FinalStates => uploads'[u].state \in FinalStates
    /\ uploads[u].state = "complete" => uploads'[u].state = "complete"

\* An upload that ended stays ended, and a complete one stays complete: no
\* handler that read the row earlier, and no reconciler with an old list,
\* reopens it (and so takes its reservation back).
EndedStaysEnded == [][EndedStay]_vars

\* An upload that becomes complete without a file, although every statement
\* worked, lost it to a node of its name beside it, and to nothing else: not to
\* a purge of the folder it was admitted to, in the trash or not, between its
\* creation and its publication, and not to a file that an earlier attempt left.
OnlyNamesCostFiles ==
  [][\A u \in DOMAIN uploads :
       /\ uploads[u].state # "complete" /\ uploads'[u].state = "complete"
       /\ \A n \in DOMAIN fileObjects' : fileObjects'[n].key # u
       /\ errors' = errors
       => NameTaken(nodes, uploads[u].parent, uploads[u].name)]_vars

StateOf(u) == IF u \in DOMAIN uploads THEN uploads[u].state ELSE "none"

\* ADR-0002, point 5: every upload found finalizing is resolved in the end.
FinalizingResolves ==
  \A u \in Upload :
    (StateOf(u) = "finalizing") ~> (StateOf(u) # "finalizing")

Released(u) == StateOf(u) \in FinalStates /\ uploads[u].reservation = 0

\* The last PATCH marked the upload and is gone, before finalizing was recorded:
\* no PATCH, no expiry and no reconciliation looks at such a row again, although
\* the plan has a job for it ("Stale reservation cleanup").
Stuck(u) == /\ StateOf(u) = "verifying"
            /\ \A t \in Thread : pc[t] = "hash" => job[t].upload # u

\* An upload whose deadline passed while it was open ends (expired, terminated,
\* or finished by the PATCH or the reconciler that was faster) and gives its
\* reservation back, or its last PATCH was cut off while it was verifying.
LapsedReleased ==
  \A u \in Upload :
    (u \in late /\ StateOf(u) \in Open) ~> (Released(u) \/ Stuck(u))

-----------------------------------------------------------------------------
(* The service implements its contract.                                    *)

Phase(u) ==
  CASE StateOf(u) = "none"                      -> "none"
    [] StateOf(u) \in Open                      -> "open"
    [] StateOf(u) \in {"verifying", "finalizing"} -> "sealed"
    [] StateOf(u) = "complete"                  -> "complete"
    [] OTHER                                    -> "closed"

Status       == [u \in Upload |-> Phase(u)]
Declared     == [u \in Upload |-> IF u \in DOMAIN uploads THEN uploads[u].expected ELSE 0]
Acknowledged == [u \in Upload |-> IF u \in DOMAIN uploads THEN uploads[u].received ELSE 0]
Listed       == {fileObjects[n].key : n \in DOMAIN fileObjects}

Contract == INSTANCE UploadContract WITH
  MaxSize <- MaxFileBytes, status <- Status, size <- Declared,
  received <- Acknowledged, listed <- Listed

\* Three database writes, two directories, a reconciler, crashes and dropped
\* errors behave like the atomic steps of UploadContract: acknowledged bytes are
\* never taken back, a file appears in the same step as its completion, once,
\* and an upload that ended is left alone.
ImplementsContract == Contract!Spec

-----------------------------------------------------------------------------
(* What the documents say, and the code does not do.                       *)

\* "Client treats only server-reported complete as a successfully created
\* file": an upload that becomes complete has a file.
CompleteHasFile ==
  [][\A u \in DOMAIN uploads :
       uploads[u].state # "complete" /\ uploads'[u].state = "complete" =>
         \E n \in DOMAIN fileObjects' : fileObjects'[n].key = u]_vars

\* "No corrupt or orphan files left behind": a listed file is what was sent.
PublishedIntact ==
  \A n \in DOMAIN fileObjects :
    LET k == fileObjects[n].key IN
    objects[k].intact /\ objects[k].length = fileObjects[n].size

-----------------------------------------------------------------------------
(* The inductive invariant behind the safety properties.                   *)

ClientLabel     == {"idle", "reserve", "stage", "insert", "append", "record",
                    "hash", "rename", "commit", "unstage"}
ReconcilerLabel == {"idle", "expire", "expireUnstage", "resolve", "republish"}

\* Only the holder of mu is past the lock.
MutexInv ==
  /\ \A p \in Client : pc[p] \in ClientLabel
  /\ pc[Reconciler] \in ReconcilerLabel
  /\ \A t \in Thread : pc[t] \notin {"idle", "reserve"} => mu = t

\* A creation under way owns its upload id: no row, no other thread.
FreshInv ==
  \A t \in Thread : pc[t] \in {"reserve", "stage", "insert"} =>
    LET u == job[t].upload IN
    /\ u \in Upload \ DOMAIN uploads
    /\ \A s \in Thread \ {t} : job[s].upload # u
    /\ IF pc[t] = "insert"
         THEN u \in DOMAIN staging /\ staging[u] = [length |-> 0, intact |-> TRUE]
         ELSE u \notin DOMAIN staging

\* At least n bytes, and the right ones if no more than n.
Holds(file, n) == file.length >= n /\ (file.length = n => file.intact)

\* Where the bytes of each upload row are.
RowInv ==
  \A u \in DOMAIN uploads :
    LET r == uploads[u] IN
    /\ r.state \in Open => /\ u \notin late => u \in DOMAIN staging
                           /\ u \in DOMAIN staging => Holds(staging[u], r.received)
    /\ r.state = "verifying" => /\ r.received = r.expected
                                /\ u \in DOMAIN staging /\ Holds(staging[u], r.expected)
    /\ r.state = "finalizing" =>
         \/ u \in DOMAIN staging \ DOMAIN objects /\ Holds(staging[u], r.expected)
         \/ u \in DOMAIN objects \ DOMAIN staging /\ Holds(objects[u], r.expected)
    /\ r.state # "failed"

\* What a handler knows of the row it works on, as long as it holds mu.
JobInv ==
  \A p \in Client :
    LET u == job[p].upload
        r == uploads[u] IN
    /\ pc[p] \in {"append", "record"} =>
         u \in DOMAIN uploads /\ r.state \in Open /\ u \in DOMAIN staging
    /\ pc[p] = "append" => job[p].offset = r.received
    /\ pc[p] = "record" => Holds(staging[u], r.received + job[p].bytes)
    /\ pc[p] = "hash" => u \in DOMAIN uploads /\ r.state = "verifying"
    /\ pc[p] \in {"rename", "commit"} => u \in DOMAIN uploads /\ r.state = "finalizing"
    /\ pc[p] = "rename" => u \in DOMAIN staging
    /\ pc[p] = "commit" => u \in DOMAIN objects
    /\ pc[p] = "unstage" => u \in DOMAIN uploads /\ r.state = "terminated"

\* What the reconciler knows of the rows on its list.
TodoInv ==
  LET l == pc[Reconciler]
      v == job[Reconciler].upload IN
  /\ l \in {"expire", "expireUnstage"} =>
       \A u \in todo : /\ u \in DOMAIN uploads /\ u \in late
                       /\ uploads[u].state \in Open \/ (l = "expireUnstage" /\ u = v)
  /\ l = "expireUnstage" => /\ v \in DOMAIN uploads /\ v \in late
                            /\ uploads[v].state \in Open \cup {"expired"}
  /\ l \in {"resolve", "republish"} =>
       \A u \in todo : u \in DOMAIN uploads /\ uploads[u].state = "finalizing"
  /\ l = "republish" => v \in todo /\ v \in DOMAIN objects

\* Where listed files have their bytes, and what purge handlers may remove.
FileInv ==
  /\ \A n \in DOMAIN fileObjects :
       LET k == fileObjects[n].key IN
       /\ k \in DOMAIN uploads /\ uploads[k].state = "complete"
       /\ k \in DOMAIN objects \ unlinking
       /\ Holds(objects[k], fileObjects[n].size)
       /\ \A m \in DOMAIN fileObjects : fileObjects[m].key = k => m = n
  /\ \A k \in unlinking : k \in DOMAIN uploads /\ uploads[k].state = "complete"

ObjectInv == \A u \in DOMAIN objects : u \in DOMAIN uploads /\ u \notin DOMAIN staging

IInv == /\ TypeOK /\ MutexInv /\ FreshInv /\ RowInv
        /\ JobInv /\ TodoInv /\ FileInv /\ ObjectInv

-----------------------------------------------------------------------------
(* What the contract and the quota need besides.                           *)

\* A creation under way was admitted with a size that the limit allows.
SizeInv == \A t \in Thread : pc[t] \in {"reserve", "stage", "insert"} =>
                               job[t].bytes <= MaxFileBytes

\* uploads.parent_id is a foreign key: the folder of an upload is a node.
ParentPinned == \A u \in DOMAIN uploads : uploads[u].parent \in DOMAIN nodes

\* file_objects.node_id is a foreign key: every listed file is a node.
NodeInv == DOMAIN fileObjects \subseteq DOMAIN nodes

\* Each row reserves its whole size until it ends, and nothing from then on.
ReservationInv ==
  /\ IsFiniteSet(DOMAIN uploads) /\ IsFiniteSet(DOMAIN fileObjects)
  /\ \A u \in DOMAIN uploads :
       uploads[u].reservation =
         IF uploads[u].state \in Reserved THEN uploads[u].expected ELSE 0

\* The quota has room for the creation that was allowed and holds mu, too.
RoomInv ==
  errors = 0 =>
    \A p \in Client : pc[p] \in {"stage", "insert"} =>
      StoredBytes + SumFunction(Reservations) + job[p].bytes <= MaxStorageBytes

QuotaInv == NodeInv /\ ReservationInv /\ RoomInv /\ QuotaRespected
=============================================================================
