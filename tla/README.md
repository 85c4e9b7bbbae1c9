# Verification of tuan-file-manager

TLA+ models of the self-hosted file manager under `src/`, model-checked with TLC
on small instances, and theorems about them for every value of the constants,
checked with TLAPS. All paths below are relative to `src/`.

Contents: 1 the system, 2 modules and plan, 3 how the models correspond to the
code, 4 runs, 5 fairness, 6 proofs, 7 findings, 8 what the models leave out.

## 1. The system

A Go server over one SQLite file and one data directory. Cloudflare Access
authenticates the administrator; public visitors come through share links.

| component | state it keeps | operations | interacts with |
|---|---|---|---|
| `internal/uploads` | table `uploads`, mutex `mu` | CreateUpload (POST), WriteChunk and finalizeUpload (PATCH), TerminateUpload (DELETE), GetUpload (HEAD), Reconcile | reads and inserts into `nodes` and `file_objects`; staging files and objects; started by `cmd/server` at startup and by a ticker |
| `internal/files` | table `nodes` | CreateFolder, ListNodes, RenameNode, MoveNode, TrashNode, RestoreNode, PurgeNode, ToggleBackupSelection | foreign keys to and from `uploads`, `file_objects`, `shares`; returns storage keys for the handler to unlink |
| `internal/storage` | directories `staging/`, `objects/` | create, append, rename, remove, open, free space | called by uploads, downloads and the purge handler |
| `internal/db`, `migrations` | schema, pragmas | constraints; a pool of four connections, so statements of different requests interleave | all services |
| `internal/httpapi` | none | handlers; HandlePurgeNode unlinks objects after the purge committed | all services |
| `cmd/server` | none | startup Reconcile, then listen, reconciler goroutine, shutdown | uploads, httpapi |
| `internal/shares` | table `shares` | create, revoke, unlock with a password, validate a session, CheckNodeInShare | reads `nodes`; rows go with their node |
| `internal/downloads` | two semaphores | ServeDownload | storage, nodes |
| `internal/auth` | JWKS cache | VerifyToken, fetchJWKS | Cloudflare, over HTTP |
| `internal/audit` | table `audit_events` | one INSERT per event, in a goroutine | nothing reads it |
| `scripts` | snapshot directory | database copy, object links, restic | reads the live database and objects |
| `internal/config`, `internal/observability`, `web`, `deploy` | none that the server's data depends on | | |

What is hard in it, and what makes it correct:

* **Uploads.** The bytes are in the file system and the rows in SQLite, and no
  transaction spans both. `docs/adr/0002` describes three phases (durable
  intent, rename, metadata transaction) and a reconciler that finishes what a
  crash interrupts. Correct means: acknowledged bytes are not lost, a listed file
  has its object, an upload makes one file, an ended upload stays ended, the
  quota holds, and an upload that is finalizing is resolved in the end.
* **File tree.** Each operation checks in separate SELECTs and writes later,
  without a lock. Correct means: the rows stay a tree below the two system nodes,
  the system nodes stay, trashing hides a whole subtree and restoring undoes it,
  purging removes trashed nodes only, and does remove them.
* **Shares.** Revocation, expiry and the check that a node is inside the shared
  folder are separate reads, while nodes move and are trashed. Correct means: a
  share that ended stays ended, also after a recovery from an older database, and
  a visitor gets only what the share showed.
* **Auth.** The key cache with its limit on refetching: a rotated key is accepted
  in the end, and an older answer never replaces a newer one. (A withdrawn key is
  accepted until an unknown one, or a restart, makes the verifier fetch again.)
* **Downloads.** An object can be unlinked between lookup and use, and a place in a
  bounded channel must come back whichever way a download ends.
* **Connections.** Four of them serve all requests; a listing of shares needs two at
  once, and uploads wait for them with a mutex held.
* **Listings.** The cursor must neither skip nor repeat what stays in a folder, and a
  search must find neither what is in the trash nor what a visitor may not see.

`PROJECT.json` lists the hazards one by one, at their lines.

## 2. Modules and plan

| module | what it is |
|---|---|
| `NodeTable` | the table `nodes` as a value; queries and statements of the files service as operators |
| `Uploads` | upload service, reconciler, purge handler, process death, over database and directories; extends `NodeTable` |
| `UploadContract` | the abstract specification of an upload as a client sees it; `Uploads` implements it under the mapping at its end |
| `FileTree` | the files service with reads and writes as separate steps; extends `NodeTable` |
| `Paging` | ListNodes, page after page, while the listed rows change |
| `Shares` | public shares from creation to end, with cookies, restarts and the recovery from a backup |
| `Browse` | what a request reads once its share is accepted: CheckNodeInShare, the listing, ServeDownload; extends `NodeTable` |
| `Auth` | the key cache of the Cloudflare Access verifier under key rotation |
| `ConnPool` | the four database connections and the upload mutex, shared by all requests |
| `MCUploads`, `MCFileTree`, `MCBrowse` | instances for TLC |
| `NodeTableProofs`, `UploadsProofs`, `FileTreeProofs`, `PagingProofs`, `SharesProofs`, `BrowseProofs`, `AuthProofs`, `ConnPoolProofs` | lemmas and theorems |

A module takes from its neighbours what they do to its own state, in single
steps, and leaves the finer steps to the neighbour's module. `Uploads` takes each
request of the files service as one transaction; `FileTree` opens those requests
up, and takes from uploads only what they do to the tree (pin a folder, add a
file row). `Shares` ends where the share is accepted, and `Browse` begins there.
`ConnPool` knows of a request only how many statements it makes and whether one
runs inside another.

Left of the plan, in order:

1. The object half of a backup: hard links are taken after the database's copy,
   with purges in between, and a restored database meets newer object files.
2. `Uploads` with power loss (what `fsync` does and does not order).
3. `ToggleBackupSelection` and `ListTrash`; the migration runner.
4. Proofs: which pair of operations breaks `TrashClosed`.

## 3. From code to model

**Tables and directories** are functions whose DOMAIN is the set of keys present.
`Put` and `Drop` are the single-row statements. Constraints of the schema
(`migrations/001_initial_schema.sql`) stand in the guards: the sibling index
(`NameTaken`, `UniqueSiblings`), foreign keys (`j.parent \in DOMAIN nodes`,
`Purgeable`, `Deletable`), the unique storage key (`CanPublish`).

**Threads** have a label `pc[t]` naming the next statement and a record `job[t]`
with the locals. In `Uploads` each call that changes a table or a directory is an
action of its own, and what a handler reads before it, under the mutex, belongs to
that action or the one before: the reads of `PatchOpen`; the name query, the two
sums and the free space of `CreateReserve` (only the files service can come in
between; a purge lowers the sums, and the name is checked again in phase C).

| code (`internal/uploads/service.go`) | actions |
|---|---|
| CreateUpload | `CreateAdmit` (before the lock), `CreateReserve` / `CreateReserveUnsummed` / `CreateReject`, `CreateStage`, `CreateInsert` / `CreateUndo` |
| WriteChunk | `PatchOpen`, `PatchAppend` / `PatchCut`, `PatchRecord` / `PatchOverlong` |
| finalizeUpload | `Intend` (phase A), `Rename` (B), `Commit` / `CommitConflict` (C) |
| TerminateUpload | `Terminate`, `Unstage` |
| Reconcile | `ReconcileStart`, `Expire`, `ExpireUnstage`, `ListUnfinished`, `Resolve` / `ResolveSkip`, `Republish` / `RepublishRejected` / `RepublishFailed`, `ReconcileEnd` |
| any statement or call that fails | `HandlerError` and the failing disjuncts, counted by `errors` |
| HandlePurgeNode (`internal/httpapi/handlers.go`) | `PurgeNode`, `UnlinkPurged` |
| main (`cmd/server/main.go`) | `serving` is set by the first `ReconcileEnd`; `Crash` |

The reconciler thread is main's startup call and the ticker's goroutine, which
never overlap. `Crash` empties everything that lives in memory and keeps the
tables and the directories.

In `FileTree` each operation is a check and a write, `Begin` and `Write`:
`CreateCheck`/`Create`, `RenameCheck`/`Rename`, `MoveCheck`/`Climb`/`Move` (one
`Climb` per SELECT of the ancestor walk), `TrashCheck`/`Trash`,
`RestoreCheck`/`ChooseTarget`/`Restore`, `PurgeCheck`/`Purge`. `Write` leaves the
table alone when a constraint rejects the statement.

In `UploadContract` the bytes, files and handlers are gone: an upload has a phase,
a size, the bytes acknowledged, and its place in the list of files. The mapping
(`Phase`, `Declared`, `Acknowledged`, `Listed` in `Uploads`) reads all of that off
the tables `uploads` and `file_objects`. `Forfeit` is the exception the service
makes (finding 1), so the contract states it.

| code | module | actions |
|---|---|---|
| CreateShare, RevokeShare (`internal/shares/service.go`) | Shares | `CreateCheck`, `Insert` / `InsertRejected`; `RevokeShare` |
| GetShareByToken, scanShare, ValidateSessionCookie, UnlockWithPassword, and the handlers of `/s/{token}` | Shares | `FetchRow`, `FetchTarget`, then one of `Serve`, `Refuse`, `Panic` |
| `scripts/backup.sh`, `scripts/restore.sh` | Shares | `Backup`, `Recover` |
| CheckNodeInShare | Browse | `Read`, `Inside` |
| the listing of HandlePublicShareNodes | Browse | `List` (the query of ListNodes, with or without a search text), `Answer` |
| ServeDownload | Browse | `Admit`, `Open`, `Copy` |
| ListNodes | Paging | `ListNodes` |
| VerifyToken | Auth | `Arrive`, `Lookup`, `Recheck`, `Decide` |
| fetchJWKS | Auth | `Lock`, `Ask`, `Receive` / `FetchFails`, `Unlock` |
| a statement or transaction of any service | ConnPool | `Take`, `Release` |
| ListShares with scanShare on its open result set | ConnPool | `Take`, then `NextRow`, `Take`, `EndRow` per row, then `Release` |
| CreateUpload, WriteChunk, TerminateUpload, Reconcile | ConnPool | `Lock` before `Take` |

`Browse` has one variable part the code has not: `shown` in `job` remembers if a
node was in the share at some moment of the request. `Shares` has `failed` (the
lookup of the target returned an error), `Paging` has `stayed`, `seen`, `again` and
`passed` (the files that a page passed over), and `Auth` `steady`, `changed` and
`pending`, to the same end: they record what a property speaks of and no guard
reads them.

Some places where the model says more than a first reading of the code:

* `Appended`: the staging file is opened with `O_APPEND`, so bytes go to its end
  wherever the client believes they go. A file's content is its length and
  whether it is a prefix of the client's own bytes.
* `QuotaAllowsUnsummed`: CreateUpload drops the error of either sum, or of both,
  and takes it as 0.
* `RepublishRejected`: the reconciler ignores the errors of its INSERTs, so its
  UPDATE commits without them.
* `Deletable`: the purge is one `DELETE ... WHERE id IN`, which SQLite carries
  out in the order of rowids, and `ON DELETE RESTRICT` is checked row by row. So
  `FileTree` keeps the order of insertion in `older`. `file_objects` and `shares`
  cascade and restrict nothing.
* `Restorable`: with `UNION ALL`, the query for descendants does not end when the
  target lies below the node; the request ends by cancellation, without effect.
* `FetchTarget`: `scanShare` drops every error of `GetNode`, a missing row as well as
  a busy database or a cancelled request, and two handlers use the target without
  a check. They panic when they have none; net/http recovers.
* `Listable` of `Browse`: with a search text ListNodes does not use the parent.
* `Open` of `Browse`: when the object is gone the handler writes nothing, and
  net/http makes that an empty answer with status 200.
* `Before` and `After` of `Paging`: a folder's listing is sorted by kind, name and
  id, and its cursor compares name and id.
* `Limited` of `Auth`: the limit of ten seconds applies only while there are keys.

## 4. Runs

Passing runs:

| run | instance | shows |
|---|---|---|
| `uploads_faults` | 2 uploads of 1 or 2 bytes under a quota of 3, 2 handlers, 1 crash, 1 error, chunks of 0 to 2 bytes; 1.5 million states | `TypeOK`, `Recoverable`, `FilesHaveObjects`, `SingleLogicalFile`, `CorruptionShowsInLength`, `QuotaRespected`, `EndedStaysEnded`, `ImplementsContract` |
| `uploads_live` | 1 upload of 0 or 2 bytes, a folder that may take its name, hold it, or be purged, 1 crash, 1 error; 83 000 states | `OnlyNamesCostFiles`, `FinalizingResolves`, `LapsedReleased` |
| `tree_sequential` | 1 handler, every operation, 2 folders, 1 uploaded file, 1 name; 3.0 million states | `TypeOK`, `Rooted`, `TrashClosed`, `RestoreUndoesTrash`, `OnlyTrashedPurged` |
| `tree_race` | 2 handlers, every operation but move, 2 folders, 1 file, 2 names; 2.2 million states | `Rooted`, `SystemIntact` |
| `paging` | 2 folders and 2 files under 3 names, from every initial listing, folder or search, pages of 1 or 2; 278 000 states | `NothingMissed`, `NothingRepeated`, `EveryListingEnds` |
| `shares` | 2 shares with and without password and expiry, an admin, a visitor, 1 revocation each, 1 recovery; 3.1 million states | `TargetLostWithShare`, `EndedForGood` |
| `browse` | 2 requests, the shared folder, a folder and a file, one place in each download channel; 691 000 states | `TypeOK`, `SlotsExact`, `ServesWhatWasShown`, `EmptyOnlyIfPurged`, `SlotsFreed` |
| `auth` | 2 keys, 2 requests, 3 rotations, 1 failing fetch, restarts; 214 000 states | `CacheFaithful`, `FetchFindsKey`, `NeverOlder`, `EveryAnswered`, `LearnsKey` |
| `pool` | 2 connections, 2 listings, 2 uploads, 1 other request, up to 2 statements or rows each; 52 000 states | `OnlyListingsStall`, `EveryServed` |

Runs that end in a violation, one per finding: `uploads_no_file`,
`uploads_corrupt`, `tree_cycle` (section 7).

Bounds, and why they are enough to meet the interesting cases:

* `Upload`, `Client`: the mutex admits one thread at a time, so two uploads and
  two handlers have every pair of rivals: two for one name, one quota or one
  folder, a PATCH against a DELETE, either against the reconciler or a purge.
* `UploadSize`, `MaxChunk`, `MaxLength`: a chunk can be empty, partial, exact
  or too long, and can be appended once more after a crash; 0 bytes are in
  `uploads_live`. Two uploads of 2 bytes do not both fit into the quota of 3.
* `MaxCrashes`, `MaxErrors`: one of each, at any step, including a crash during
  the recovery from an error. The proofs need neither bound.
* Folders and files: a cycle needs two folders; purge order needs a folder and
  its content. One uploaded file stands for all, as files have no children.
* `Mover` (FileTree): the handlers that MoveNode requests come to. Empty in
  `tree_race`, since two moves do break the tree (`tree_cycle`).
* `IdsLeft` (FileTree) bounds creations under way by the ids left; ids are
  used again only when nothing mentions them any more.
* Paging: two of each kind let a page end with either and leave one of either
  behind; two hits of a search can have one name.
* Shares: a second share is there beside the one that ends, and a share made after
  the backup that is then recovered fits. `MaxVersion` and `MaxEpoch` allow one
  revocation of a share and one recovery; the proofs need neither bound.
* Browse: `Offered` gives one handler the listings and the other the public
  downloads, and both the admin's, so every pair of rivals for a place is
  there. `Moved` leaves the shared folder where it is; it is still trashed. A
  search names no folder of its own, so only listings of the shared one come with
  a search text.
* Auth: three rotations bring a key in, out, and in again, with a fetch on its
  way each time.
* ConnPool: as many listings as connections, which is what it takes for them to
  stall (and they do reach `Stalled`); both uploads compete for the mutex.
* `Symmetric` permutes what no definition tells apart; runs with liveness
  properties use none.

Deadlock is checked in every run but `paging`, where a listing that was read to
its end stops.

`TrashClosed` and `OnlyTrashedPurged` are claimed for one request at a time. With
two handlers the code breaks both: CreateFolder's check and TrashNode, PurgeNode's
check and RestoreNode. `QuotaRespected` is claimed without errors: the errors of
the two SUM queries are dropped (`CreateReserveUnsummed`). `NothingMissed` and
`NothingRepeated` hold as a whole for searches. In a folder `NothingMissed` excepts
the files in `passed`: when a page that is not the last one ends with a folder, the
files still to come whose names sort before it. `NothingRepeated` excepts
folders. `LapsedReleased` excepts an upload whose last PATCH was cut off while
`verifying` (`Stuck`). `TargetLostWithShare` is about lookups that succeeded.
`ServesWhatWasShown` is about the folder listed, the file downloaded and, without a
search text, the nodes listed. Without any one of these exceptions TLC finds
the property violated in the same instance; what that means for the code is in
section 7.

## 5. Fairness

**Uploads.** A handler that holds the mutex goes on, or fails (`WF` on
`ClientStep \/ ClientFailure`): its database calls return, and the body of a PATCH
ends, with the server's ReadTimeout if not before. The reconciler goes on once it
runs (`WF` on `ReconcilerStep`). The ticker of `cmd/server/main.go` starts it again
and again, and Go's mutex hands itself to a waiter that has starved for a
millisecond: strong fairness of `ReconcileStart`. Nothing is assumed of clients: no
request need ever come, no upload need go on. The failing steps are inside the
fair actions, but errors and crashes are bounded: the liveness properties say
that once failures stop, work completes.

**Browse.** `WF` on each handler: its statements end, and the server's
WriteTimeout of 60 minutes ends a copy to a visitor who does not read.

**Auth.** `SF` on the steps of each request: the lock is Go's, which does not
starve a writer, and the HTTP client has a timeout. `WF` on `Tick`: time passes.
Failing fetches are bounded, so `LearnsKey` says that a key is learnt once the
endpoint answers. No rotation and no request need happen.

**ConnPool.** `SF` on the steps of each request: statements end (`busy_timeout`),
`database/sql` queues its waiters and Go's mutex hands itself over. Clients may
leave at any time, and none need come or leave: so listings that hold every
connection may wait for ever, and `EveryServed` excepts that state by name.

**Paging.** `WF(Page)` is the client's: it asks for the next page as long as it is
given a cursor. Other requests may change the listing for ever.

## 6. Proofs

The proofs hold for any number of uploads, handlers, nodes, shares, keys,
connections, crashes and errors, any sizes and limits. They assume what the
modules assume of their constants, by name: in NodeTable `SystemNodesAssumption` and
`NoNodeAssumption`; in Uploads `ThreadAssumption`, `UploadAssumption`, `NodeAssumption`,
`NameAssumption` and `BoundAssumption`; in FileTree `NodeAssumption` and
`MoverAssumption`; in Shares `HandlerAssumption` and `BoundAssumption`; in Browse
`KindAssumption`, `NameAssumption`, `OfferedAssumption`, `VisitorAssumption` and
`SlotsAssumption`; in Auth `FreeAssumption` and `BoundAssumption`; in ConnPool
`RequestAssumption` and `StatementAssumption`. TLC evaluates these in every run.

**UploadsProofs.** `Invariant` is `Spec => []IInv`; TypeCorrect,
AcknowledgedBytesRecoverable, ListedFilesHaveObjects, PublishedOnce,
CorruptionDetectable and EndedForGood follow from it. `FilesLostToNamesOnly` needs
the lemma `ParentStaysPinned` besides (an upload's folder is a node as long as its
row is there: only a purge deletes nodes, and the foreign key stops it); of
the three constraints that can reject the INSERTs of a publication, the unique
key is excluded by `FileInv`, the parent by that lemma, and the name is left. None of
those properties is inductive alone. `IInv` adds:

* `MutexInv`: a thread past the lock holds `mu`. Two threads past it would each
  act on a row that the other changes.
* `FreshInv`: a creation under way owns its id, so its staging file is nobody's.
* `RowInv`: where the bytes of a row are, by its state. A finalizing upload has
  them in exactly one directory, at full length; this is why the reconciler's
  `failed` branch is never taken.
* `JobInv`, `TodoInv`: what a handler, and the reconciler with its list, still
  know of the row they read some steps ago. `PatchOpen`'s equality of offset and
  `received_bytes` is what makes an object of the recorded length intact.
* `FileInv`, `ObjectInv`: listed files have their bytes, objects have a row, and
  purge handlers hold only keys of complete uploads that no file has any more.

There is one lemma per action, and `NextIInv` combines them.

`ServiceImplementsContract`: `Spec => Contract!Spec`. To `IInv` it adds that a
creation under way has an admitted size (`SizeInv`), and the foreign key of
`file_objects` (`NodeInv`). A step that writes `uploads` writes one row (`OneRow`); the
invariant says in which phase that row was, and this names the contract's
step. All other steps, crashes included, stutter.

`QuotaHolds`: `Spec => []QuotaRespected`. What is promised is the sum of two columns,
and `NextPromises` says that no step raises it but the INSERT of CreateUpload: Phase C
moves a size from one sum into the other, every end of an upload takes its
reservation out, a purge takes a size out. So `QuotaInv` has

* `ReservationInv`: a row reserves its whole size until it ends and nothing from
  then on. Then the sum in CreateUpload, which looks at four states only, is the
  sum over the whole column (`ReservedIsAll`).
* `RoomInv`: there is room for the bytes of the creation that is between its sums
  and its INSERT. It holds `mu` (`MutexInv`), so no second creation can be there, and
  whatever other steps come in between do not raise the sums.
* `NodeInv`: the new file's row is new in `file_objects`, so its size is added, not
  replaced.

**NodeTableProofs** is about the operators: types of the tables that `Trashed` and
`RestoredTo` return, that `Subtree` is closed and least, and that `Rooted` on any
table survives reparenting to a node outside the subtree, insertion below a
row, and removal of a subtree. `Rooted` says that any
set of ordinary rows has one whose parent lies outside the set (well-foundedness,
without recursion); `RootedElim` and `RootedIntro` turn that into statements about
sets that are closed under children, which is how the subtrees are defined. The
lemmas about the rows of a trashed or restored subtree serve both the file tree
and browsing.

Its last part is about sums. The library defines them by recursion over a set from
which one member after another is chosen. An induction over finite sets is needed
to reason about that, and the library's induction theorems cannot be used (they
take an operator). `MinimalSet` stands in for them: the sets for which a claim
fails, if there are any, have a smallest one. `SumDef` gives the recursion, `SumRemove`
says that any member may be taken out first, and `SumChange`, `SumAdd`, `SumPart` and
`SumZeros` are what statements on a table do to a sum.

**FileTreeProofs.** `TreeInvariant` gives `TreeTypeCorrect` and `SystemStaysIntact`
for any interleaving, moves included. `RootedWithoutMoves` says that with
`Mover = {}` no interleaving makes a cycle or an orphan: Trash moves a node below
`TRASH_ROOT`, which is in no one's subtree; Restore's transaction sees the
subtree as it is; Create has the foreign key. With moves it is false
(`tree_cycle`): Move trusts a walk that is over. A single handler that moves is no
remedy: `TreeCycle.cfg` with `Mover = {c1}` still ends in a cycle. While c1 walks
from a folder to move its parent there, c2 trashes the folder, the walk goes on to
`TRASH_ROOT` and passes, and c2 restores the folder to where it was.

The rest is about one request at a time: the theorems have `OneHandler` as a
hypothesis, because with two handlers they are false, which is finding 3 and the
comments at `TrashClosed` and `OnlyTrashedPurged`. `SoloInvariant` is their
inductive invariant. Beside `TInv` and `Rooted` it has

* `ReadInv`: what the request read still holds when it writes. Uploads do come in
  between, and only pin folders and add files. For the walk of Move it says that
  if the target is below the node, so is the place the walk has reached; so a
  walk that ends at a system node has shown that there will be no cycle.
* `FolderInv`: parents, and the folders that uploads name, are of kind folder, so
  what an upload adds is never put below a file.
* `HiddenInv`: whatever is in a trashed folder is trashed, but for files of an
  upload, whose row pins the folder. This is stronger than `TrashClosed`, and is
  what makes a purge safe: the folder of an active file is pinned, so a DELETE
  that succeeds took trashed nodes only (`NextDeletes`).

`RootedOneAtATime`, `TrashStaysClosed` and `OnlyTrashedIsPurged` follow.
`TrashCanBeUndone` holds of every table that is rooted and typed
(`RestoreAfterTrash`), so it needs `OneHandler` or `Mover = {}`, whichever gives
`Rooted`.

**PagingProofs.** `ListingIsComplete` and `ListingHasNoDuplicates` hold for any number of
nodes and any page size. `PagingInv` says on which side of the cursor a node that
stayed is: given nodes are behind it, the others ahead, but for folders of a folder
that a cursor at a file leaves ahead, and files in `passed`, which a cursor at a
folder leaves behind.
Positions are numbers of rows before, so the argument needs that they follow the
order of the query (`PositionsGrow`) and leave none out (`NoGaps`); then the row
at the position of the page's size divides the page from the rest (`PageEnd`).
That the listed nodes are finite is part of `Init`.

**SharesProofs.** `ShareInvariant` strengthens `TargetLostWithShare` by: no row, in the
database or a backup, is of a later epoch than the server's; a pending creation's
id is nobody else's; the foreign key holds in the database and in each backup;
and a visitor's copy names the target its row still has. So a lookup that found no
row came after a purge, which took the share along. `SharesEndForGood`
follows: only `Insert`, with a new id, and `Recover` add rows, and what
`Recover` brings back is of an epoch that is over.

**BrowseProofs.** `BrowseInvariant` strengthens `SlotsExact` by: a download has a kind
that has a channel and names a file, and files in the table have their object
(so `EmptyOnlyIfPurged`). The count is by cardinalities of the sets of
running downloads.

`VisitorsSeeWhatWasShown` needs `ShownInv` besides: between its two reads, a request
that has seen no showing works with a node that is not below the shared folder
and, if that node is trashed, everything above it is trashed (`Away`). Being
moved, restored or put under another folder either shows the node or keeps it
away: the lemmas `TrashAway`, `RestoreAway`, `MoveAway`, `PutAway` and `PurgeAway`, one
per statement, compare subtrees before and after. `Sound` adds what they need of
the table: the system rows stay, files are leaves, parents are rows. For the nodes
listed, `ListedInShare` says that active children of a node in the share are in it.

**AuthProofs.** `AuthInvariant` strengthens the safety properties by: a fetch holds
the lock; a reply on its way differs from the published keys by no more than the
cache does; and a key that was served since a request came is in the request's
reply, and in every reply that will replace the cache before it looks again.

**ConnPoolProofs.** `PoolInvariant` says who holds connections: one per request,
but for the row lookup of a listing. `PoolStallsOnlyInListings`: if all requests
under way wait, then the holder of the mutex waits for a connection, so all
connections are held, and a holder that waits is a listing with one connection.
`FewListingsNeverStall`: a stall maps connections to listings one to one, so there
are as many listings; nothing in the code keeps their number below that.

Only model-checked: the liveness properties, `FinalizingResolves`, `LapsedReleased`,
`EveryListingEnds`, `SlotsFreed`, `EveryAnswered`, `LearnsKey` and `EveryServed`: this
version of TLAPS knows neither fairness nor `ENABLED`. Every invariant and every
action property of a passing run is a theorem, `Rooted` in two: without moves for any
number of handlers, with moves for one request at a time. `TrashClosed` and
`OnlyTrashedPurged` are theorems for one request at a time, as they are checked.

## 7. Findings

1. `uploads_no_file`: a folder or a second upload takes the name while an upload
   is finalized. The handler's transaction fails and the upload stays finalizing;
   the reconciler drops the same error and marks it complete. No file exists.
2. `uploads_corrupt`: bytes are appended before `received_bytes` is updated.
   After a crash, disconnect or failed UPDATE in between, the client resumes
   at the old offset and the bytes land twice. The longer file is published:
   finalizeUpload does not compare its length with `expected_size`.
   `CorruptionShowsInLength` says that this comparison would be enough.
3. `tree_cycle`: two moves check before either writes, and make a cycle that is
   below neither system node.

Further disagreements, which the properties above name as their exceptions:

* Stale reservations (`LapsedReleased`): the last PATCH marks the upload `verifying`
  and is cut off (crash, disconnect, failing call) before `finalizing` is recorded.
  Reconcile looks at `created`, `receiving` and `finalizing` only, so the reservation
  of the abandoned upload stays until a DELETE. The plan has a job that releases
  it (section 18: "Stale reservation cleanup").
* Leaks from the trash (`TrashClosed`, `HiddenInv`): an upload is admitted to a folder,
  the folder is trashed, and Phase C inserts an active file below it. The search
  looks at `trashed_at` of the row only, which plan 8.3 warns of, and finds the file.
  (A CreateFolder whose check came before the trash does the same.)
* Skipped files (`NothingMissed`): folders come first in a folder's listing and the
  cursor does not know of kinds, so a page that ends with a folder skips files. Plan
  14.3 wants the cursor to hold the sort key.
* Searches of a share (`ServesWhatWasShown`): the listing of a shared folder passes the
  visitor's search text to a query that looks through the whole tree;
  `api/openapi.yaml` says "List nodes within shared folder".

## 8. What the models leave out

Abstractions: content is a length and a flag; timestamps become the Boolean
`trashed` and the set `late`; checksums, MIME types, wording and headers are
dropped; storage keys are identified with the upload that drew them; a
process death loses no data already written (no power loss, no `fsync`). The
reconciler's transaction fails as a whole, or has both INSERTs rejected, or
succeeds; one INSERT, or the UPDATE, failing alone is not modelled. `FileTree` has no failing
statements: a request that ends before its write changes nothing, like one that never came. A request
that waits too long for SQLite's write lock fails without effect (`errors` in
`Uploads`).

Shares and cookies are unforgeable in `Shares`: hashes, signatures and tokens are
identities. `Browse` gives all rows that a listing or search looks for, whatever the
text and the size of the page. The backup in `Shares` is a consistent copy, as
`sqlite3 .backup` makes it; the `cp` of a live file that `backup.sh` falls back to is
not. Its recovery follows `deploy/restore.md`, which starts the container anew; the
`docker compose restart` that `restore.sh` prints would not read the new
`GLOBAL_SHARE_EPOCH` from `.env`. `Auth` takes the check of signature and
claims as one choice. `Paging` fixes the parent and the search text of a listing.

Observed while reading or while building the models, and not claimed by any run:

* When `GetNode` fails inside `scanShare` (a busy database, a cancelled request), two
  handlers of `/s/{token}` panic although the share and its target are there.
* The free-space check does not count reservations that are not on disk yet, so
  two uploads can together use up the reserve.
* A trashed folder that an upload was ever created in, or that is older than its
  content, cannot be purged: the rows of uploads stay, and the single DELETE goes
  in the order of rowids.
* An upload terminated while `finalizing` leaves its object without a row that
  could release it; a crash between creating a staging file and its INSERT, or
  between a purge and its unlink, leaves a file.
* Trashing a trashed node sets its `restore_parent_id` to `TRASH_ROOT`, so a
  restore makes it active there; moving a trashed node leaves it below an active
  folder, in no listing; a 0-byte upload needs a PATCH to finish.
* A page of a folder that ends with a file gives folders again.
* As many concurrent listings of shares as there are connections can each wait
  for a second one, until a client leaves.
* Handlers that wait for the upload mutex or the verifier's lock cannot be
  cancelled. `rows.Err` is not asked after the loops over rows.

Not modelled, and why: the hard links of `backup.sh` and power loss (next in the
plan); ToggleBackupSelection and ListTrash, one statement each; migrations, which
run before anything else; graceful shutdown, which ends requests like any other
end; the content of the audit trail, which nothing reads; configuration, logging,
the web client and deployment, which keep no state that the server's data
depends on.
