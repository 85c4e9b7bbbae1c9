\* Two uploads, a crash and an error; the tree changes only by trash, restore and purge.
SPECIFICATION Spec
INVARIANTS
  TypeOK
  Recoverable
  FilesHaveObjects
  SingleLogicalFile
  CorruptionShowsInLength
  QuotaRespected
PROPERTIES
  EndedStaysEnded
  ImplementsContract
SYMMETRY Symmetric
CONSTANTS
  file1 = file1
  file2 = file2
  Node = {root, trash, file1, file2}
  Root = root
  TrashRoot = trash
  NoNode = NoNode
  NewFolder = {}
  Name = {a}
  Client = {c1, c2}
  Reconciler = reconciler
  Free = free
  Upload = {u1, u2}
  NoUpload = NoUpload
  UploadSize = {1, 2}
  MaxFileBytes = 2
  MaxStorageBytes = 3
  MinFreeBytes = 0
  DiskBytes = 100
  MaxChunk = 2
  MaxLength = 4
  MaxCrashes = 1
  MaxErrors = 1
