\* One crash, no error.
SPECIFICATION Spec
INVARIANTS
  PublishedIntact
CONSTANTS
  file1 = file1
  file2 = file2
  Node = {root, trash, file1, file2}
  Root = root
  TrashRoot = trash
  NoNode = NoNode
  NewFolder = {}
  Name = {a}
  Client = {c1}
  Reconciler = reconciler
  Free = free
  Upload = {u1}
  NoUpload = NoUpload
  UploadSize = {1}
  MaxFileBytes = 2
  MaxStorageBytes = 1
  MinFreeBytes = 0
  DiskBytes = 100
  MaxChunk = 1
  MaxLength = 2
  MaxCrashes = 1
  MaxErrors = 0
