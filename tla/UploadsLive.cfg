\* One upload under the fairness of the scheduler, with a crash and an error.
SPECIFICATION FairSpec
PROPERTIES
  OnlyNamesCostFiles
  FinalizingResolves
  LapsedReleased
CONSTANTS
  file1 = file1
  file2 = file2
  Node = {root, trash, folder, file1, file2}
  Root = root
  TrashRoot = trash
  NoNode = NoNode
  NewFolder = {folder}
  Name = {a}
  Client = {c1}
  Reconciler = reconciler
  Free = free
  Upload = {u1}
  NoUpload = NoUpload
  UploadSize = {0, 2}
  MaxFileBytes = 2
  MaxStorageBytes = 2
  MinFreeBytes = 0
  DiskBytes = 100
  MaxChunk = 2
  MaxLength = 3
  MaxCrashes = 1
  MaxErrors = 1
