\* No crash and no error: a folder takes the name during the upload.
SPECIFICATION Spec
PROPERTIES
  CompleteHasFile
CONSTANTS
  file1 = file1
  file2 = file2
  Node = {root, trash, folder, file1, file2}
  Root = root
  TrashRoot = trash
  NoNode = NoNode
  NewFolder = {folder}
  Name = {a}
  Client = {c1, c2}
  Reconciler = reconciler
  Free = free
  Upload = {u1, u2}
  NoUpload = NoUpload
  UploadSize = {2}
  MaxFileBytes = 2
  MaxStorageBytes = 4
  MinFreeBytes = 0
  DiskBytes = 100
  MaxChunk = 2
  MaxLength = 2
  MaxCrashes = 0
  MaxErrors = 0
