\* Two handlers, a shared folder, a folder and a file that go in and out of it.
SPECIFICATION FairSpec
INVARIANTS
  TypeOK
  SlotsExact
  EmptyOnlyIfPurged
PROPERTIES
  ServesWhatWasShown
  SlotsFreed
CONSTANTS
  Folder = {shared, sub}
  File = {file}
  Node = {root, trash, shared, sub, file}
  Root = root
  TrashRoot = trash
  NoNode = NoNode
  Name = {shared, sub, file}
  Target = shared
  Moved = {sub, file}
  Visitor = {v1, v2}
  Slots <- OneEach
  v1 = v1
  v2 = v2
  Offered <- Offers
