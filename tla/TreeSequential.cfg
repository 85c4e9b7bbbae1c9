\* One request at a time, with uploads going on.
SPECIFICATION Spec
INVARIANTS
  TypeOK
  Rooted
  TrashClosed
  RestoreUndoesTrash
PROPERTIES
  OnlyTrashedPurged
SYMMETRY Symmetric
CONSTANTS
  NewFolder = {n1, n2}
  Node = {root, trash, n1, n2, file}
  Root = root
  TrashRoot = trash
  NoNode = NoNode
  Name = {a}
  Client = {c1}
  Mover = {c1}
