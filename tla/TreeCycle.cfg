\* Two moves at once.
SPECIFICATION Spec
INVARIANTS
  Rooted
SYMMETRY Symmetric
CONSTANTS
  NewFolder = {n1, n2}
  Node = {root, trash, n1, n2}
  Root = root
  TrashRoot = trash
  NoNode = NoNode
  Name = {a, b}
  Client = {c1, c2}
  Mover = {c1, c2}
