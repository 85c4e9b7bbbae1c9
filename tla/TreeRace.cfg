\* Two handlers at once, none of them a move.
SPECIFICATION Spec
INVARIANTS
  Rooted
  SystemIntact
SYMMETRY Symmetric
CONSTANTS
  NewFolder = {n1, n2}
  Node = {root, trash, n1, n2, file}
  Root = root
  TrashRoot = trash
  NoNode = NoNode
  Name = {a, b}
  Client = {c1, c2}
  Mover = {}
