\* Two shares of one node, a revocation, a backup and a recovery.
SPECIFICATION Spec
INVARIANTS
  TargetLostWithShare
PROPERTIES
  EndedForGood
CONSTANTS
  Node = {n1}
  Share = {s1, s2}
  Admin = {a1}
  Visitor = {v1}
  MaxVersion = 2
  MaxEpoch = 2
