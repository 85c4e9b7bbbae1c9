\* As many listings as connections: they can stall, and nothing else can.
SPECIFICATION FairSpec
INVARIANTS
  OnlyListingsStall
PROPERTIES
  EveryServed
CONSTANTS
  Conn = {c1, c2}
  Request = {l1, l2, u1, u2, r1}
  Lister = {l1, l2}
  Uploader = {u1, u2}
  Free = Free
  MaxStatements = 2
