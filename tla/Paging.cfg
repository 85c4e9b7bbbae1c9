\* Two folders and two files under three names, page sizes one and two; a finished listing stops.
SPECIFICATION FairSpec
INVARIANTS
  NothingMissed
  NothingRepeated
PROPERTIES
  EveryListingEnds
CONSTANTS
  Node = {1, 2, 3, 4}
  Folder = {1, 3}
  Key = {1, 2, 3}
  Limit = {0, 1}
  MaxLimit = 2
  DefaultLimit = 2
CHECK_DEADLOCK FALSE
