CONSTANTS
  Key = {k1, k2}
  Request = {p1, p2}
  Free = Free
  MaxRotations = 3
  MaxErrors = 1
SPECIFICATION FairSpec
INVARIANTS CacheFaithful FetchFindsKey
PROPERTIES NeverOlder EveryAnswered LearnsKey
