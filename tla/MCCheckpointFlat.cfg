SPECIFICATION FairSpec
CONSTANTS
  r = r
  a = a
  b = b
  k1 = k1
  k2 = k2
  k3 = k3
  k4 = k4
  w1 = w1
  w2 = w2
  NoKey = NoKey
  Prefix = {r}
  Root = r
  Key = {k1, k2}
  Listing <- PairListing
  Kind <- PairKind
  SrcPrefix = {}
  Worker = {w1, w2}
  DeleteDst = FALSE
  LocalFile = FALSE
  TaskCap = 1
  FirstCheckpoint <- NoFile
  MaxCrashes = 1
  MaxFaults = 1
INVARIANTS NoKeyLost
PROPERTY JobSpec
