SPECIFICATION Spec
CONSTANTS
  r = r
  a = a
  b = b
  k1 = k1
  k2 = k2
  k3 = k3
  k4 = k4
  w1 = w1
  w2 = w2
  NoKey = NoKey
  Prefix = {r, a}
  Root = r
  Key = {k1, k2, k3}
  Listing <- DelayedListing
  Kind <- DelayedKind
  SrcPrefix = {a}
  Worker = {w1}
  DeleteDst = TRUE
  LocalFile = FALSE
  TaskCap = 1
  FirstCheckpoint <- NoFile
  MaxCrashes = 0
  MaxFaults = 1
INVARIANT NoKeyLost
PROPERTY ExitSnapshotComplete
