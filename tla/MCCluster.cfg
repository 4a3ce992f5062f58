SPECIFICATION FairSpec
CONSTANTS
  k1 = k1
  k2 = k2
  k3 = k3
  h1 = h1
  h2 = h2
  Key = {k1, k3}
  Dir = {k3}
  Host = {h1, h2}
  Modes = {TRUE, FALSE}
  MaxTrouble = 1
  MaxFaults = 1
INVARIANTS TypeOK OwedUntilDone OneLossIsFailure DelayedReported
CHECK_DEADLOCK FALSE

PROPERTY ClusterEnds
