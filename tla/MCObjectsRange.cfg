SPECIFICATION Spec
CONSTANTS
  Keys = 5
  Page = 2
  Retries = 1
  Masters = 2
  Stats = 2
  ListCalls <- MCListCalls
  ListFaults = 2
  ListChanges = 1
  Names = 6
  ParentOf <- MCParentOf
  Directory <- MCDirectory
  Concurrent = 2
  Ahead = 1
  WalkCalls <- MCWalkCalls
  WalkFaults = 1
  WalkChanges = 1
  Attempts = 3
  RequestCalls <- MCRequestCalls
  RequestFaults = 3
  RequestCrashes = 1
  PlainChunk = 2
  Overhead = 1
  ReadCalls <- MCReadCalls
  ReadFaults = 1
  ReadChanges = 1
  MinPart = 2
  MaxPart = 4
  MaxCount = 3
  FewerCount = 2
  Align = 2
  BigPart = 3
  PartAttempts = 2
  PartCalls <- MCPartCalls
  PartFaults = 3
  PartCrashes = 1
INVARIANTS WalkedRange
CHECK_DEADLOCK FALSE
