SPECIFICATION FairSpec
CONSTANTS
  Task <- MCTask
  Worker <- MCWorker
  Threads = 3
  Blocks = 2
  Attempts = 2
  Command <- MCCommand
  MaxFaults = 1
  MaxChanges = 1
INVARIANTS TypeOK TokensAccounted CopiedIsRight UploadsKnown
CHECK_DEADLOCK FALSE

PROPERTY TransfersEnd
