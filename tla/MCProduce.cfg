SPECIFICATION FairSpec
CONSTANTS
  Key <- MCKey
  DirKey <- MCDirKey
  Child <- MCChild
  OwnerOf <- MCOwnerOf
  Configuration <- PassConfigurations
  MaxFaults = 1
INVARIANTS TypeOK SourceKept MergeRight LimitKept NoneLost NoSendOnClosed
PROPERTY ProducersReturn
