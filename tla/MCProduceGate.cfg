SPECIFICATION Spec
CONSTANTS
  Key <- MCKey
  DirKey <- MCDirKey
  Child <- MCChild
  OwnerOf <- MCOwnerOf
  Configuration <- GateConfigurations
  MaxFaults = 0
INVARIANT SentIsCopied
