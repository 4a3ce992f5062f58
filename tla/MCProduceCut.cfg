SPECIFICATION CutSpec
CONSTANTS
  Key <- MCKey
  DirKey <- MCDirKey
  Child <- MCChild
  OwnerOf <- MCOwnerOf
  Configuration <- CutConfigurations
  MaxFaults = 1
INVARIANT SourceKept
