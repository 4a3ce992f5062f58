SPECIFICATION FairJobSpec
CONSTANTS
  Record = {o1, o2}
  Closer = {"main", "maxfail", "signal"}
  ChannelSize = 1
  BatchSize = 2
  Key = {k1}
  Limit = 2
  MaxAdds = 2
  MaxExits = 1
INVARIANTS JobTypeOK OnePlaceEach CloseFlushes OutcomesAgree
PROPERTIES ExitTerminates DbSpec GateRowsAdvance
