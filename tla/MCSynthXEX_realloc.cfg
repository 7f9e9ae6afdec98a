CONSTANTS
  MaxTables = 1
  MaxOptions = 2
SPECIFICATION UncheckedSpec
INVARIANT FailedAllocationNotUsed
