CONSTANTS
  MaxTables = 1
  MaxOptions = 2
SPECIFICATION Spec
INVARIANT CalledIndividually
