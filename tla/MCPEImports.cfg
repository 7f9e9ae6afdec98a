CONSTANTS
  Word = 1073741824
  baseAddr = 1000
  PEs <- MCPEs
SPECIFICATION Spec
INVARIANTS
  ImportsTypeOK
  AddressesRight
  ImportsComplete
PROPERTY
  Terminates
