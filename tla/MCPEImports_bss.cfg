CONSTANTS
  Word = 1073741824
  baseAddr = 1000
  PEs <- MCWithBss
SPECIFICATION Spec
INVARIANT AddressesRight
