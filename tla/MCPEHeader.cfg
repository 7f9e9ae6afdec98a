CONSTANTS
  Word = 1073741824
  PEs <- MCPEs
SPECIFICATION Spec
INVARIANTS
  PEHeaderTypeOK
  NoFailureTakenForData
  AcceptedCanBeRead
  OneSectionTable
  TranslationsInverse
