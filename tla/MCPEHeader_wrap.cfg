CONSTANTS
  Word = 1073741824
  PEs <- MCPEs
SPECIFICATION Spec
INVARIANT RawDataInFile
