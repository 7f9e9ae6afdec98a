CONSTANTS
  Word = 1073741824
  Byte = 2
  Short = 4
  Executables <- MCExecutables
  PEImportTables <- MCPEImportTables
SPECIFICATION Spec
INVARIANTS
  OptHeadersTypeOK
  TableHashesVerify
  SizeIsWhatIsWritten
  EveryImportListed
  NamesFound
  VersionsAsNamed
  EntriesAscend
