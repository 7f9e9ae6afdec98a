CONSTANTS
  Word = 1073741824
  PageCounts = {1, 2, 3, 147, 148, 149, 150, 151, 152, 153}
  ImportLibraries <- MCImportLibraries
  Cases <- MCCases
SPECIFICATION Spec
INVARIANTS
  PlacerTypeOK
  HeadersDisjoint
  BasefileAboveHeaders
  OffsetTablesAgree
  WriterTypeOK
  FreeSeesTableCount
  NothingButTheImage
  BigEndianFile
  EntriesFindHeaders
  HeaderHashValid
PROPERTIES
  ImplementsImage
  Terminates
