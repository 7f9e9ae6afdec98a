CONSTANTS
  Word = 1073741824
  PageCounts = {1, 2, 3}
  ImportLibraries <- MCImportLibraries
  Cases <- MCUnreliable
SPECIFICATION Spec
INVARIANT SuccessMeansComplete
