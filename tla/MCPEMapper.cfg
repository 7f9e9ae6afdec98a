CONSTANTS
  Word = 1073741824
  SmallPage = 4
  LargePage = 8
  Byte = 2
  Numbers = {0, 9}
  PEs <- MCPEs
SPECIFICATION Spec
INVARIANTS
  MapperTypeOK
  SectionsIntact
  IATXenonified
  PositioningBetweenReadsAndWrites
  HashChainVerifies
  PermissionsMatch
