CONSTANTS
  Decl <- MCDecl
  Proto <- MCProto
  IsServer = TRUE
  IfdefChans <- MCIfdefChans
  ChanRange <- MCChanRange
  TypeRange <- MCTypeRange
  NoId = NoId
  NoBase = NoBase
  NULL = NULL
  Names = {A, B}
  Prim = uint8
  MaxDefs = 3
  EnumLabels = {L1, L2}
  EnumOrdinals = {0, 1, 3}
  MaxEnumLabels = 3
  NoValue = NoValue
SPECIFICATION FrontSpec
INVARIANTS TypeOK TableCompiles MarshallersCompile TRTypeOK AcceptedWellFormed EnumHeaderAgrees
PROPERTY CatalogSpec
