CONSTANTS
  Decl <- MCDecl
  Proto <- GapProto
  IsServer = TRUE
  IfdefChans <- MCIfdefChans
  ChanRange <- MCChanRange
  TypeRange <- MCTypeRange
  NoId = NoId
  NoBase = NoBase
  NULL = NULL
  Names = {A}
  Prim = uint8
  MaxDefs = 1
  EnumLabels = {L1, L2}
  EnumOrdinals = {0, 1, 3}
  MaxEnumLabels = 3
  NoValue = NoValue
SPECIFICATION FrontSpec
INVARIANT TableCompiles
