\* Pointer validation and the PointerInfo drain of one parser invocation
CONSTANTS
  Msg <- MsgCore
  MsgSizeof <- MsgCoreSizeof
  Wires <- WiresCore
  UIntMod <- MCUIntMod
  Decoders = {d1}
  Minors = {0}
  NULL = NULL
  Uninit = Uninit
  d1 = d1
SPECIFICATION Spec
INVARIANT TypeOK ArenaBound NoOutOfBoundsRead NocopyWithinMessage
