\* A switch with one case per enum label on a value outside the enum
CONSTANTS
  Msg <- MsgEnum
  MsgSizeof <- MsgEnumSizeof
  Wires <- WiresEnum
  UIntMod <- MCUIntMod
  Decoders = {d1}
  Minors = {0}
  NULL = NULL
  Uninit = Uninit
  d1 = d1
SPECIFICATION Spec
INVARIANT ParseMatchesValidation
