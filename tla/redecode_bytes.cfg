\* A @bytes array and its @bytes_count member, decoded twice from the same buffer
CONSTANTS
  Msg <- MsgBytes
  MsgSizeof <- MsgBytesSizeof
  Wires <- WiresBytes
  UIntMod <- MCUIntMod
  Decoders = {d1, d2}
  Minors = {0}
  NULL = NULL
  Uninit = Uninit
  d1 = d1
  d2 = d2
SPECIFICATION Spec
INVARIANT DecodesAgree
