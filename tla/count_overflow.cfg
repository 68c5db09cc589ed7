\* A uint32 count times the element size wraps before the fit check
CONSTANTS
  Msg <- MsgOvf
  MsgSizeof <- MsgOvfSizeof
  Wires <- WiresOvf
  UIntMod <- OvfUIntMod
  Decoders = {d1}
  Minors = {0}
  NULL = NULL
  Uninit = Uninit
  d1 = d1
SPECIFICATION Spec
INVARIANT NoOutOfBoundsRead
