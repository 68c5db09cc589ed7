\* @minor members and switches: both phases agree on sizes and cases
CONSTANTS
  Msg <- MsgVer
  MsgSizeof <- MsgVerSizeof
  Wires <- WiresVer
  UIntMod <- MCUIntMod
  Decoders = {d1}
  Minors = {1, 2}
  NULL = NULL
  Uninit = Uninit
  d1 = d1
SPECIFICATION Spec
INVARIANT  ParseMatchesValidation SwitchAgreement OutputDefined
