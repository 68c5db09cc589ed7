\* A @zero member followed by a plain one, marshalled and parsed back
CONSTANTS
  Msg <- MsgZero
  MsgSizeof <- MsgSizeofSmall
  Values <- ValuesZero
  PadBytes = {0, 170}
  Junk = {0, 9}
  Minors = {0}
  UIntMod <- MCUIntMod
  NULL = NULL
  Uninit = Uninit
  Dec = Dec
SPECIFICATION Spec
INVARIANT RoundTripOK
