SPECIFICATION Spec
CONSTANTS
  XLEN = 4
  WordSize = 16
  BitsOf <- MCBitsOf
  WordOf <- MCWordOf
  RegName = {"x", "y"}
  ReadWord <- MCReadWord
  Keys = {"x", "y", "(", ")", "+", "-", "*", "%", "<<", "|", "~", "&&"}
  MaxTokens = 5
  Samples <- MCSamples
INVARIANTS DivisionIdentity ProductHalves ShiftsArePowers CasesAsGuest EvaluatesByPrecedence
