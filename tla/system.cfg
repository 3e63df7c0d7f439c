SPECIFICATION FairSystemSpec
CONSTANTS
  XLEN <- MCXLEN
  WordSize <- MCWordSize
  BitsOf <- MCBitsOf
  WordOf <- MCWordOf
  VpnSize = 4
  Encode <- MCEncode
  Decode <- MCDecode
  Image <- NoImage
  DebugAddr = {}
  Code <- SystemCode
  Reg = {0, 1, 2, 3, 4, 5, 6}
  RamAddr = {44}
  Counter = 44
  MaxInterrupts = 5
  ClintAddr = {20, 24, 28, 32, 36}
  MTimeLo = 20
  MTimeHi = 24
  MTimeCmpLo = 28
  MTimeCmpHi = 32
  MSIP = 36
  HaltAddr = 40
  Volatile = {20, 24}
  Lines = {{}, {7}}
  kResetVector = 64
INVARIANTS NoTornRead DeadlineKept NoLostUpdate
PROPERTIES MainProgresses
