SPECIFICATION FairDebugSpec
CONSTANTS
  XLEN <- MCXLEN
  WordSize <- MCWordSize
  BitsOf <- MCBitsOf
  WordOf <- MCWordOf
  VpnSize = 4
  Encode <- MCEncode
  Decode <- MCDecode
  Image <- MCImage
  Code <- MCCode
  Reg = {0, 1}
  RamAddr = {0, 16, 20}
  ClintAddr = {}
  MSIP = 36
  HaltAddr = 40
  DebugAddr = {65520}
  Volatile = {}
  Lines = {{}, {7}}
  kResetVector = 4
  kBreakInst = 9
  BreakAddr = {0, 16}
  Typed <- MCTyped
  MaxPoints = 2
  MaxRecords = 2
  MaxStep = 2
INVARIANTS DebugTypeOK BreaksInPlace BreakStops WatchStops StepStops SignalStops
PROPERTIES ImplementsHart SignalServed
