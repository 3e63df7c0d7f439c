SPECIFICATION Spec
CONSTANTS
  XLEN <- MCXLEN
  WordSize <- MCWordSize
  BitsOf <- MCBitsOf
  WordOf <- MCWordOf
  VpnSize = 4
  Encode <- MCEncode
  Decode <- MCDecode
  Image <- TableImage
  DebugAddr = {}
  Code <- MemCode
  Reg = {0, 1, 2}
  RamAddr = {8192, 8196, 8200, 8204, 12288, 12292, 12296, 12300}
  ClintAddr = {}
  MSIP = 28
  HaltAddr = 32
  Volatile = {}
  Lines = {{}}
  kResetVector = 64
PROPERTIES ExceptionIsPrecise FaultAddress StoresAreChecked FaultsAsSv32
