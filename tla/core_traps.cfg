SPECIFICATION Spec
CONSTANTS
  XLEN <- MCXLEN
  WordSize <- MCWordSize
  BitsOf <- MCBitsOf
  WordOf <- MCWordOf
  VpnSize = 4
  Encode <- MCEncode
  Decode <- MCDecode
  Image <- NoImage
  DebugAddr = {}
  Code <- TrapCode
  Reg = {0, 1}
  RamAddr = {}
  ClintAddr = {20}
  MSIP = 20
  HaltAddr = 32
  Volatile = {}
  Lines = {{}, {7, 11}}
  kResetVector = 0
INVARIANTS TypeOK PcAligned StatusMirror
PROPERTIES PrivRisesOnlyByTrap TrapRecordsContext PrivilegeProtectsCSRs InterruptWasEnabled InterruptTaken
