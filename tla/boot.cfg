SPECIFICATION BootSpec
CONSTANTS
  XLEN = 6
  WordSize = 64
  BitsOf <- MCBitsOf
  WordOf <- MCWordOf
  Argv <- MCArgv
  Text <- MCText
  Number <- MCNumber
  Unit <- MCUnit
  FileLength <- MCFileLength
  Kilo = 4
  DefaultMem = "small"
  DeviceSize <- MCDeviceSize
  kMMIOAddr <- MCMMIOAddr
  NaN = NaN
INVARIANTS BootTypeOK OneOwner DevicesAnswer WordsInRam StartsAsAsked
