CONSTANTS
  Configurations <- MCConfigurations
  MaxDrams = 2
  MaxCalls = 3
  AddressSpace = 16
  ByteSize = 3
  Bases = {7, 8}
  Binaries <- MCBinaries
  MemFiles <- MCMemFiles
  NoFile = NoFile
  Blank = Blank
  NotHex = NotHex
CHECK_DEADLOCK FALSE
SPECIFICATION Spec
INVARIANTS TypeOK Contents LoadedWhole
