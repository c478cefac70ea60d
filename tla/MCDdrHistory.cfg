CONSTANTS
  MemSize = 4
  Byte = {0, 1, 2}
  DRAMburst = 1
  MaxActiveTransactions = 2
  GRANULARITY = 2
  Requests = {r1, r2, r3}
  Commands <- MCCommands
  Preloads <- MCPreloads
SPECIFICATION HSpec
PROPERTY ImplementsAtomicDram
SYMMETRY MCSymmetry
