CONSTANTS
  MemSize = 4
  Byte = {0, 1, 2}
  DRAMburst = 2
  MaxActiveTransactions = 2
  GRANULARITY = 2
  Requests = {r1, r2}
  Commands <- MCCommands
  Preloads <- MCPreloads
SPECIFICATION LiveSpec
INVARIANTS TypeOK NoFatal NeverOvertaken Bookkeeping ByteConservation QueueOwnership
PROPERTY EveryRequestAnswered
