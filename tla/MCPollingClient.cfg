CONSTANTS
  MemSize = 3
  Byte = {0, 1}
  DRAMburst = 1
  MaxActiveTransactions = 3
  MaxSends = 4
  Transfers <- MCTransfers
CHECK_DEADLOCK FALSE
SPECIFICATION LiveSpec
INVARIANTS TypeOK PollsMatch ReceivedWanted AckPerBurst
PROPERTY EverythingArrives
