SPECIFICATION RunSpec
CONSTANTS
  Width = 8
  TableSize = 128
  MaxReadBits = 2000
  MaxWriteBits = 1968
  MaxReadRegs = 125
  MaxWriteRegs = 123
  HoldingSeed = 4096
  InputSeed = 8192
  MaxPdu = 253
  Requests = {}
  Counts = {0, 3}
  Ports = {TRUE, FALSE}
  MaxRuns = 2
INVARIANTS
  ExitMeansWritten
  
CHECK_DEADLOCK FALSE
