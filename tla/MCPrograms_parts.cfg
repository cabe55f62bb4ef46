CONSTANTS
  Width = 3
  TableSize = 3
  MaxReadBits = 6
  MaxWriteBits = 5
  MaxReadRegs = 3
  MaxWriteRegs = 2
  HoldingSeed = 16
  InputSeed = 32
  MaxPdu = 10
  Requests <- MCRequests
SPECIFICATION ProgramsSpec
INVARIANTS
  TypeOK
  ReplyFits
  BuiltIsDone
  SelfTestPasses
  AnswersKept
PROPERTIES
  DeviceKept
  FirstFileWins
  RoundTrip
