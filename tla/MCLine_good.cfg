SPECIFICATION LineSpec
CONSTANTS
  Platform = "posix"
  Baud = 9600
  TickUs = 10000
  FirstWait = 12
  FrameLen <- Lengths
  MaxLen = 3
  ByteGap = 1
  FrameGap = 9
  MaxBusy = 2
  MaxEintr = 1
  MaxFaults = 1
INVARIANTS
  WholeFrames
  StreamIntact
  NoDescriptorLeaks
PROPERTIES
  ReadEnds
  ExchangeEnds
