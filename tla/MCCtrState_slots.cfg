CONSTANTS
  Addr <- Slots
  Dir <- OneDir
  CtrMod = 6
  InitialCtr <- MCInitialCtr
  MsgLen <- EdgeLengths
  InCtr <- TwoCounters
  Radix = 2
  Faults <- AllFaults
SPECIFICATION SlotsSpec
INVARIANTS
  TypeOK
  NoCounterReuse
  IInv
  FileMatchesTable
PROPERTIES
  AcceptedNeverDecreases
