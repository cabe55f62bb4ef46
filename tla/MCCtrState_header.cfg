CONSTANTS
  Addr <- OneAddr
  Dir <- OneDir
  CtrMod = 6
  InitialCtr <- MCInitialCtr
  MsgLen <- OneLength
  InCtr <- OneCounter
  Radix = 2
  Faults <- OpenFails
SPECIFICATION SlotsSpec
INVARIANTS
  HeaderPromise
