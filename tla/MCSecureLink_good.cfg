SPECIFICATION GoodSpec
CONSTANTS
  Slaves <- TwoSlaves
  AnyAddr <- OneAnyAddr
  Keys <- NoReplyKey
  Blocks <- OneTwoBlocks
  MaxRequests = 2
  Faults <- NoFaults
INVARIANTS
  SuccessMeansRoundTrip
  CountersInStep
PROPERTIES
  EveryRequestConfirmed
