SPECIFICATION Spec
CONSTANTS
  Slaves <- OneSlave
  AnyAddr <- OneAnyAddr
  Keys <- AllKeys
  Blocks <- OneBlock
  MaxRequests = 2
  Faults <- NoiseOnly
INVARIANT SuccessMeansRoundTrip
CHECK_DEADLOCK FALSE
