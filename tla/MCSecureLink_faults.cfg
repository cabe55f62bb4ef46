SPECIFICATION Spec
CONSTANTS
  Slaves <- OneSlave
  AnyAddr <- OneAnyAddr
  Keys <- AllKeys
  Blocks <- OneTwoBlocks
  MaxRequests = 3
  Faults <- AllFaults
INVARIANTS TypeOK StepInv AppliedOnce SuccessIsEarned
PROPERTIES RequestsInOrder LossIsFinal
CHECK_DEADLOCK FALSE
