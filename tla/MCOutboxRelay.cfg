SPECIFICATION Spec
CONSTANTS
  e1 = e1
  e2 = e2
  bad = bad
  t1 = t1
  t2 = t2
  NoEvent = NoEvent
  Event <- MCEvent
  Tx <- MCTx
  TxOf <- MCTxOf
  Poison = {bad}
  BatchSize = 2
  MaxRetries = 3
  MaxBackoff = 2
  MaxFaults = 1
INVARIANTS
  TypeOK
  DeadLetterExact
  CausalOrder
PROPERTIES
  EveryRowSettles
  ImplementsDelivery
CHECK_DEADLOCK FALSE
