SPECIFICATION Spec
CHECK_DEADLOCK FALSE
CONSTANTS
  e1 = e1
  e2 = e2
  x1 = x1
  w1 = w1
  w2 = w2
  Events = {e1}
  Payments = {x1}
  Handlers = {h1, h2}
  Workers = {w1, w2}
  Admins = {a1}
  NoEvent = NoEvent
  MaxAttempts = 2
  MaxStalls = 1
  MaxDeliveries = 2
  MaxFaults = 1
  MaxCrashes = 1
  MaxReprocesses = 1
  Kind <- MCAgreeing
  PaymentOf <- MCPaymentOf
SYMMETRY WorkerSymmetry
INVARIANT TypeOK
INVARIANT ProcessedHasEffect
INVARIANT OrderInStep
INVARIANT UnattendedNeedsFailure
PROPERTY ImplementsSettlementOnce
