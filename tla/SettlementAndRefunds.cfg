SPECIFICATION JointSpec
CHECK_DEADLOCK FALSE
CONSTANTS
  e1 = e1
  x1 = x1
  r1 = r1
  r2 = r2
  Events = {e1}
  Payments = {x1}
  Paid = x1
  Handlers = {h1}
  Workers = {w1}
  Admins = {a1}
  NoEvent = NoEvent
  Kind <- MCKind
  PaymentOf <- MCPaymentOf
  MaxAttempts = 2
  MaxStalls = 1
  MaxDeliveries = 1
  MaxFaults = 1
  MaxCrashes = 1
  MaxReprocesses = 1
  Requests = {r2}
  Amount = 2
  Asked <- MCAsked
  ClientKey <- MCClientKey
  NoKey = NoKey
  ReasonOf <- MCReasonOf
  MaxRetries = 1
  MaxFailures = 0
INVARIANT UncoveredDebitsShow
PROPERTY RefundsAreNotUndone
