SPECIFICATION FairSpec
CHECK_DEADLOCK FALSE
CONSTANTS
  e1 = e1
  e2 = e2
  x1 = x1
  w1 = w1
  w2 = w2
  Events = {e1}
  Payments = {x1}
  Handlers = {h1}
  Workers = {w1, w2}
  Admins = {}
  NoEvent = NoEvent
  MaxAttempts = 2
  MaxStalls = 1
  MaxDeliveries = 2
  MaxFaults = 1
  MaxCrashes = 0
  MaxReprocesses = 0
  Kind <- MCAgreeing
  PaymentOf <- MCPaymentOf
PROPERTY NoEventLost
