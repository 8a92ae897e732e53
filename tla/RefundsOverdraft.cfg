\* A partial refund beside one of the whole payment; nothing fails.
CONSTANTS
  r1 = r1
  r2 = r2
  r3 = r3
  k2 = k2
  Requests = {r1, r3}
  Amount = 3
  Asked <- MCAsked
  ClientKey <- MCClientKey
  NoKey = NoKey
  ReasonOf <- MCReasonOf
  MaxRetries = 3
  MaxFailures = 0
SPECIFICATION Spec
INVARIANT RefundsWithinPayment
\* When every request has been answered the system rightly stops.
CHECK_DEADLOCK FALSE
