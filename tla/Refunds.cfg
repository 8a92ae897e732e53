\* Three requests; refund numbers may collide and one call may fail.
CONSTANTS
  r1 = r1
  r2 = r2
  r3 = r3
  k2 = k2
  Requests = {r1, r2, r3}
  Amount = 3
  Asked <- MCAsked
  ClientKey <- MCClientKey
  NoKey = NoKey
  ReasonOf <- MCReasonOf
  MaxRetries = 2
  MaxFailures = 1
SPECIFICATION Spec
INVARIANTS TypeOK RefundedIsEarned RowsMatchStripe UnrecordedIsPaidFor BooksAgree DebitsWithinPayment
\* When every request has been answered the system rightly stops.
CHECK_DEADLOCK FALSE
