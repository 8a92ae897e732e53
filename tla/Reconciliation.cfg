\* One job of two attempts; one call fails and the worker dies once.
CONSTANTS
  Payments = {1, 2, 3}
  GatewayOf <- MCGatewayOf
  Asked = "ALL"
  Limit = 1
  Old = {1, 2}
  MaxMoves = 2
  Admins = {a1}
  MaxAttempts = 2
  MaxStalls = 1
  MaxFaults = 1
  MaxCrashes = 1
SPECIFICATION FairSpec
INVARIANTS TypeOK NothingOverlooked AlarmWasTrue DuplicatesArePaidFor UnauditedIsPaidFor
PROPERTY TransientFaultsReconciled
\* When the job and the administrators are done and no payment moves the system rightly stops.
CHECK_DEADLOCK FALSE
