\* Three requests with one key; two calls may fail, one answer or record update
\* may be lost, one process may die and the key may expire.
CONSTANTS
  r1 = r1
  r2 = r2
  r3 = r3
  k1 = k1
  Requests = {r1, r2, r3}
  Keys = {k1}
  NoRequest = NoRequest
  NoHash = NoHash
  KeyOf <- MCKeyOf
  BodyOf <- MCBodyOf
  MayExpire = TRUE
  MaxFaults = 2
  MaxLost = 1
  MaxCrashes = 1
SPECIFICATION FairSpec
INVARIANTS TypeOK OncePerKey ReplayMatchesFields ConfirmedPaymentExists DivergenceIsPaidFor
PROPERTIES KeySettles ImplementsConfirmedPayments
\* Every request may have been answered, and no client has to send another.
CHECK_DEADLOCK FALSE
