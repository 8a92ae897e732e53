\* Three requests with one key, one of which fails; nothing else goes wrong.
CONSTANTS
  r1 = r1
  r2 = r2
  r3 = r3
  k1 = k1
  Requests = {r1, r2, r3}
  Keys = {k1}
  NoRequest = NoRequest
  NoHash = NoHash
  KeyOf <- MCKeyOf
  BodyOf <- MCBodyOf
  MayExpire = FALSE
  MaxFaults = 1
  MaxLost = 0
  MaxCrashes = 0
SPECIFICATION Spec
SYMMETRY RequestSymmetry
INVARIANT OnePaymentPerKey
CHECK_DEADLOCK FALSE
