\* Two workers, two requests, a signal and a crash; Redis is lost once.
CONSTANTS
  Workers = {w1, w2}
  Requests = {q1, q2}
  Signals = {s1}
  Crashes = {k1}
  MaxOutages = 1
SPECIFICATION FairSpec
INVARIANTS TypeOK JobsKeepTheirProcess ShutdownLosesNoJob
PROPERTY ShutdownEnds
\* The process has ended.
CHECK_DEADLOCK FALSE
