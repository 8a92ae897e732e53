\* The job and two requests; one call fails and one process dies.
CONSTANTS
  Job = Job
  Requests = {q1, q2}
  MaxAttempts = 2
  MaxStalls = 1
  MaxRetries = 2
  MaxFailures = 1
  MaxCrashes = 1
SPECIFICATION FairSpec
INVARIANTS TypeOK UrlHasFile OneMailWithPdf NoOrphanFile
PROPERTIES JobSettles TransientFaultsGiveInvoice
\* When the job and every request are over the system rightly stops.
CHECK_DEADLOCK FALSE
