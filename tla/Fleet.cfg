\* Two jobs side by side, each submitted twice, with a shutdown or crash and
\* exceptions anywhere.
CONSTANTS
  j1 = j1
  j2 = j2
  j3 = j3
  p1 = p1
  Jobs = {j1, j2}
  Providers = {p1}
  ProviderOf <- MCProviderOf
  Rank <- MCRank
  Malformed = {}
  MaxAttempts = 2
  MaxConcurrency = 2
  ResumePaused = TRUE
  MaxEnqueues = 2
  MaxFaults = 1
SPECIFICATION Spec
INVARIANTS TypeOK AttemptsBounded NothingLost EndedAttemptsAreOver
PROPERTIES OutcomesAreFinal JobsSettle
