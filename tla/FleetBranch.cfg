\* One job beside a malformed one, two attempts, no fault of the runner.
CONSTANTS
  j1 = j1
  j2 = j2
  j3 = j3
  p1 = p1
  Jobs = {j1, j3}
  Providers = {p1}
  ProviderOf <- MCProviderOf
  Rank <- MCRank
  Malformed = {j3}
  MaxAttempts = 2
  MaxConcurrency = 1
  ResumePaused = TRUE
  MaxEnqueues = 1
  MaxFaults = 0
SPECIFICATION Spec
INVARIANTS OnAssignedBranch
