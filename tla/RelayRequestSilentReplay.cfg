SPECIFICATION Spec
CONSTANTS
  p1 = p1
  p2 = p2
  p3 = p3
  p4 = p4
  None = None
  Providers <- MCProviders
  Candidates <- MCCandidates
  Keys = {k1, k2}
  MaxProviders = 3
  MaxWires = 4
  MaxUnknownReplays = 1
  MaxCredentials = 1
  MaxRetries = 2
INVARIANT SilentReplayBounded
CHECK_DEADLOCK FALSE
