\* One provider, two models, two attempts in flight; three requests on one counter; three credentials.
CONSTANTS
  Channels = {c1}
  Models = {m1, m2}
  Provider = provider
  Requests = {r1, r2}
  MaxStreak = 2
  ProviderCooldown <- MCProviderCooldown
  ModelCooldown <- MCModelCooldown
  SuspectWindow = 1
  MaxExplicitCooldown = 2
  RetryAfters = {0, 1, 3}
  Goroutines = {g1, g2, g3}
  Counters = {n1, n2, n3}
  Missing = Missing
  Limits = {0, 2}
  ConfigChanges = TRUE
  KeyIDs = {1, 2, 3}
  Revisions = {0, 2}
  Preferences = {0, 2}
  MaxConsecutive = 1
  MaxSelections = 4
SPECIFICATION SharedSpec
INVARIANTS EntryConsistent HalfOpenTrialIsHeld CounterWithinLimit LoadNotOverstated
INVARIANTS LedgerConsistent EqualShare BurstBounded PeekPredicts
PROPERTIES RelapseAdvancesStage RetryAfterIsEarliest NoPermanentSideline
