\* Two attempts on one provider and one model.
CONSTANTS
  Channels = {c1}
  Models = {m1}
  Provider = provider
  Requests = {r1, r2}
  MaxStreak = 2
  ProviderCooldown <- MCProviderCooldown
  ModelCooldown <- MCModelCooldown
  SuspectWindow = 1
  MaxExplicitCooldown = 2
  RetryAfters = {0}
SPECIFICATION Spec
INVARIANT HalfOpenSingleFlight
