\* One request over four providers; one account with two groups, two models, two routes.
CONSTANTS
  p1 = p1
  p2 = p2
  p3 = p3
  p4 = p4
  None = None
  Providers <- MCProviders
  Candidates <- MCCandidates
  Keys = {k1, k2}
  MaxProviders = 3
  MaxWires = 4
  MaxUnknownReplays = 1
  MaxCredentials = 1
  MaxRetries = 2
  m1 = m1
  m2 = m2
  SiProcs = {1, 2}
  SiTask = 0
  SiGroups = {1, 2}
  SiDefault = 1
  SiModels = {m1, m2}
  SiRoutes = {"chat", "claude"}
  SiRouteOf <- RouteOf
  SiAnswers <- Answers
  SiChannels = {1, 2, 3, 4}
  SiEdited = {1}
  SiStarts <- MCStarts
  SiRecovered = 1
  SiNone = SiNone
SPECIFICATION RequestSpec
INVARIANTS
  HeldWhileInside
  WithinBudget
  UnknownReplayBounded
  EnvelopeAfterPayloadOnlyOnReset
  SettledOnce
  ProjectionFaithful
PROPERTIES NoWireAfterGivingUp EveryRequestTerminates  RetireSparesOne
CHECK_DEADLOCK FALSE
