CONSTANTS
  CtModels = {m1, m2}
  CtChannels = {"off", "passthrough", "transform", "chat"}
  CtVias = {"ws", "http"}
  CtRounds = 3
  CtTries = 2
  CtForks = FALSE
SPECIFICATION CtSpec
INVARIANT CtSelfContained
CHECK_DEADLOCK FALSE
