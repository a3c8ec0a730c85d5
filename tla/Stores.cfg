CONSTANTS
  LogWriters = {w1, w2}
  LogReaders = {r1}
  LogLast = 2
  LogTime <- MCLogTime
  LogBytes <- MCLogBytes
  LogQueueSize = 2
  LogQueueBytes = 2
  LogBatch = 1
  LogBatches = 1
  LogRecentMax = 1
  LogRowBatch = 1
  LogLimit = 1
  StRequests = {q1, q2}
  StSavers = {s1}
  StKeys = {1}
  StMax = 2
  StDays = 2
  LdReaders = {a1}
  LdLast = 4
  LdStarts = 2
  RsActors = {t1, t2}
  RsKeys = {k1, k2}
  RsSizes = {1, 2}
  RsMaxEntries = 1
  RsMaxSize = 2
  RsLast = 4
  CtModels = {m1, m2}
  CtChannels = {"off", "passthrough", "transform", "chat"}
  CtVias = {"ws", "http"}
  CtRounds = 3
  CtTries = 2
  CtForks = FALSE
SPECIFICATION StoresSpec
INVARIANTS  LogReadsSound StSaved LdShownOnce RsSound CtReplaySound 
PROPERTY LogImplementsLife
CHECK_DEADLOCK FALSE
