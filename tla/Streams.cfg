CONSTANTS
  MaxAttempts = 3
  SpChunks = 3
  RtClients = {"messages", "responses", "chat"}
  RtProviders = {"anthropic", "gemini", "responses", "chat"}
  RtItems = 4
  MaxCacheBreakpoints = 3
  StUpstreams = {"anthropic", "responses", "gemini", "chat"}
  StClients = {"messages", "responses", "chat"}
  StEvents = 7
  StTools = 2
  TkAdmins = {a1, a2}
  TkIntervals = {0, 1, 2}
  TkExecs = {g1, g2}
  TkChanges = 3
SPECIFICATION StreamsSpec
INVARIANTS   SpOutcomeSound TkSound
INVARIANTS RtFaithful RtRetriesAgree
PROPERTIES OneWriter AllEnd
CHECK_DEADLOCK FALSE
