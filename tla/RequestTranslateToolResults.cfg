CONSTANTS
  RtClients = {"messages", "responses", "chat"}
  RtProviders = {"anthropic"}
  RtItems = 4
  MaxCacheBreakpoints = 3
SPECIFICATION RtSpec
INVARIANT MergingKeepsResults
CHECK_DEADLOCK FALSE
