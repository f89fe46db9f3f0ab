SPECIFICATION FairSpec
CONSTANTS
  p = p
  g = g
  h = h
  a = a
  b = b
  Messages = {p, g}
  Mine = {p, g}
  Private = {p}
  Tabs = {a}
  PageSize = 1
  CacheLimit = 1
  EvictLimit = 1
  MaxEvents = 3
  StaleJobs = FALSE
CHECK_DEADLOCK FALSE
INVARIANTS NoSkip CaughtUp
PROPERTIES SyncEnds
