SPECIFICATION MCSpec
CONSTANTS
  h1 = h1
  h2 = h2
  s1 = s1
  s2 = s2
  d1 = d1
  d2 = d2
  Handlers <- MCHandlers
  Directories <- MCDirectories
  Main = main
  Sessions <- MCSessions
  Cap = 2
  Requests = {"connect", "execute"}
  Nobody = Nobody
  NoDb = NoDb
CHECK_DEADLOCK FALSE
INVARIANT ClosedForGood
INVARIANT LocksExplained
PROPERTY NeverCutOff
PROPERTY Answered
PROPERTY Abandoned
