SPECIFICATION Spec
CONSTANTS
  r1 = r1  r2 = r2  p1 = p1
  Tasks = {r1, r2, p1}
  Fetchers = {r1, r2}
  Posters = {p1}
  Length = 2
  TickRange = 4
  OverflowRange = 2
  MaxPended = 1
  FetchMs <- MCFetchMs
  SleepMs = {3}
  TickMs = 2
INVARIANTS QueueInv NoLostWakeup BlockedForTimeout
PROPERTY ImplementsMailbox
