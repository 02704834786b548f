\* Period does not divide TickRange, so the wrap falls at ever other phases.
SPECIFICATION TimerFairSpec
CONSTANTS
  Tasks = {d, n}
  Daemon = d
  Netconf = n
  TickRange = 11
  OverflowRange = 2
  MaxPended = 2
  Period = 3
  MaxLate = 7
INVARIANTS TimerInv SleepsUntilExpiry
PROPERTIES KeepsTime
