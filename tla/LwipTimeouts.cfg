SPECIFICATION TimeoutsSpec
CONSTANTS
  Cyclic = {"dhcp_fine", "etharp"}
  Interval <- MCInterval
  ClockRange = 50
  TickMs = 2
  MaxBusy = 2
INVARIANTS ListInv CyclicOnTime
PROPERTY CyclicSpacing
