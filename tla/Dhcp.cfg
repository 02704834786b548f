SPECIFICATION FairSpec
CONSTANTS
  Addrs = {"a", "b"}
  InUse = {"a"}
  Leases <- MCLeases
  UseDhcp = TRUE
  RequestTries = 1
  MaxTries = 3
  XidRange = 2
  U32Range = 2000
  MaxTrouble = 3
INVARIANTS ClientInv LeaseHeld NotADeclinedAddress
PROPERTY GetsLease
CHECK_DEADLOCK FALSE
