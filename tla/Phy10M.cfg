SPECIFICATION PhyFairSpec
CONSTANTS
  Period = 1
  MaxPeriod = 1
  ResetWait = 2
  NegoWait = 1
  MaxLag = 1
  MinDown = 2
  PLimit = 1
  NLimit = 2
  AutoLimit = 3
  SucLimit = 1
  TRLimit = 3
  CntModulus = 5
  Rev2 = TRUE
  MaxEvents = 2
INVARIANTS SearchInv OffNotForgotten SearchRuns
PROPERTIES StaysOff PhyComesBack
