SPECIFICATION PhyFairSpec
CONSTANTS
  Period = 1
  MaxPeriod = 1
  ResetWait = 2
  NegoWait = 1
  MaxLag = 1
  MinDown = 2
  PLimit = 1
  NLimit = 1
  AutoLimit = 1
  SucLimit = 1
  TRLimit = 2
  CntModulus = 4
  Rev2 = FALSE
  MaxEvents = 1
PROPERTIES DropIsReported
