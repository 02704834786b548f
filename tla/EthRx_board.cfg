\* The proportions of lwipopts.h: the pbuf pool is the smallest resource.
SPECIFICATION RxSpec
CONSTANTS
  N = 2
  Sizes = {1}
  BadKinds = {"err"}
  PoolSize = 1
  MsgPoolSize = 2
  MboxSize = 2
  AutoResume = TRUE
  TxTraffic = TRUE
  SummaryHeld = TRUE
  MaxFrames = 5
INVARIANTS InputNeverRefused NoLostWakeup
