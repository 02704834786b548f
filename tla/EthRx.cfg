\* Pool, message pool and mailbox all run out; frames of one and of two pbufs,
\* cut short (a frame with an error does the same but always raises R).
SPECIFICATION RxFairSpec
CONSTANTS
  N = 2
  Sizes = {1, 2}
  BadKinds = {"seg"}
  PoolSize = 2
  MsgPoolSize = 1
  MboxSize = 1
  AutoResume = FALSE
  TxTraffic = FALSE
  SummaryHeld = FALSE
  MaxFrames = 3
INVARIANTS RingShape DmaStaysAway PoolsConserved
PROPERTIES DeliversInOrder DescriptorReturns GoodFrameResumes
