\* Symmetry is not used: it is unsound for liveness.
SPECIFICATION TxFairSpec
CONSTANTS
  N = 3
  Senders = {s1, s2}
  RxEvents = {"R"}
  SummaryHeld = FALSE
  MaxFrames = 4
INVARIANTS TxRingShape BufferExclusive
PROPERTIES SendsInOrder SenderReturns CommittedIsSent
