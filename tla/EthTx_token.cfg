SPECIFICATION TxSpec
CONSTANTS
  N = 2
  Senders = {s1}
  RxEvents = {"R", "RBU"}
  SummaryHeld = TRUE
  MaxFrames = 4
PROPERTY TokenMeansDescriptor
