\* Modulus is no multiple of TimerStep, so LocalTime wraps at ever other phases;
\* MinDown is the least value that covers Period + 2 * MaxLag * TimerStep.
\* A start that failed leaves nothing to run: deadlock is not an error.
SPECIFICATION StartFairSpec
CONSTANTS
  Modulus = 32
  TimerStep = 3
  Period = 5
  Modes = {m10, m100}
  ZeroMode = m10
  MaxLag = 2
  MinDown = 6
  MaxFlaps = 2
  MaxSmiTimeouts = 1
  UseDhcp = TRUE
  MacTries = 3
  PhyTries = 2
INVARIANTS StartInv ModeAgrees
PROPERTIES StartEnds Supervised
CHECK_DEADLOCK FALSE
