---------------------------- MODULE FrameChannel ----------------------------
(***************************************************************************)
(* What either direction of the driver promises of the frames it carries:  *)
(* frames enter in order, each is handed over at most once, in the order   *)
(* of entry, and none is invented.  A frame may be lost on the way.        *)
(* Frames are named by their position in the order of entry.               *)
(***************************************************************************)
EXTENDS Integers

VARIABLES
  sent,      \* frames that have entered
  inFlight,  \* those neither handed over nor lost yet
  out        \* the frame handed over last, -1 before the first

chVars == <<sent, inFlight, out>>

ChInit == sent = 0 /\ inFlight = {} /\ out = -1

Enter ==
  /\ sent' = sent + 1
  /\ inFlight' = inFlight \cup {sent}
  /\ UNCHANGED out

Lose ==
  /\ \E f \in inFlight : inFlight' = inFlight \ {f}
  /\ UNCHANGED <<sent, out>>

HandOver ==
  /\ \E f \in inFlight :
       /\ \A g \in inFlight : f <= g
       /\ out' = f
       /\ inFlight' = inFlight \ {f}
  /\ UNCHANGED sent

ChNext == Enter \/ Lose \/ HandOver

ChSpec == ChInit /\ [][ChNext]_chVars

\* The same without loss.
LosslessSpec == ChInit /\ [][Enter \/ HandOver]_chVars
=============================================================================
