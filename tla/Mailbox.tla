-------------------------------- MODULE Mailbox --------------------------------
(***************************************************************************)
(* What a bounded mailbox promises its callers: messages come out once, in *)
(* the order they went in, and a fetch that reports an empty mailbox does  *)
(* so at an instant when the mailbox is empty, a refused post at one when  *)
(* it is full.                                                             *)
(***************************************************************************)
EXTENDS Naturals, Sequences

CONSTANTS Callers, Messages, Length, None

VARIABLES
  box,   \* the messages inside, oldest first
  got    \* what each caller's operation gave it

Refused == "refused"
TimedOut == "timed out"

Init ==
  /\ box = << >>
  /\ got = [c \in Callers |-> None]

\* A caller forgets its last result and calls again.
Call(c) ==
  /\ got' = [got EXCEPT ![c] = None]
  /\ UNCHANGED box

Post(m) ==
  /\ Len(box) < Length
  /\ box' = Append(box, m)
  /\ UNCHANGED got

Refuse(c) ==
  /\ Len(box) = Length
  /\ got' = [got EXCEPT ![c] = Refused]
  /\ UNCHANGED box

Fetch(c) ==
  /\ box /= << >>
  /\ got' = [got EXCEPT ![c] = Head(box)]
  /\ box' = Tail(box)

Miss(c) ==
  /\ box = << >>
  /\ got' = [got EXCEPT ![c] = TimedOut]
  /\ UNCHANGED box

Next ==
  \/ \E m \in Messages : Post(m)
  \/ \E c \in Callers : Call(c) \/ Refuse(c) \/ Fetch(c) \/ Miss(c)

Spec == Init /\ [][Next]_<<box, got>>
=============================================================================
