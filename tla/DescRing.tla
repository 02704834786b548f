------------------------------ MODULE DescRing ------------------------------
(***************************************************************************)
(* The closed chain of DMA descriptors both directions use, and the shape  *)
(* its ownership must have.  A producer fills descriptors at one position, *)
(* a consumer empties them at another; both follow the chain.              *)
(***************************************************************************)
EXTENDS Integers

CONSTANT N  \* descriptors in the chain: ETH_RXBUFNB or ETH_TXBUFNB

ASSUME NAssumption == N \in Nat /\ N >= 2

Desc == 0 .. N - 1

Mut_NextDesc(i) == i + 1  \* fault: the chain is not closed

\* Buffer2NextDescAddr, as ETH_DMARxDescChainInit and ETH_DMATxDescChainInit
\* link it: the last descriptor leads back to the first.
NextDesc(i) == IF i = N - 1 THEN 0 ELSE i + 1

\* The descriptors from a up to, not including, b along the chain, a # b.
Segment(a, b) ==
  IF a < b THEN {i \in Desc : a <= i /\ i < b}
           ELSE {i \in Desc : a <= i \/ i < b}

\* S is what the producer, now at b, has filled and the consumer, now at a,
\* has not emptied: all between them, and none or all when they coincide.
Shape(S, a, b) ==
  IF a = b THEN S \in {{}, Desc} ELSE S = Segment(a, b)
=============================================================================
