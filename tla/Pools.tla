-------------------------------- MODULE Pools --------------------------------
(***************************************************************************)
(* What the holders of a memory pool's elements have of it together.  The  *)
(* elements of holder i are named <<i, 1>>, <<i, 2>> ..., so that the sum   *)
(* over the holders is the size of a set.                                  *)
(***************************************************************************)
EXTENDS Integers, FiniteSets

\* The elements the holders S have, w[i] of them holder i.
Elements(S, w) == UNION {{i} \X (1 .. w[i]) : i \in S}

Held(S, w) == Cardinality(Elements(S, w))
=============================================================================
