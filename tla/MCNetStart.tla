----------------------------- MODULE MCNetStart -----------------------------
(* Model checking of NetStart and, under it, LinkRmii. *)
EXTENDS NetStart
=============================================================================
