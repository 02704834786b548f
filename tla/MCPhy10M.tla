------------------------------ MODULE MCPhy10M ------------------------------
(* Model checking of Phy10M; the cfg files give the constants. *)
EXTENDS Phy10M
=============================================================================
