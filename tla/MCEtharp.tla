------------------------------- MODULE MCEtharp -------------------------------
(* Model checking of Etharp. *)
EXTENDS Etharp
===============================================================================
