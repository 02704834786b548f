------------------------------- MODULE MCEthRx -------------------------------
(* Model checking of EthRx; the cfg files give the constants. *)
EXTENDS EthRx
=============================================================================
