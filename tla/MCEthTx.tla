------------------------------- MODULE MCEthTx -------------------------------
(* Model checking of EthTx; the cfg files give the constants. *)
EXTENDS EthTx
=============================================================================
