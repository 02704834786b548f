------------------------------ MODULE MCSoftTimer ------------------------------
(* Model checking of SoftTimer; the cfg file gives the constants. *)
EXTENDS SoftTimer
===============================================================================
