-------------------------------- MODULE MCDhcp --------------------------------
(* Model checking of Dhcp: leases of odd minutes, so that rounding shows. *)
EXTENDS Dhcp

Default(secs) == [t0 |-> secs, t1 |-> NotGiven, t2 |-> NotGiven]
MCLeases == {Default(150)}
===============================================================================
