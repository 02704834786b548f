------------------------------ MODULE MCRtosQueue ------------------------------
(* Two tasks that fetch, one that posts and sleeps, and the interrupt. *)
EXTENDS RtosQueue

CONSTANTS r1, r2, p1

\* r1 waits for two ticks, r2 for ever; both also poll.
MCFetchMs == [t \in Fetchers |-> IF t = r1 THEN {4} ELSE {0}]
=============================================================================
