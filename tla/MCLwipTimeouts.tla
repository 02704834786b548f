----------------------------- MODULE MCLwipTimeouts -----------------------------
(* Two cyclic timers, one with an odd interval. *)
EXTENDS LwipTimeouts

MCInterval == [h \in Timers |-> CASE h = "dhcp_fine" -> 5
                                  [] h = "etharp" -> 8
                                  [] h = Tcp -> 3]
=============================================================================
