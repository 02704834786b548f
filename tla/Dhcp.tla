--------------------------------- MODULE Dhcp ---------------------------------
(***************************************************************************)
(* The DHCP client of lwIP on the board's one interface: its states, the   *)
(* transaction id, the retries, the lease timers, the ARP check of the     *)
(* offered address, and its restart by lwip_netif_thread when the link     *)
(* returns.  The server, the network between and a host that already uses  *)
(* an address are external.  Messages are lost, late or repeated, requests *)
(* are refused, allocations fail, rand() returns an id that a message      *)
(* underway carries, the link comes and goes, the application starts and   *)
(* stops the client: MaxTrouble times in all.                              *)
(*                                                                         *)
(* Time passes in half minutes, with no message underway: a message lives  *)
(* shorter than that.  The countdown of request_timeout is a timer that    *)
(* may fire whenever it is armed.                                          *)
(***************************************************************************)
EXTENDS Integers, FiniteSets

CONSTANTS
  Addrs,         \* the server's addresses
  InUse,         \* those that another host uses
  Leases,        \* what an ACK may say: [t0, t1, t2] in seconds or NotGiven
  UseDhcp,       \* LWIP_USE_DHCP
  RequestTries,  \* a REQUEST is repeated up to this many times (5)
  MaxTries,      \* where tries stops (255)
  XidRange,      \* transaction ids, what rand() may return
  U32Range,      \* the range of a u32_t (2^32)
  MaxTrouble     \* bound: faults, link-ups and calls of the application

RebootTries == 2        \* REBOOT_TRIES
CoarseSecs == 60        \* DHCP_COARSE_TIMER_SECS
MaxU16 == 65535
Ended == -CoarseSecs    \* where the count of a lease that ended stops
None == "none"          \* IP4_ADDR_ANY4
NotGiven == -1          \* an option the ACK does not have

ASSUME DhcpAssumption ==
  /\ None \notin Addrs /\ InUse \subseteq Addrs
  /\ {RequestTries, MaxTries, XidRange, U32Range, MaxTrouble} \subseteq Nat
  /\ 0 < RequestTries /\ MaxTries > RequestTries /\ MaxTries > RebootTries
  /\ 0 < XidRange /\ 1 < U32Range /\ UseDhcp \in BOOLEAN
  /\ LET Secs == (0 .. U32Range - 2) \cup {NotGiven}  \* the last value: for ever
     IN  Leases \subseteq [t0 : Secs, t1 : Secs, t2 : Secs]

VARIABLES
  c,        \* struct dhcp, the netif's address, the statics of dhcp.c
  wire,     \* messages underway
  link,     \* NETIF_FLAG_LINK_UP
  starting, \* lwip_netif_thread is between set_link_up and dhcp_start
  half,     \* the coarse period is half over
  due,      \* the coarse timer is due
  left,     \* seconds the server still grants each address
  declined, \* addresses the server knows to be in use
  trouble,  \* how often something happened that need not
  fresh     \* history: no id was taken while a message underway carried it

env == <<wire, left, declined, trouble, fresh>>
clock == <<half, due>>
port == <<link, starting>>
vars == <<c, env, clock, port>>

States == {"OFF", "INIT", "SELECTING", "REQUESTING", "CHECKING", "BACKING_OFF",
           "REBOOTING", "BOUND", "RENEWING", "REBINDING"}
NoLease == [t0 |-> 0, t1 |-> 0, t2 |-> 0]
IP == Addrs \cup {None}
Xid == 0 .. XidRange - 1
Message == [type : {"DISCOVER", "REQUEST", "DECLINE", "RELEASE", "OFFER", "ACK",
                    "NAK", "ARP"},
            xid : Xid, ip : IP, lease : Leases \cup {NoLease}]
Msg(type, xid, ip) == [type |-> type, xid |-> xid, ip |-> ip, lease |-> NoLease]

-----------------------------------------------------------------------------
(* The client's functions: each takes the client and returns it.  p is what *)
(* dhcp_create_msg gets: no pbuf, or one and the id that LWIP_RAND() draws  *)
(* if it is called.  "sent" collects what goes out, "took" the ids taken.   *)

NoPbuf == -1
Pbuf == Xid \cup {NoPbuf}

\* dhcp_set_state
SetState(d, s) ==
  IF s = d.state THEN d
  ELSE [d EXCEPT !.state = s, !.tries = 0, !.timer = FALSE]

\* dhcp_supplied_address
Supplied(d) == d.state \in {"BOUND", "RENEWING", "REBINDING"}

\* The address a message carries: ciaddr or the requested address.
Asks(d, type) ==
  IF type = "DISCOVER" THEN None
  ELSE IF type = "RELEASE" \/ d.state \in {"RENEWING", "REBINDING"} THEN d.addr
  ELSE d.offered

\* dhcp_create_msg: a new transaction draws any id and compares it with none;
\* a repetition has the id drawn last, whether or not that was for this
\* transaction; without a pbuf the transaction keeps its id.
CreateMsg(d, type, p) ==
  LET new  == type # "REQUEST" \/ d.state = "REBOOTING"
      draw == new /\ d.tries = 0
      gx   == IF draw THEN p ELSE d.xid
      mx   == IF new THEN gx ELSE d.myxid
  IN IF p = NoPbuf THEN d
     ELSE [d EXCEPT !.xid = gx, !.myxid = mx,
                    !.took = IF draw THEN @ \cup {gx} ELSE @,
                    !.sent = @ \cup {Msg(type, mx, Asks(d, type))}]

\* Each sender ends so: one try more, request_timeout set.
Tried(d) ==
  [d EXCEPT !.tries = IF @ < MaxTries THEN @ + 1 ELSE @, !.timer = TRUE]

\* dhcp_discover
Discover(d, p) ==
  Tried(CreateMsg(SetState([d EXCEPT !.offered = None], "SELECTING"), "DISCOVER", p))

\* dhcp_select, dhcp_renew, dhcp_rebind and dhcp_reboot differ in the state.
Request(d, s, p) == Tried(CreateMsg(SetState(d, s), "REQUEST", p))

\* dhcp_check: the host that uses the address will answer.
Check(d) ==
  LET e == Tried(SetState(d, "CHECKING"))
  IN IF d.offered \in InUse
       THEN [e EXCEPT !.sent = @ \cup {Msg("ARP", 0, d.offered)}] ELSE e

\* dhcp_decline
Decline(d, p) == Tried(CreateMsg(SetState(d, "BACKING_OFF"), "DECLINE", p))

\* dhcp_handle_nak: the address goes, the lease timers stay.
HandleNak(d, p) ==
  Discover([SetState(d, "BACKING_OFF") EXCEPT !.addr = None], p)

\* dhcp_handle_ack
HandleAck(d, m) ==
  LET t0 == IF m.lease.t0 # NotGiven THEN m.lease.t0 ELSE d.lease.t0
      t1 == IF m.lease.t1 # NotGiven THEN m.lease.t1 ELSE t0 \div 2
      t2 == IF m.lease.t2 # NotGiven THEN m.lease.t2 ELSE ((t0 * 7) % U32Range) \div 8
  IN [d EXCEPT !.lease = [t0 |-> t0, t1 |-> t1, t2 |-> t2], !.offered = m.ip]

\* Seconds in coarse ticks, rounded to the nearest, 1 at least.
CoarseTicks(secs) ==
  LET n == ((secs + CoarseSecs \div 2) % U32Range) \div CoarseSecs
  IN IF n = 0 THEN 1 ELSE IF n > MaxU16 THEN MaxU16 ELSE n

\* dhcp_bind for a lease that ends.
Bind(d) ==
  LET t2 == CoarseTicks(d.lease.t2)
  IN [SetState(d, "BOUND") EXCEPT
        !.used = 0, !.t0 = CoarseTicks(d.lease.t0), !.t1 = CoarseTicks(d.lease.t1),
        !.t2 = t2, !.t2limit = t2, !.addr = d.offered]

\* dhcp_dec_pcb_refcount, where a pcb was allocated.
DropPcb(d) == IF d.pcb THEN [d EXCEPT !.pcb = FALSE, !.refs = @ - 1] ELSE d

\* dhcp_release_and_stop
ReleaseAndStop(d, p) ==
  LET e == [d EXCEPT !.offered = None, !.lease = NoLease, !.t0 = 0, !.t1 = 0,
                     !.t2 = 0, !.used = 0]
      off == SetState(e, "OFF")
  IN CASE d.state = "OFF" -> d
       [] d.state # "OFF" /\ Supplied(d) ->
            DropPcb([CreateMsg(off, "RELEASE", p) EXCEPT !.addr = None])
       [] OTHER -> DropPcb(off)

\* Restarted without its pcb being given back.
Mut_Cleared(d) ==
  [d EXCEPT !.state = "OFF", !.tries = 0, !.timer = FALSE, !.myxid = 0,
            !.took = @ \cup {0}, !.offered = None, !.lease = NoLease,
            !.t0 = 0, !.t1 = 0, !.t2 = 0, !.t2limit = 0, !.used = 0, !.pcb = FALSE]

\* The first part of dhcp_start: the pcb goes back, the struct is zeroed, its
\* transaction id too.
Cleared(d) ==
  [DropPcb(d) EXCEPT
            !.state = "OFF", !.tries = 0, !.timer = FALSE, !.myxid = 0,
            !.took = @ \cup {0}, !.offered = None, !.lease = NoLease,
            !.t0 = 0, !.t1 = 0, !.t2 = 0, !.t2limit = 0, !.used = 0]

\* dhcp_start; mem: malloc and udp_new succeed.
Start(d, p, mem) ==
  LET e == [Cleared(d) EXCEPT !.pcb = TRUE, !.refs = @ + 1]
  IN IF ~mem THEN Cleared(d)
     ELSE IF link THEN Discover(e, p) ELSE SetState(e, "INIT")

\* dhcp_network_changed
NetworkChanged(d, p) ==
  LET e == [d EXCEPT !.tries = 0]
  IN CASE d.state = "OFF" -> d
       [] d.state \in {"REBINDING", "RENEWING", "BOUND", "REBOOTING"} ->
            Request(e, "REBOOTING", p)
       [] OTHER -> Discover(e, p)

\* A REQUEST that timed out is not repeated.
Mut_Timeout(d, p, mem) ==
  CASE d.state \in {"BACKING_OFF", "SELECTING"} -> Discover(d, p)
    [] d.state = "CHECKING" -> IF d.tries <= 1 THEN Check(d) ELSE Bind(d)
    [] d.state = "REBOOTING" ->
         IF d.tries < RebootTries THEN Request(d, "REBOOTING", p) ELSE Discover(d, p)
    [] OTHER -> d

\* dhcp_timeout
Timeout(d, p, mem) ==
  CASE d.state \in {"BACKING_OFF", "SELECTING"} -> Discover(d, p)
    [] d.state = "REQUESTING" ->
         IF d.tries <= RequestTries THEN Request(d, "REQUESTING", p)
         ELSE Start(ReleaseAndStop(d, p), p, mem)
    [] d.state = "CHECKING" -> IF d.tries <= 1 THEN Check(d) ELSE Bind(d)
    [] d.state = "REBOOTING" ->
         IF d.tries < RebootTries THEN Request(d, "REBOOTING", p) ELSE Discover(d, p)
    [] OTHER -> d

\* dhcp_t1_timeout
T1Timeout(d, p) ==
  LET again == (d.t2limit - d.used) \div 2
      e     == Request(d, "RENEWING", p)
  IN CASE d.state \notin {"REQUESTING", "BOUND", "RENEWING"} -> d
       [] OTHER -> IF again >= 1 THEN [e EXCEPT !.t1 = again] ELSE e

\* dhcp_t2_timeout
T2Timeout(d, p) ==
  LET again == (d.t0 - d.used) \div 2
      e     == Request(d, "REBINDING", p)
  IN CASE d.state \notin {"REQUESTING", "BOUND", "RENEWING", "REBINDING"} -> d
       [] OTHER -> IF again >= 1 THEN [e EXCEPT !.t2 = again] ELSE e

Less(n) == IF n > 0 THEN n - 1 ELSE 0

\* The lease is compared before it is counted.
Mut_Coarse(d, p, q, mem) ==
  LET a == [d EXCEPT !.used = IF d.t0 > 0 THEN @ + 1 ELSE @]
      b == [a EXCEPT !.t2 = Less(@)]
      e == [b EXCEPT !.t1 = Less(@)]
  IN CASE d.state = "OFF" -> d
       [] d.state # "OFF" /\ d.t0 > 0 /\ d.used = d.t0 ->
            Start(ReleaseAndStop(a, p), q, mem)
       [] OTHER -> IF a.t2 = 1 THEN T2Timeout(b, p)
                   ELSE IF b.t1 = 1 THEN T1Timeout(e, p) ELSE e

\* dhcp_coarse_tmr: the first of lease, rebind and renewal that is due; a
\* timer that is looked at counts down.  At the end of the lease both the
\* RELEASE (p) and the DISCOVER of the restart (q) have a pbuf and draw an id.
Coarse(d, p, q, mem) ==
  LET a == [d EXCEPT !.used = IF d.t0 > 0 THEN @ + 1 ELSE @]
      b == [a EXCEPT !.t2 = Less(@)]
      e == [b EXCEPT !.t1 = Less(@)]
  IN CASE d.state = "OFF" -> d
       [] d.state # "OFF" /\ d.t0 > 0 /\ a.used = d.t0 ->
            Start(ReleaseAndStop(a, p), q, mem)
       [] OTHER -> IF a.t2 = 1 THEN T2Timeout(b, p)
                   ELSE IF b.t1 = 1 THEN T1Timeout(e, p) ELSE e

\* The transaction id of the reply is not looked at.
Mut_Recv(d, m, p) ==
  IF ~d.pcb THEN d
  ELSE
       CASE m.type = "ACK" /\ d.state = "REQUESTING" -> Check(HandleAck(d, m))
         [] m.type = "ACK" /\ d.state \in {"REBOOTING", "REBINDING", "RENEWING"} ->
              Bind(HandleAck(d, m))
         [] m.type = "NAK"
            /\ d.state \in {"REBOOTING", "REQUESTING", "REBINDING", "RENEWING"} ->
              HandleNak(d, p)
         [] m.type = "OFFER" /\ d.state = "SELECTING" ->
              Request([d EXCEPT !.offered = m.ip], "REQUESTING", p)
         [] OTHER -> d

\* dhcp_recv, dhcp_handle_offer included.
Recv(d, m, p) ==
  IF ~d.pcb \/ m.xid # d.myxid THEN d
  ELSE
       CASE m.type = "ACK" /\ d.state = "REQUESTING" -> Check(HandleAck(d, m))
         [] m.type = "ACK" /\ d.state \in {"REBOOTING", "REBINDING", "RENEWING"} ->
              Bind(HandleAck(d, m))
         [] m.type = "NAK"
            /\ d.state \in {"REBOOTING", "REQUESTING", "REBINDING", "RENEWING"} ->
              HandleNak(d, p)
         [] m.type = "OFFER" /\ d.state = "SELECTING" ->
              Request([d EXCEPT !.offered = m.ip], "REQUESTING", p)
         [] OTHER -> d

\* dhcp_arp_reply
ArpReply(d, ip, p) ==
  IF d.state = "CHECKING" /\ ip = d.offered THEN Decline(d, p) ELSE d

-----------------------------------------------------------------------------
(* The steps. *)

Init ==
  /\ c = [state |-> "OFF", tries |-> 0, timer |-> FALSE, myxid |-> 0, xid |-> 0,
          offered |-> None, lease |-> NoLease, t0 |-> 0, t1 |-> 0, t2 |-> 0,
          t2limit |-> 0, used |-> 0, pcb |-> FALSE, refs |-> 0, addr |-> None,
          sent |-> {}, took |-> {}]
  /\ wire = {} /\ left = [a \in Addrs |-> Ended] /\ declined = {} /\ trouble = 0
  /\ fresh = TRUE
  /\ half \in BOOLEAN /\ due = FALSE
  /\ link = FALSE /\ starting = FALSE

\* An id that d took is carried by a message of "rest".
Reused(d, rest) == \E m \in rest : m.type # "ARP" /\ m.xid \in d.took

\* A handler returned d; what it sent is underway if the link is there, with
\* "rest".
Done(d, rest) ==
  /\ c' = [d EXCEPT !.sent = {}, !.took = {}]
  /\ wire' = rest \cup (IF link' THEN d.sent ELSE {})
  /\ fresh' = (fresh /\ ~Reused(d, rest))

Spend(n) == trouble + n <= MaxTrouble /\ trouble' = trouble + n

\* Every allocation succeeds; without a pbuf any draw is as good.
Best(p) == IF p = NoPbuf THEN 0 ELSE p

\* A handler of the core ran and left d, where it would have left "best" with
\* every allocation: a failure that tells is a fault, so is an id in use.
Run(cost, rest, d, best) ==
  /\ trouble + cost <= MaxTrouble
  /\ Spend(cost + (IF d = best THEN 0 ELSE 1) + (IF Reused(d, rest) THEN 1 ELSE 0))
  /\ Done(d, rest)

\* dhcp_fine_tmr fires request_timeout.  It takes half a second at least: an
\* answer still underway is late, a fault.
FineTmr ==
  /\ c.timer
  /\ UNCHANGED <<left, declined, clock, port>>
  /\ LET d == [c EXCEPT !.timer = FALSE]
     IN \E mem \in BOOLEAN : \E p \in Pbuf :
          Run(IF wire = {} THEN 0 ELSE 1, wire,
              Timeout(d, p, mem), Timeout(d, Best(p), TRUE))

CoarseTmr ==
  /\ due /\ due' = FALSE
  /\ UNCHANGED <<left, declined, half, port>>
  /\ \E mem \in BOOLEAN : \E p, q \in Pbuf :
       Run(0, wire, Coarse(c, p, q, mem), Coarse(c, Best(p), Best(q), TRUE))

\* Half a minute; the ARP check takes one second.
Elapse ==
  /\ ~due /\ wire = {} /\ c.state # "CHECKING" /\ ~starting
  /\ half' = ~half /\ due' = half
  /\ left' = [a \in Addrs |-> IF left[a] > Ended
                                THEN left[a] - CoarseSecs \div 2 ELSE left[a]]
  /\ UNCHANGED <<c, fresh, wire, declined, trouble, port>>

Replies == {"OFFER", "ACK", "NAK"}

\* A reply arrives, and may arrive again.
Deliver(m) ==
  /\ m \in wire /\ m.type \in Replies
  /\ UNCHANGED <<left, declined, clock, port>>
  /\ \E p \in Pbuf :
       \/ Run(0, wire \ {m}, Recv(c, m, p), Recv(c, m, Best(p)))
       \/ Run(1, wire, Recv(c, m, p), Recv(c, m, Best(p)))

DeliverArp(m) ==
  /\ m \in wire /\ m.type = "ARP"
  /\ UNCHANGED <<left, declined, clock, port>>
  /\ \E p \in Pbuf :
       Run(0, wire \ {m}, ArpReply(c, m.ip, p), ArpReply(c, m.ip, Best(p)))

Lose(m) ==
  /\ m \in wire /\ wire' = wire \ {m} /\ Spend(1)
  /\ UNCHANGED <<c, fresh, left, declined, clock, port>>

-----------------------------------------------------------------------------
(* The server. *)

Answer(m, type, ip, lease) ==
  wire' = (wire \ {m}) \cup {[type |-> type, xid |-> m.xid, ip |-> ip, lease |-> lease]}

\* The client's messages arrive in order: what it gives back comes first.
InOrder == \A m \in wire : m.type \notin {"DECLINE", "RELEASE"}

Offer(m) ==
  /\ m \in wire /\ m.type = "DISCOVER" /\ InOrder
  /\ \E a \in Addrs \ declined : Answer(m, "OFFER", a, NoLease)
  /\ UNCHANGED <<c, fresh, left, declined, trouble, clock, port>>

\* A lease runs from here and is not shortened; anything may be refused.
Grant(m) ==
  /\ m \in wire /\ m.type = "REQUEST" /\ InOrder
  /\ \/ /\ m.ip \in Addrs \ declined
        /\ \E l \in Leases :
             /\ Answer(m, "ACK", m.ip, l)
             /\ left' = [left EXCEPT ![m.ip] = IF @ < l.t0 THEN l.t0 ELSE @]
        /\ UNCHANGED trouble
     \/ /\ Answer(m, "NAK", None, NoLease)
        /\ Spend(IF m.ip \in Addrs \ declined THEN 1 ELSE 0)
        /\ UNCHANGED left
  /\ UNCHANGED <<c, fresh, declined, clock, port>>

TakeBack(m) ==
  /\ m \in wire /\ m.type \in {"DECLINE", "RELEASE"}
  /\ wire' = wire \ {m}
  /\ declined' = IF m.type = "DECLINE" THEN declined \cup {m.ip} ELSE declined
  /\ left' = IF m.ip \in Addrs THEN [left EXCEPT ![m.ip] = Ended] ELSE left
  /\ UNCHANGED <<c, fresh, trouble, clock, port>>

-----------------------------------------------------------------------------
(* lwip_netif_thread and the application. *)

\* netif_set_link_up; in DHCP mode the thread calls dhcp_start next.
LinkUp ==
  /\ ~link /\ link' = TRUE /\ starting' = UseDhcp
  /\ UNCHANGED <<left, declined, clock>>
  /\ \E p \in Pbuf :
       Run(1, wire, NetworkChanged(c, p), NetworkChanged(c, Best(p)))

ThreadStart ==
  /\ starting /\ starting' = FALSE
  /\ UNCHANGED <<left, declined, clock, link>>
  /\ \E mem \in BOOLEAN : \E p \in Pbuf :
       Run(0, wire, Start(c, p, mem), Start(c, Best(p), TRUE))

\* netif_set_link_down, which the client does not hear of.
LinkDown ==
  /\ link /\ ~starting
  /\ link' = FALSE /\ wire' = {}
  /\ UNCHANGED <<c, fresh, left, declined, trouble, clock, starting>>

LwIP_DHCP_Start ==
  /\ UNCHANGED <<left, declined, clock, port>>
  /\ \E mem \in BOOLEAN : \E p \in Pbuf :
       Run(1, wire, Start(c, p, mem), Start(c, Best(p), TRUE))

LwIP_DHCP_Stop ==
  /\ UNCHANGED <<left, declined, clock, port>>
  /\ \E p \in Pbuf :
       Run(1, wire, ReleaseAndStop(c, p), ReleaseAndStop(c, Best(p)))

Network(m) == Deliver(m) \/ DeliverArp(m) \/ Lose(m)
Server(m) == Offer(m) \/ Grant(m) \/ TakeBack(m)

Next ==
  \/ FineTmr \/ CoarseTmr \/ Elapse
  \/ \E m \in wire : Network(m) \/ Server(m)
  \/ LinkUp \/ ThreadStart \/ LinkDown
  \/ LwIP_DHCP_Start \/ LwIP_DHCP_Stop

Spec == Init /\ [][Next]_vars

\* The timers are cyclic timers of tcpip_thread; messages not lost are served.
FairSpec ==
  /\ Spec
  /\ WF_vars(FineTmr) /\ WF_vars(CoarseTmr) /\ WF_vars(Elapse)
  /\ WF_vars(ThreadStart)
  /\ WF_vars(\E m \in wire : Deliver(m) \/ DeliverArp(m) \/ Server(m))

-----------------------------------------------------------------------------
(* Properties. *)

\* Every field keeps its type; tries and the id wrap or stop where they must,
\* the lease is never used past its end.
TypeOK ==
  /\ c.state \in States /\ c.tries \in 0 .. MaxTries /\ c.timer \in BOOLEAN
  /\ {c.xid, c.myxid} \subseteq Xid /\ {c.offered, c.addr} \subseteq IP
  /\ {c.t0, c.t1, c.t2, c.t2limit} \subseteq 0 .. MaxU16
  /\ c.used \in 0 .. c.t0
  /\ c.pcb \in BOOLEAN /\ c.sent = {} /\ c.took = {} /\ fresh \in BOOLEAN
  /\ wire \subseteq Message /\ declined \subseteq Addrs
  /\ trouble \in 0 .. MaxTrouble

\* The reference to the shared pcb is held exactly while the client is on:
\* every restart gives it back before it takes it again (the assertion in
\* dhcp_dec_pcb_refcount), and a start that fails leaves none.
PcbCounted ==
  /\ c.refs = IF c.pcb THEN 1 ELSE 0
  /\ c.pcb <=> c.state # "OFF"

\* In no state does the client wait for nothing: it has a retry armed, or a
\* lease that ends, or it is off, or waits for the link.
AlwaysDriven ==
  CASE c.state = "OFF" -> TRUE
    [] c.state = "INIT" -> ~link
    [] Supplied(c) -> c.used < c.t0
    [] OTHER -> c.timer

\* The client's state, its pcb and its timers belong together.
ClientInv == TypeOK /\ PcbCounted /\ AlwaysDriven

\* While the client takes its address for leased, the server's lease ended
\* at most half a coarse period ago, whatever was rounded; as long as rand()
\* returned no id still underway.
LeaseHeld ==
  fresh /\ Supplied(c) /\ c.addr = c.offered => left[c.addr] >= -(CoarseSecs \div 2)

\* An answer to an earlier transaction never counts: the client does not
\* check or bind an address that the server knows it declined; as long as
\* rand() returned no id still underway, which the code does not look after.
NotADeclinedAddress ==
  fresh /\ c.state \in {"CHECKING", "BOUND"} => c.offered \notin declined

\* A client that is on, with the link up, gets an address.
GetsLease ==
  (c.state # "OFF" /\ link) ~> (c.state \in {"BOUND", "OFF"} \/ ~link)
===============================================================================
