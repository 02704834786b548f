----------------------------- MODULE Dhcp_proofs -----------------------------
(***************************************************************************)
(* The DHCP client for any set of addresses, any leases, retry limits and  *)
(* transaction ids, whatever is lost, late, repeated, refused or without   *)
(* memory, and however often.                                              *)
(***************************************************************************)
EXTENDS Dhcp, TLAPS

-----------------------------------------------------------------------------
(* The inductive invariant. *)

Seconds == [t0 : Nat, t1 : Nat, t2 : Nat]

Client ==
  [state : States, tries : 0 .. MaxTries, timer : BOOLEAN, myxid : Xid,
   xid : Xid, offered : IP, lease : Seconds,
   t0 : 0 .. MaxU16, t1 : 0 .. MaxU16, t2 : 0 .. MaxU16, t2limit : 0 .. MaxU16,
   used : 0 .. MaxU16, pcb : BOOLEAN, refs : 0 .. 1, addr : IP, sent : SUBSET Message,
   took : SUBSET Xid]

\* The states in which an address was offered, and those that a retry drives.
Later == {"REQUESTING", "CHECKING", "REBOOTING", "BOUND", "RENEWING", "REBINDING"}
Retried == {"SELECTING", "REQUESTING", "CHECKING", "BACKING_OFF", "REBOOTING"}

\* The lease timers run together and are not past their end; the pcb is there
\* while the client is on; the transaction has the id drawn last, or none yet.
ClientOk(d) ==
  /\ d \in Client
  /\ d.t0 = 0 => d.used = 0 /\ d.t1 = 0 /\ d.t2 = 0
  /\ d.t0 > 0 => d.used < d.t0
  /\ Supplied(d) => 0 < d.t0
  /\ d.state = "OFF" => d.t0 = 0
  /\ d.refs = IF d.pcb THEN 1 ELSE 0
  /\ d.pcb <=> d.state # "OFF"
  /\ d.myxid \in {d.xid, 0}
  /\ d.state \in Later => d.offered \in Addrs

Armed(d) == d.state \in Retried => d.timer

EnvOk ==
  /\ left \in [Addrs -> Int] /\ declined \in SUBSET Addrs /\ trouble \in 0 .. MaxTrouble
  /\ half \in BOOLEAN /\ due \in BOOLEAN /\ ~(half /\ due)
  /\ link \in BOOLEAN /\ starting \in BOOLEAN /\ fresh \in BOOLEAN

\* What may be underway.
MessageOk(m) ==
  /\ m \in Message
  /\ m.type \in {"OFFER", "ACK", "DECLINE"} => m.ip \in Addrs
  /\ m.type = "ACK" => m.lease \in Leases

GiveBacks == {"DECLINE", "RELEASE"}

\* Nobody counts on an address that is known to be in use, or that the client
\* has given back in a message still underway.
NotGivenBack(a, w) ==
  a \notin declined /\ \A m \in w : m.type \in GiveBacks => m.ip # a

AnswersCurrent ==
  \A m \in wire : m.type \in {"OFFER", "ACK"} /\ m.xid = c.xid => NotGivenBack(m.ip, wire)

\* A transaction that has the id of the zeroed struct, not the one drawn last,
\* has no address yet and no message underway.
OwnId ==
  c.myxid = c.xid \/ (c.state \notin Later
                     /\ \A m \in wire : m.type # "ARP" => m.xid # c.myxid)

DriveInv ==
  /\ ClientOk(c) /\ c.sent = {} /\ c.took = {} /\ Armed(c)
  /\ c.state = "INIT" => ~link
  /\ EnvOk /\ \A m \in wire : MessageOk(m)
  /\ fresh => OwnId

Current ==
  AnswersCurrent /\ (c.state \in Later => NotGivenBack(c.offered, wire))

CurrentInv == DriveInv /\ (fresh => Current)

Half(b) == IF b THEN CoarseSecs \div 2 ELSE 0

\* What the lease timers leave of the address's lease: at a tick that is due a
\* whole period counts as over, in the second half of a period half of it.
Remaining ==
  CoarseSecs * (c.t0 - c.used) - CoarseSecs \div 2 - Half(half) - 2 * Half(due)

LeaseCounted ==
  /\ \A m \in wire : m.type = "ACK" /\ m.xid = c.xid => left[m.ip] >= m.lease.t0
  /\ c.state = "CHECKING" =>
       c.lease.t0 >= CoarseSecs \div 2 /\ left[c.offered] >= c.lease.t0
  /\ c.t0 > 0 /\ c.addr # None =>
       /\ \A m \in wire : m.type = "RELEASE" => m.ip # c.addr
       /\ c.addr \notin declined => left[c.addr] >= Remaining

LeaseInv == CurrentInv /\ (fresh => LeaseCounted)

-----------------------------------------------------------------------------
(* The client's functions. *)

\* The constants, one by one.
LEMMA Sizes ==
  /\ RequestTries \in Nat /\ MaxTries \in Nat /\ XidRange \in Nat /\ XidRange > 0
  /\ U32Range \in Nat /\ U32Range > 0
  /\ MaxTries > 2 /\ MaxTrouble \in Nat /\ MaxU16 \in Nat /\ MaxU16 > 0 /\ CoarseSecs = 60
BY DhcpAssumption, SMT DEF RebootTries, MaxU16, CoarseSecs

LEMMA Xids == 0 \in Xid /\ Xid \subseteq Nat /\ NoPbuf \notin Xid
BY Sizes DEF Xid, NoPbuf

LEMMA LeaseTypes ==
  /\ \A l \in Leases : /\ l.t0 \in Nat \cup {NotGiven} /\ l.t1 \in Nat \cup {NotGiven}
                       /\ l.t2 \in Nat \cup {NotGiven}
  /\ NoLease \in Seconds
  /\ None \notin Addrs
<1>1. /\ Leases \subseteq [t0 : (0 .. U32Range - 2) \cup {NotGiven},
                         t1 : (0 .. U32Range - 2) \cup {NotGiven},
                         t2 : (0 .. U32Range - 2) \cup {NotGiven}]
      /\ None \notin Addrs
  BY DhcpAssumption
<1>2. (0 .. U32Range - 2) \subseteq Nat
  BY Sizes
<1>3. NoLease \in Seconds
  BY DEF NoLease, Seconds
<1> QED
  BY <1>1, <1>2, <1>3

\* What is left of a number in a u32_t.
LEMMA Wrapped ==
  ASSUME NEW x \in Nat
  PROVE  x % U32Range \in Nat /\ x % U32Range <= x
BY Sizes

\* The lease and its timers, the pcb and the address are as before.
Kept(d, e) ==
  /\ e.lease = d.lease /\ e.t0 = d.t0 /\ e.t1 = d.t1 /\ e.t2 = d.t2
  /\ e.t2limit = d.t2limit /\ e.used = d.used /\ e.pcb = d.pcb /\ e.refs = d.refs
  /\ e.addr = d.addr

LEMMA SetStateIs ==
  ASSUME NEW d \in Client, NEW s \in States
  PROVE  /\ SetState(d, s) \in Client /\ SetState(d, s).state = s
         /\ Kept(d, SetState(d, s)) /\ SetState(d, s).offered = d.offered
         /\ SetState(d, s).xid = d.xid /\ SetState(d, s).myxid = d.myxid
         /\ SetState(d, s).sent = d.sent /\ SetState(d, s).took = d.took
         /\ d.state # s => SetState(d, s).tries = 0
<1>1. 0 \in 0 .. MaxTries
  BY Sizes
<1>2. CASE s = d.state
  BY <1>2 DEF SetState, Kept
<1>3. CASE s # d.state
  BY <1>1, <1>3 DEF SetState, Kept, Client
<1> QED
  BY <1>2, <1>3

LEMMA AsksIs ==
  ASSUME NEW d \in Client, NEW type
  PROVE  /\ Asks(d, type) \in IP
         /\ type = "DISCOVER" => Asks(d, type) = None
         /\ type = "RELEASE" => Asks(d, type) = d.addr
         /\ type \notin {"DISCOVER", "RELEASE"} /\ d.state \notin {"RENEWING", "REBINDING"}
              => Asks(d, type) = d.offered
BY DEF Asks, Client, IP

ClientTypes == {"DISCOVER", "REQUEST", "DECLINE", "RELEASE"}

\* dhcp_create_msg: the message goes out under the id drawn unless it is a retry
\* or belongs to a transaction under way; without a pbuf nothing changes.
LEMMA CreateMsgIs ==
  ASSUME NEW d \in Client, NEW type \in ClientTypes, NEW p \in Pbuf
  PROVE  LET e   == CreateMsg(d, type, p)
             new == type # "REQUEST" \/ d.state = "REBOOTING"
         IN  /\ e \in Client /\ Kept(d, e) /\ e.state = d.state /\ e.offered = d.offered
             /\ e.tries = d.tries /\ e.timer = d.timer
             /\ p = NoPbuf => e = d
             /\ p # NoPbuf => e.sent = d.sent \cup {Msg(type, e.myxid, Asks(d, type))}
             /\ p # NoPbuf /\ new => e.myxid = e.xid
             /\ ~new => e.myxid = d.myxid /\ e.xid = d.xid
             /\ p # NoPbuf /\ new /\ d.tries = 0 => e.xid \in e.took
             /\ e.xid = d.xid \/ e.xid \in e.took
             /\ d.took \subseteq e.took
<1> DEFINE e    == CreateMsg(d, type, p)
           new  == type # "REQUEST" \/ d.state = "REBOOTING"
           draw == new /\ d.tries = 0
           gx   == IF draw THEN p ELSE d.xid
           mx   == IF new THEN gx ELSE d.myxid
           tk   == IF draw THEN d.took \cup {gx} ELSE d.took
           msg  == Msg(type, mx, Asks(d, type))
<1>1. CASE p = NoPbuf
  <2>1. e = d
    BY <1>1 DEF CreateMsg
  <2> QED
    BY <1>1, <2>1 DEF Kept
<1>2. CASE p # NoPbuf
  <2>1. /\ d.xid \in Xid /\ d.myxid \in Xid /\ d.sent \in SUBSET Message
        /\ d.took \in SUBSET Xid /\ p \in Xid
    BY <1>2 DEF Client, Pbuf
  <2>2. gx \in Xid /\ mx \in Xid /\ tk \in SUBSET Xid
    BY <2>1
  <2>3. msg \in Message
    BY <2>2, AsksIs DEF Msg, Message, ClientTypes
  <2>4. e = [d EXCEPT !.xid = gx, !.myxid = mx, !.took = tk, !.sent = @ \cup {msg}]
    BY <1>2 DEF CreateMsg
  <2>5. d.sent \cup {msg} \in SUBSET Message
    BY <2>1, <2>3
  <2>6. /\ e \in Client /\ Kept(d, e) /\ e.state = d.state /\ e.offered = d.offered
        /\ e.tries = d.tries /\ e.timer = d.timer
        /\ e.xid = gx /\ e.myxid = mx /\ e.took = tk /\ e.sent = d.sent \cup {msg}
    <3> HIDE DEF e, gx, mx, tk, msg
    <3> QED
      BY <2>2, <2>4, <2>5 DEF Client, Kept
  <2>7. e.sent = d.sent \cup {Msg(type, e.myxid, Asks(d, type))}
    <3>1. msg = Msg(type, e.myxid, Asks(d, type))
      BY <2>6
    <3> QED
      BY <2>6, <3>1
  <2>8. /\ draw => gx \in tk
        /\ gx = d.xid \/ gx \in tk
        /\ d.took \subseteq tk
        /\ new => mx = gx
        /\ ~new => mx = d.myxid /\ gx = d.xid
    OBVIOUS
  <2> HIDE DEF e, gx, mx, tk, msg
  <2> QED
    BY <1>2, <2>6, <2>7, <2>8 DEF e
<1> QED
  BY <1>1, <1>2

LEMMA TriedIs ==
  ASSUME NEW d \in Client
  PROVE  /\ Tried(d) \in Client /\ Kept(d, Tried(d)) /\ Tried(d).state = d.state
         /\ Tried(d).offered = d.offered /\ Tried(d).xid = d.xid
         /\ Tried(d).myxid = d.myxid /\ Tried(d).sent = d.sent
         /\ Tried(d).took = d.took /\ Tried(d).timer = TRUE
<1>1. d.tries \in 0 .. MaxTries
  BY DEF Client
<1>2. (IF d.tries < MaxTries THEN d.tries + 1 ELSE d.tries) \in 0 .. MaxTries
  BY <1>1, Sizes
<1> QED
  BY <1>2 DEF Tried, Client, Kept

\* What a sender has done: its id is one it took or as before, and what it adds to
\* what goes out carries the id.
Sent(d, e, type, p) ==
  /\ e \in Client /\ Kept(d, e) /\ e.timer = TRUE
  /\ p = NoPbuf => e.sent = d.sent /\ e.took = d.took /\ e.xid = d.xid /\ e.myxid = d.myxid
  /\ p # NoPbuf => \A m \in e.sent : m \in d.sent \/ (m.type = type /\ m.xid = e.myxid)
  /\ e.xid = d.xid \/ e.xid \in e.took
  /\ d.took \subseteq e.took
  /\ e.myxid \in {d.myxid, e.xid}
  /\ e.myxid # e.xid => e.xid = d.xid

LEMMA DiscoverIs ==
  ASSUME NEW d \in Client, NEW p \in Pbuf
  PROVE  LET e == Discover(d, p)
         IN  /\ Sent(d, e, "DISCOVER", p) /\ e.state = "SELECTING" /\ e.offered = None
             /\ p # NoPbuf => e.myxid = e.xid
<1> DEFINE a == [d EXCEPT !.offered = None]
           b == SetState(a, "SELECTING")
           f == CreateMsg(b, "DISCOVER", p)
           e == Tried(f)
<1>1. /\ a \in Client /\ Kept(d, a) /\ a.offered = None /\ a.xid = d.xid
      /\ a.myxid = d.myxid /\ a.sent = d.sent /\ a.took = d.took
  BY DEF Client, Kept, IP
<1> HIDE DEF a
<1>2. /\ b \in Client /\ b.state = "SELECTING" /\ Kept(a, b) /\ b.offered = a.offered
      /\ b.xid = a.xid /\ b.myxid = a.myxid /\ b.sent = a.sent /\ b.took = a.took
  BY <1>1, SetStateIs DEF States
<1> HIDE DEF b
<1>3. /\ f \in Client /\ Kept(b, f) /\ f.state = b.state /\ f.offered = b.offered
      /\ p = NoPbuf => f = b
      /\ p # NoPbuf => f.sent = b.sent \cup {Msg("DISCOVER", f.myxid, Asks(b, "DISCOVER"))}
      /\ p # NoPbuf => f.myxid = f.xid
      /\ f.xid = b.xid \/ f.xid \in f.took
      /\ b.took \subseteq f.took
  BY <1>2, CreateMsgIs DEF ClientTypes
<1> HIDE DEF f
<1>4. /\ e \in Client /\ Kept(f, e) /\ e.state = f.state /\ e.offered = f.offered
      /\ e.xid = f.xid /\ e.myxid = f.myxid /\ e.sent = f.sent
      /\ e.took = f.took /\ e.timer = TRUE
  BY <1>3, TriedIs
<1>5. Discover(d, p) = e
  BY DEF Discover, a, b, f
<1> HIDE DEF e
<1>6. Kept(d, e)
  BY <1>1, <1>2, <1>3, <1>4 DEF Kept
<1>7. p # NoPbuf => \A m \in e.sent :
        m \in d.sent \/ (m.type = "DISCOVER" /\ m.xid = e.myxid)
  BY <1>1, <1>2, <1>3, <1>4 DEF Msg
<1>8. Sent(d, e, "DISCOVER", p)
  BY <1>1, <1>2, <1>3, <1>4, <1>6, <1>7 DEF Sent
<1> QED
  BY <1>1, <1>2, <1>3, <1>4, <1>5, <1>8

LEMMA RequestIs ==
  ASSUME NEW d \in Client, NEW s \in States, NEW p \in Pbuf
  PROVE  LET e == Request(d, s, p)
         IN  /\ Sent(d, e, "REQUEST", p) /\ e.state = s /\ e.offered = d.offered
<1> DEFINE b == SetState(d, s)
           f == CreateMsg(b, "REQUEST", p)
           e == Tried(f)
<1>2. /\ b \in Client /\ b.state = s /\ Kept(d, b) /\ b.offered = d.offered
      /\ b.xid = d.xid /\ b.myxid = d.myxid /\ b.sent = d.sent /\ b.took = d.took
  BY SetStateIs
<1> HIDE DEF b
<1>3. /\ f \in Client /\ Kept(b, f) /\ f.state = b.state /\ f.offered = b.offered
      /\ p = NoPbuf => f = b
      /\ p # NoPbuf => f.sent = b.sent \cup {Msg("REQUEST", f.myxid, Asks(b, "REQUEST"))}
      /\ f.xid = b.xid \/ f.xid \in f.took
      /\ b.took \subseteq f.took
      /\ f.myxid = f.xid \/ (f.myxid = b.myxid /\ f.xid = b.xid)
  <2>1. f.myxid = f.xid \/ (f.myxid = b.myxid /\ f.xid = b.xid)
    BY <1>2, CreateMsgIs DEF ClientTypes
  <2> QED
    BY <1>2, <2>1, CreateMsgIs DEF ClientTypes
<1> HIDE DEF f
<1>4. /\ e \in Client /\ Kept(f, e) /\ e.state = f.state /\ e.offered = f.offered
      /\ e.xid = f.xid /\ e.myxid = f.myxid /\ e.sent = f.sent
      /\ e.took = f.took /\ e.timer = TRUE
  BY <1>3, TriedIs
<1>5. Request(d, s, p) = e
  BY DEF Request, b, f
<1> HIDE DEF e
<1>6. Kept(d, e)
  BY <1>2, <1>3, <1>4 DEF Kept
<1>7. p # NoPbuf => \A m \in e.sent :
        m \in d.sent \/ (m.type = "REQUEST" /\ m.xid = e.myxid)
  BY <1>2, <1>3, <1>4 DEF Msg
<1>8. Sent(d, e, "REQUEST", p)
  BY <1>2, <1>3, <1>4, <1>6, <1>7 DEF Sent
<1> QED
  BY <1>2, <1>3, <1>4, <1>5, <1>8

\* dhcp_decline, always a change of state, has an id of its own.
LEMMA DeclineIs ==
  ASSUME NEW d \in Client, d.state = "CHECKING", NEW p \in Pbuf
  PROVE  LET e == Decline(d, p)
         IN  /\ Sent(d, e, "DECLINE", p) /\ e.state = "BACKING_OFF"
             /\ e.offered = d.offered
             /\ p # NoPbuf => e.myxid = e.xid /\ e.xid \in e.took
             /\ p # NoPbuf => \A m \in e.sent : m \in d.sent \/ m.ip = d.offered
<1> DEFINE b == SetState(d, "BACKING_OFF")
           f == CreateMsg(b, "DECLINE", p)
           e == Tried(f)
<1>2. /\ b \in Client /\ b.state = "BACKING_OFF" /\ Kept(d, b) /\ b.offered = d.offered
      /\ b.xid = d.xid /\ b.myxid = d.myxid /\ b.sent = d.sent
      /\ b.took = d.took /\ b.tries = 0
  BY SetStateIs DEF States
<1> HIDE DEF b
<1>3. /\ f \in Client /\ Kept(b, f) /\ f.state = b.state /\ f.offered = b.offered
      /\ p = NoPbuf => f = b
      /\ p # NoPbuf => f.sent = b.sent \cup {Msg("DECLINE", f.myxid, Asks(b, "DECLINE"))}
      /\ p # NoPbuf => f.myxid = f.xid /\ f.xid \in f.took
      /\ b.took \subseteq f.took
  BY <1>2, CreateMsgIs DEF ClientTypes
<1>4. Asks(b, "DECLINE") = b.offered
  BY <1>2, AsksIs
<1> HIDE DEF f
<1>5. /\ e \in Client /\ Kept(f, e) /\ e.state = f.state /\ e.offered = f.offered
      /\ e.xid = f.xid /\ e.myxid = f.myxid /\ e.sent = f.sent
      /\ e.took = f.took /\ e.timer = TRUE
  BY <1>3, TriedIs
<1>6. Decline(d, p) = e
  BY DEF Decline, b, f
<1> HIDE DEF e
<1>7. Kept(d, e)
  BY <1>2, <1>3, <1>5 DEF Kept
<1>8. p # NoPbuf => \A m \in e.sent :
              m \in d.sent \/ (m.type = "DECLINE" /\ m.xid = e.myxid /\ m.ip = d.offered)
  BY <1>2, <1>3, <1>4, <1>5 DEF Msg
<1>9. Sent(d, e, "DECLINE", p)
  BY <1>2, <1>3, <1>5, <1>7, <1>8 DEF Sent
<1> QED
  BY <1>2, <1>3, <1>5, <1>6, <1>8, <1>9

LEMMA CheckIs ==
  ASSUME NEW d \in Client
  PROVE  LET e == Check(d)
         IN  /\ e \in Client /\ Kept(d, e) /\ e.timer = TRUE /\ e.state = "CHECKING"
             /\ e.offered = d.offered /\ e.xid = d.xid /\ e.myxid = d.myxid
             /\ e.took = d.took
             /\ \A m \in e.sent : m \in d.sent \/ (m.type = "ARP" /\ m.xid = 0)
<1> DEFINE b == SetState(d, "CHECKING")
           f == Tried(b)
           msg == Msg("ARP", 0, d.offered)
           e == IF d.offered \in InUse THEN [f EXCEPT !.sent = @ \cup {msg}] ELSE f
<1>1. /\ b \in Client /\ b.state = "CHECKING" /\ Kept(d, b) /\ b.offered = d.offered
      /\ b.xid = d.xid /\ b.myxid = d.myxid /\ b.sent = d.sent /\ b.took = d.took
  BY SetStateIs DEF States
<1> HIDE DEF b
<1>2. /\ f \in Client /\ Kept(b, f) /\ f.state = b.state /\ f.offered = b.offered
      /\ f.xid = b.xid /\ f.myxid = b.myxid /\ f.sent = b.sent
      /\ f.took = b.took /\ f.timer = TRUE
  BY <1>1, TriedIs
<1> HIDE DEF f
<1>3. msg \in Message /\ msg.type = "ARP" /\ msg.xid = 0
  <2>1. d.offered \in IP /\ 0 \in Xid
    BY Xids DEF Client
  <2> QED
    BY <2>1 DEF Msg, Message
<1> HIDE DEF msg
<1>4. f.sent \cup {msg} \in SUBSET Message
  BY <1>2, <1>3 DEF Client
<1>5. /\ e \in Client /\ Kept(f, e) /\ e.timer = f.timer /\ e.state = f.state
      /\ e.offered = f.offered /\ e.xid = f.xid /\ e.myxid = f.myxid /\ e.took = f.took
      /\ e.sent \in {f.sent, f.sent \cup {msg}}
  BY <1>2, <1>4 DEF Client, Kept
<1>6. Check(d) = e
  BY DEF Check, b, f, msg
<1> HIDE DEF e
<1>7. Kept(d, e)
  BY <1>1, <1>2, <1>5 DEF Kept
<1> QED
  BY <1>1, <1>2, <1>3, <1>5, <1>6, <1>7

LEMMA CoarseTicksIs ==
  ASSUME NEW secs \in Nat
  PROVE  /\ CoarseTicks(secs) \in 1 .. MaxU16
         /\ secs >= CoarseSecs \div 2 => CoarseSecs * CoarseTicks(secs) <= secs + CoarseSecs \div 2
<1> DEFINE w == (secs + 30) % U32Range
           n == w \div 60
<1>1. n \in Nat /\ 60 * n <= secs + 30
  <2>1. w \in Nat /\ w <= secs + 30
    BY Wrapped
  <2> HIDE DEF w
  <2> QED
    BY <2>1
<1>2. CoarseSecs \div 2 = 30
  BY DEF CoarseSecs
<1>3. CoarseTicks(secs) = IF n = 0 THEN 1 ELSE IF n > MaxU16 THEN MaxU16 ELSE n
  BY <1>2 DEF CoarseTicks, CoarseSecs
<1>4. MaxU16 \in Nat /\ MaxU16 > 0
  BY Sizes
<1> HIDE DEF n, w
<1>5. CoarseTicks(secs) \in 1 .. MaxU16
  BY <1>1, <1>3, <1>4
<1>6. secs >= 30 => 60 * CoarseTicks(secs) <= secs + 30
  BY <1>1, <1>3, <1>4
<1>7. secs >= CoarseSecs \div 2 => CoarseSecs * CoarseTicks(secs) <= secs + CoarseSecs \div 2
  BY <1>4, <1>5, <1>6 DEF CoarseSecs
<1> QED
  BY <1>5, <1>7

LEMMA HandleAckIs ==
  ASSUME NEW d \in Client, NEW m \in Message, m.lease \in Leases
  PROVE  LET e == HandleAck(d, m)
         IN  /\ e \in Client /\ e.offered = m.ip /\ e.state = d.state /\ e.sent = d.sent
             /\ e.took = d.took
             /\ e.xid = d.xid /\ e.myxid = d.myxid /\ e.timer = d.timer
             /\ e.t0 = d.t0 /\ e.t1 = d.t1 /\ e.t2 = d.t2 /\ e.used = d.used
             /\ e.pcb = d.pcb /\ e.refs = d.refs /\ e.addr = d.addr
             /\ m.lease.t0 # NotGiven => e.lease.t0 = m.lease.t0
<1> DEFINE t0 == IF m.lease.t0 # NotGiven THEN m.lease.t0 ELSE d.lease.t0
           t1 == IF m.lease.t1 # NotGiven THEN m.lease.t1 ELSE t0 \div 2
           t2 == IF m.lease.t2 # NotGiven THEN m.lease.t2 ELSE ((t0 * 7) % U32Range) \div 8
           l  == [t0 |-> t0, t1 |-> t1, t2 |-> t2]
           e  == [d EXCEPT !.lease = l, !.offered = m.ip]
<1>1. /\ m.lease.t0 \in Nat \cup {NotGiven} /\ m.lease.t1 \in Nat \cup {NotGiven}
      /\ m.lease.t2 \in Nat \cup {NotGiven} /\ m.ip \in IP /\ d.lease.t0 \in Nat
  BY LeaseTypes DEF Message, Client, Seconds
<1>2. t0 \in Nat
  BY <1>1
<1>3. t1 \in Nat
  <2> HIDE DEF t0
  <2> QED
    BY <1>1, <1>2
<1>4. t2 \in Nat
  <2> HIDE DEF t0
  <2>1. (t0 * 7) % U32Range \in Nat
    BY <1>2, Wrapped
  <2> DEFINE w == (t0 * 7) % U32Range
  <2> HIDE DEF w
  <2>2. w \div 8 \in Nat
    BY <2>1 DEF w
  <2> QED
    BY <1>1, <2>2 DEF w
<1>5. l \in Seconds /\ l.t0 = t0
  <2> HIDE DEF t0, t1, t2
  <2> QED
    BY <1>2, <1>3, <1>4 DEF Seconds
<1>6. HandleAck(d, m) = e
  BY DEF HandleAck
<1>7. m.lease.t0 # NotGiven => t0 = m.lease.t0
  OBVIOUS
<1> HIDE DEF l, t0, t1, t2
<1>8. /\ e \in Client /\ e.offered = m.ip /\ e.state = d.state /\ e.sent = d.sent
      /\ e.took = d.took
      /\ e.xid = d.xid /\ e.myxid = d.myxid /\ e.timer = d.timer /\ e.lease = l
      /\ e.t0 = d.t0 /\ e.t1 = d.t1 /\ e.t2 = d.t2 /\ e.used = d.used
      /\ e.pcb = d.pcb /\ e.refs = d.refs /\ e.addr = d.addr
  BY <1>1, <1>5 DEF Client
<1> QED
  BY <1>5, <1>6, <1>7, <1>8

LEMMA BindIs ==
  ASSUME NEW d \in Client
  PROVE  LET e == Bind(d)
         IN  /\ e \in Client /\ e.state = "BOUND" /\ e.offered = d.offered
             /\ e.sent = d.sent /\ e.took = d.took /\ e.xid = d.xid /\ e.myxid = d.myxid
             /\ e.pcb = d.pcb /\ e.refs = d.refs /\ e.addr = d.offered
             /\ e.used = 0 /\ e.t0 = CoarseTicks(d.lease.t0) /\ 0 < e.t0
             /\ e.lease = d.lease
<1> DEFINE b  == SetState(d, "BOUND")
           t0 == CoarseTicks(d.lease.t0)
           t1 == CoarseTicks(d.lease.t1)
           t2 == CoarseTicks(d.lease.t2)
           e  == [b EXCEPT !.used = 0, !.t0 = t0, !.t1 = t1, !.t2 = t2,
                           !.t2limit = t2, !.addr = d.offered]
<1>1. /\ b \in Client /\ b.state = "BOUND" /\ Kept(d, b) /\ b.offered = d.offered
      /\ b.xid = d.xid /\ b.myxid = d.myxid /\ b.sent = d.sent /\ b.took = d.took
  BY SetStateIs DEF States
<1>2. d.lease.t0 \in Nat /\ d.lease.t1 \in Nat /\ d.lease.t2 \in Nat /\ d.offered \in IP
  BY DEF Client, Seconds
<1>3. t0 \in 1 .. MaxU16 /\ t1 \in 1 .. MaxU16 /\ t2 \in 1 .. MaxU16
  BY <1>2, CoarseTicksIs
<1>4. Bind(d) = e
  BY DEF Bind
<1> HIDE DEF b, t0, t1, t2
<1>5. /\ t0 \in 0 .. MaxU16 /\ 0 < t0 /\ t1 \in 0 .. MaxU16 /\ t2 \in 0 .. MaxU16
      /\ 0 \in 0 .. MaxU16
  <2>1. MaxU16 \in Nat
    BY Sizes
  <2> QED
    BY <1>3, <2>1
<1>6. /\ e \in Client /\ e.state = b.state /\ e.offered = b.offered
      /\ e.sent = b.sent /\ e.took = b.took /\ e.xid = b.xid /\ e.myxid = b.myxid
      /\ e.pcb = b.pcb /\ e.refs = b.refs /\ e.addr = d.offered
      /\ e.used = 0 /\ e.t0 = t0 /\ e.lease = b.lease
  BY <1>1, <1>2, <1>5 DEF Client
<1> HIDE DEF e
<1> QED
  BY <1>1, <1>4, <1>5, <1>6 DEF Kept, t0

\* No timer runs for a lease.
NoTimers(e) == e.t0 = 0 /\ e.t1 = 0 /\ e.t2 = 0 /\ e.used = 0

LEMMA DropPcbIs ==
  ASSUME NEW d \in Client, d.refs = IF d.pcb THEN 1 ELSE 0
  PROVE  LET e == DropPcb(d)
         IN  /\ e \in Client /\ e.pcb = FALSE /\ e.refs = 0
             /\ e.state = d.state /\ e.offered = d.offered /\ e.sent = d.sent
             /\ e.took = d.took
             /\ e.xid = d.xid /\ e.myxid = d.myxid /\ e.timer = d.timer
             /\ e.addr = d.addr /\ (NoTimers(d) => NoTimers(e))
<1>1. CASE d.pcb
  <2>1. d.refs = 1 /\ d.refs - 1 = 0 /\ 0 \in 0 .. 1
    BY <1>1
  <2>2. DropPcb(d) = [d EXCEPT !.pcb = FALSE, !.refs = 0]
    BY <1>1, <2>1 DEF DropPcb, Client
  <2> QED
    BY <2>1, <2>2 DEF Client, NoTimers
<1>2. CASE ~d.pcb
  <2>1. d.pcb = FALSE /\ d.refs = 0
    BY <1>2 DEF Client
  <2>2. DropPcb(d) = d
    BY <1>2 DEF DropPcb
  <2> QED
    BY <2>1, <2>2 DEF NoTimers
<1> QED
  BY <1>1, <1>2

\* A client that owns what it took.
Counted(d) == d \in Client /\ d.refs = IF d.pcb THEN 1 ELSE 0

\* dhcp_release_and_stop: everything is given back, the address in a message of
\* its own.
LEMMA ReleaseAndStopIs ==
  ASSUME NEW d, Counted(d), d.state # "OFF", NEW p \in Pbuf
  PROVE  LET e == ReleaseAndStop(d, p)
         IN  /\ e \in Client /\ e.state = "OFF" /\ NoTimers(e) /\ e.offered = None
             /\ e.pcb = FALSE /\ e.refs = 0
             /\ e.addr = IF Supplied(d) THEN None ELSE d.addr
             /\ p = NoPbuf \/ ~Supplied(d) =>
                  e.sent = d.sent /\ e.took = d.took /\ e.xid = d.xid /\ e.myxid = d.myxid
             /\ p # NoPbuf /\ Supplied(d) =>
                  /\ e.xid \in e.took /\ e.myxid = e.xid
                  /\ \A m \in e.sent : m \in d.sent \/ (m.type = "RELEASE" /\ m.xid = e.xid)
<1> DEFINE a   == [d EXCEPT !.offered = None, !.lease = NoLease, !.t0 = 0, !.t1 = 0,
                            !.t2 = 0, !.used = 0]
           off == SetState(a, "OFF")
           f   == CreateMsg(off, "RELEASE", p)
           g   == [f EXCEPT !.addr = None]
<1>1. /\ a \in Client /\ NoTimers(a) /\ a.offered = None /\ a.state = d.state
      /\ a.pcb = d.pcb /\ a.refs = d.refs /\ a.addr = d.addr /\ a.sent = d.sent
      /\ a.took = d.took
      /\ a.xid = d.xid /\ a.myxid = d.myxid
  <2>1. 0 \in 0 .. MaxU16 /\ None \in IP
    BY Sizes DEF IP
  <2>2. NoLease \in Seconds
    BY LeaseTypes
  <2> QED
    BY <2>1, <2>2 DEF Counted, Client, NoTimers
<1> HIDE DEF a
<1>2. /\ off \in Client /\ off.state = "OFF" /\ Kept(a, off) /\ off.offered = a.offered
      /\ off.xid = a.xid /\ off.myxid = a.myxid /\ off.sent = a.sent
      /\ off.took = a.took /\ off.tries = 0
  BY <1>1, SetStateIs DEF States
<1> HIDE DEF off
<1>3. /\ f \in Client /\ Kept(off, f) /\ f.state = off.state /\ f.offered = off.offered
      /\ p = NoPbuf => f = off
      /\ p # NoPbuf => f.sent = off.sent \cup {Msg("RELEASE", f.myxid, Asks(off, "RELEASE"))}
      /\ p # NoPbuf => f.myxid = f.xid /\ f.xid \in f.took
  BY <1>2, CreateMsgIs DEF ClientTypes
<1> HIDE DEF f
<1>4. /\ g \in Client /\ g.addr = None /\ g.state = f.state /\ g.offered = f.offered
      /\ g.pcb = f.pcb /\ g.refs = f.refs /\ g.sent = f.sent
      /\ g.took = f.took /\ g.xid = f.xid
      /\ g.myxid = f.myxid /\ (NoTimers(f) => NoTimers(g))
  BY <1>3 DEF Client, IP, NoTimers
<1> HIDE DEF g
<1>5. NoTimers(off) /\ NoTimers(f)
  BY <1>1, <1>2, <1>3 DEF Kept, NoTimers
<1>6. Counted(off) /\ Counted(g)
  BY <1>1, <1>2, <1>3, <1>4 DEF Kept, Counted
<1>7. off.addr = d.addr
  BY <1>1, <1>2 DEF Kept
<1>8. CASE Supplied(d)
  <2>1. ReleaseAndStop(d, p) = DropPcb(g)
    BY <1>8 DEF ReleaseAndStop, a, off, f, g
  <2>2. /\ DropPcb(g) \in Client /\ DropPcb(g).pcb = FALSE /\ DropPcb(g).refs = 0
        /\ DropPcb(g).state = g.state /\ DropPcb(g).offered = g.offered
        /\ DropPcb(g).sent = g.sent /\ DropPcb(g).took = g.took /\ DropPcb(g).xid = g.xid
        /\ DropPcb(g).myxid = g.myxid /\ DropPcb(g).addr = g.addr
        /\ NoTimers(g) => NoTimers(DropPcb(g))
    BY <1>6, DropPcbIs DEF Counted
  <2> DEFINE e == DropPcb(g)
  <2> HIDE DEF e
  <2>3. p # NoPbuf => \A m \in e.sent : m \in d.sent \/ (m.type = "RELEASE" /\ m.xid = e.xid)
    BY <1>1, <1>2, <1>3, <1>4, <2>2 DEF Msg, e
  <2> QED
    BY <1>1, <1>2, <1>3, <1>4, <1>5, <1>8, <2>1, <2>2, <2>3 DEF e
<1>9. CASE ~Supplied(d)
  <2>1. ReleaseAndStop(d, p) = DropPcb(off)
    BY <1>9 DEF ReleaseAndStop, a, off
  <2>2. /\ DropPcb(off) \in Client /\ DropPcb(off).pcb = FALSE /\ DropPcb(off).refs = 0
        /\ DropPcb(off).state = off.state /\ DropPcb(off).offered = off.offered
        /\ DropPcb(off).sent = off.sent
        /\ DropPcb(off).took = off.took /\ DropPcb(off).xid = off.xid
        /\ DropPcb(off).myxid = off.myxid /\ DropPcb(off).addr = off.addr
        /\ NoTimers(off) => NoTimers(DropPcb(off))
    BY <1>6, DropPcbIs DEF Counted
  <2> QED
    BY <1>1, <1>2, <1>5, <1>7, <1>9, <2>1, <2>2
<1> QED
  BY <1>8, <1>9

LEMMA ClearedIs ==
  ASSUME NEW d, Counted(d)
  PROVE  LET e == Cleared(d)
         IN  /\ e \in Client /\ e.state = "OFF" /\ NoTimers(e) /\ e.offered = None
             /\ e.pcb = FALSE /\ e.refs = 0 /\ e.addr = d.addr /\ e.sent = d.sent
             /\ e.xid = d.xid /\ e.myxid = 0 /\ e.took = d.took \cup {0}
<1> DEFINE a == DropPcb(d)
           e == [a EXCEPT !.state = "OFF", !.tries = 0, !.timer = FALSE, !.myxid = 0,
                          !.took = @ \cup {0}, !.offered = None, !.lease = NoLease,
                          !.t0 = 0, !.t1 = 0, !.t2 = 0, !.t2limit = 0, !.used = 0]
<1>1. /\ a \in Client /\ a.pcb = FALSE /\ a.refs = 0 /\ a.addr = d.addr
      /\ a.sent = d.sent /\ a.took = d.took /\ a.xid = d.xid
  BY DropPcbIs DEF Counted
<1>2. Cleared(d) = e
  BY DEF Cleared
<1> HIDE DEF a
<1>3. /\ 0 \in 0 .. MaxU16 /\ None \in IP /\ 0 \in 0 .. MaxTries /\ "OFF" \in States
      /\ 0 \in Xid
  BY Sizes, Xids DEF IP, States
<1>4. NoLease \in Seconds
  BY LeaseTypes
<1>5. /\ e \in Client /\ e.state = "OFF" /\ NoTimers(e) /\ e.offered = None
      /\ e.pcb = a.pcb /\ e.refs = a.refs /\ e.addr = a.addr /\ e.sent = a.sent
      /\ e.xid = a.xid /\ e.myxid = 0 /\ e.took = a.took \cup {0}
  <2> DEFINE f == [a EXCEPT !.state = "OFF", !.tries = 0, !.timer = FALSE,
                            !.myxid = 0, !.took = @ \cup {0}, !.offered = None, !.lease = NoLease]
  <2>1. /\ f \in Client /\ f.state = "OFF" /\ f.offered = None /\ f.myxid = 0
        /\ f.pcb = a.pcb /\ f.refs = a.refs /\ f.addr = a.addr /\ f.sent = a.sent
        /\ f.xid = a.xid /\ f.took = a.took \cup {0}
    BY <1>1, <1>3, <1>4 DEF Client
  <2>2. e = [f EXCEPT !.t0 = 0, !.t1 = 0, !.t2 = 0, !.t2limit = 0, !.used = 0]
    OBVIOUS
  <2> HIDE DEF e, f
  <2>3. e \in Client
    BY <1>3, <2>1, <2>2 DEF Client
  <2>4. /\ e.state = f.state /\ e.offered = f.offered /\ e.myxid = f.myxid
        /\ e.pcb = f.pcb /\ e.refs = f.refs /\ e.addr = f.addr /\ e.sent = f.sent
        /\ e.xid = f.xid /\ e.took = f.took
    BY <2>1, <2>2 DEF Client
  <2>5. NoTimers(e)
    BY <2>1, <2>2 DEF Client, NoTimers
  <2> QED
    BY <2>1, <2>3, <2>4, <2>5
<1> HIDE DEF e
<1> QED
  BY <1>1, <1>2, <1>5

\* dhcp_start: from nothing, into the first state or off.
LEMMA StartIs ==
  ASSUME NEW d, Counted(d), NEW p \in Pbuf, NEW mem \in BOOLEAN
  PROVE  LET e == Start(d, p, mem)
         IN  /\ ClientOk(e) /\ Armed(e) /\ NoTimers(e) /\ e.addr = d.addr
             /\ e.state \in {"OFF", "INIT", "SELECTING"} /\ (e.state = "INIT" => ~link)
             /\ \A m \in e.sent : m \in d.sent \/ (m.type = "DISCOVER" /\ m.xid = e.xid)
             /\ e.xid = d.xid \/ e.xid \in e.took
             /\ d.took \subseteq e.took
             /\ e.myxid # e.xid =>
                  e.sent = d.sent /\ e.xid = d.xid /\ e.myxid \in e.took
<1> DEFINE a == Cleared(d)
           b == [a EXCEPT !.pcb = TRUE, !.refs = @ + 1]
           g == Discover(b, p)
           i == SetState(b, "INIT")
<1>1. /\ a \in Client /\ a.state = "OFF" /\ NoTimers(a) /\ a.offered = None
      /\ a.pcb = FALSE /\ a.refs = 0 /\ a.addr = d.addr /\ a.sent = d.sent
      /\ a.xid = d.xid /\ a.myxid = 0 /\ a.took = d.took \cup {0}
  BY ClearedIs
<1> HIDE DEF a
<1>2. /\ b \in Client /\ b.state = "OFF" /\ NoTimers(b) /\ b.offered = None
      /\ b.pcb = TRUE /\ b.refs = 1 /\ b.addr = d.addr /\ b.sent = d.sent
      /\ b.xid = d.xid /\ b.myxid = 0 /\ b.took = d.took \cup {0}
  <2>1. a.refs + 1 = 1 /\ 1 \in 0 .. 1
    BY <1>1
  <2>2. b = [a EXCEPT !.pcb = TRUE, !.refs = 1]
    BY <1>1, <2>1 DEF Client
  <2> HIDE DEF b
  <2> QED
    BY <1>1, <2>1, <2>2 DEF Client, NoTimers
<1> HIDE DEF b
<1>3. CASE ~mem
  <2>1. Start(d, p, mem) = a
    BY <1>3 DEF Start, a
  <2>2. ClientOk(a)
    BY <1>1 DEF ClientOk, NoTimers, Supplied, Later
  <2> QED
    BY <1>1, <2>1, <2>2 DEF Armed, Retried
<1>4. CASE mem /\ link
  <2>1. Start(d, p, mem) = g
    BY <1>4 DEF Start, a, b
  <2>2. /\ Sent(b, g, "DISCOVER", p) /\ g.state = "SELECTING" /\ g.offered = None
        /\ p # NoPbuf => g.myxid = g.xid
    BY <1>2, DiscoverIs
  <2> HIDE DEF g
  <2>3. NoTimers(g) /\ g.pcb = TRUE /\ g.refs = 1 /\ g.addr = d.addr
    BY <1>2, <2>2 DEF Sent, Kept, NoTimers
  <2>4. ClientOk(g)
    BY <1>2, <2>2, <2>3 DEF ClientOk, NoTimers, Supplied, Later, Sent
  <2>5. /\ g.timer = TRUE /\ d.took \subseteq g.took /\ (g.xid = d.xid \/ g.xid \in g.took)
        /\ g.myxid # g.xid => g.sent = d.sent /\ g.xid = d.xid /\ g.myxid \in g.took
    BY <1>2, <2>2 DEF Sent
  <2>6. \A m \in g.sent : m \in d.sent \/ (m.type = "DISCOVER" /\ m.xid = g.xid)
    BY <1>2, <2>2 DEF Sent
  <2> QED
    BY <2>1, <2>2, <2>3, <2>4, <2>5, <2>6 DEF Armed, Retried
<1>5. CASE mem /\ ~link
  <2>1. Start(d, p, mem) = i
    BY <1>5 DEF Start, a, b
  <2>2. /\ i \in Client /\ i.state = "INIT" /\ Kept(b, i) /\ i.offered = b.offered
        /\ i.xid = b.xid /\ i.myxid = b.myxid /\ i.sent = b.sent /\ i.took = b.took
    BY <1>2, SetStateIs DEF States
  <2> HIDE DEF i
  <2>3. NoTimers(i) /\ i.pcb = TRUE /\ i.refs = 1 /\ i.addr = d.addr
    BY <1>2, <2>2 DEF Kept, NoTimers
  <2>4. ClientOk(i)
    BY <1>2, <2>2, <2>3 DEF ClientOk, NoTimers, Supplied, Later
  <2> QED
    BY <1>2, <1>5, <2>1, <2>2, <2>3, <2>4 DEF Armed, Retried
<1> QED
  BY <1>3, <1>4, <1>5

-----------------------------------------------------------------------------
(* What a handler leaves behind. *)

\* As long as ids are fresh: the address a client in a later state has was offered
\* to it, or is in an answer to its transaction that has just come.
Standing(a) ==
  fresh => \/ c.state \in Later /\ a = c.offered
           \/ \E m \in wire : m.type \in {"OFFER", "ACK"} /\ m.xid = c.xid /\ a = m.ip

\* The address is being checked or has just been granted, for l seconds.
Granted(a, l) ==
  fresh => \/ c.state = "CHECKING" /\ a = c.offered /\ l = c.lease.t0
           \/ \E m \in wire : /\ m.type = "ACK" /\ m.xid = c.xid /\ a = m.ip
                              /\ m.lease.t0 # NotGiven => l = m.lease.t0

\* The timers of a lease run on, n periods later, or begin with the lease.
Counts(d, n) ==
  d.t0 > 0 =>
    \/ d.t0 = c.t0 /\ d.used = c.used + n /\ d.addr \in {c.addr, None}
    \/ /\ d.state = "BOUND" /\ d.addr = d.offered /\ d.used = 0
       /\ d.t0 = CoarseTicks(d.lease.t0) /\ Granted(d.offered, d.lease.t0)

SendOk(m) ==
  /\ m.type \in ClientTypes \cup {"ARP"}
  /\ m.type = "DECLINE" => m.ip \in Addrs

\* The id is as before or one that was taken.  If it is not the transaction's,
\* nothing that goes out has the transaction's id.
Ids(d) ==
  /\ d.xid = c.xid \/ d.xid \in d.took
  /\ fresh => \/ d.myxid = d.xid
              \/ /\ d.state \notin Later
                 /\ d.myxid \in d.took \/ (d.myxid = c.myxid /\ d.xid = c.xid)
                 /\ \A m \in d.sent : m.type # "ARP" => m.xid # d.myxid

\* The client d after a handler.  What it gives back it gives back under an id it
\* took, with no address in hand.
Outcome(d, n) ==
  /\ ClientOk(d) /\ Armed(d) /\ (d.state = "INIT" => ~link)
  /\ Ids(d)
  /\ \A m \in d.sent : SendOk(m)
  /\ \A m \in d.sent : m.type \in GiveBacks => d.xid \in d.took /\ d.state \notin Later
  /\ \A m \in d.sent : m.type = "RELEASE" => d.t0 = 0
  /\ d.state \in Later => Standing(d.offered)
  /\ d.state = "CHECKING" => Granted(d.offered, d.lease.t0)
  /\ Counts(d, n)

\* The client d inside a handler, before it sends: its pcb, its transaction and
\* its lease are c's.
Base(d, n) ==
  /\ d \in Client /\ d.sent = {} /\ d.took = {} /\ d.pcb = c.pcb /\ d.refs = c.refs
  /\ d.xid = c.xid /\ d.myxid = c.myxid /\ d.t0 = c.t0
  /\ d.addr \in {c.addr, None}
  /\ d.t0 = 0 => d.used = 0 /\ d.t1 = 0 /\ d.t2 = 0
  /\ d.t0 > 0 => d.used = c.used + n /\ d.used < d.t0

\* Nothing was sent, the state is as before.
LEMMA StillOut ==
  ASSUME DriveInv, NEW d, NEW n, Base(d, n), Armed(d),
         d.state = c.state, d.offered = c.offered, d.lease = c.lease
  PROVE  Outcome(d, n)
<1>1. ClientOk(d)
  BY DEF DriveInv, ClientOk, Base, Supplied
<1>2. d.state = "INIT" => ~link
  BY DEF DriveInv
<1>3. Counts(d, n)
  BY DEF Counts, Base
<1>4. d.sent = {} /\ d.xid = c.xid /\ d.myxid = c.myxid
  BY DEF Base
<1>5. Ids(d)
  BY <1>4 DEF Ids, DriveInv, OwnId
<1> QED
  BY <1>1, <1>2, <1>3, <1>4, <1>5 DEF Outcome, Standing, Granted

LEMMA DiscoverOut ==
  ASSUME DriveInv, NEW d, NEW n, Base(d, n), c.pcb, NEW p \in Pbuf
  PROVE  Outcome(Discover(d, p), n) /\ Discover(d, p).state = "SELECTING"
<1> DEFINE e == Discover(d, p)
<1>1. /\ Sent(d, e, "DISCOVER", p) /\ e.state = "SELECTING" /\ e.offered = None
      /\ p # NoPbuf => e.myxid = e.xid
  BY DiscoverIs DEF Base
<1> HIDE DEF e
<1>2. d.sent = {} /\ d.took = {} /\ c.refs = 1 /\ c.myxid \in {c.xid, 0} /\ c.pcb = TRUE
  BY DEF Base, DriveInv, ClientOk, Client
<1>3. /\ e \in Client /\ e.t0 = c.t0 /\ e.used = d.used /\ e.t1 = d.t1 /\ e.t2 = d.t2
      /\ e.pcb = TRUE /\ e.refs = 1 /\ e.addr = d.addr /\ e.timer = TRUE
  BY <1>1, <1>2 DEF Sent, Kept, Base
<1>4. e.myxid \in {e.xid, 0}
  BY <1>1, <1>2 DEF Sent, Base
<1>5. ClientOk(e)
  BY <1>1, <1>3, <1>4 DEF ClientOk, Base, Supplied, Later
<1>6. \A m \in e.sent : m.type = "DISCOVER" /\ m.xid = e.xid
  BY <1>1, <1>2 DEF Sent
<1>7. Counts(e, n)
  BY <1>3 DEF Counts, Base
<1>8. \A m \in e.sent : SendOk(m) /\ m.type \notin GiveBacks /\ m.type # "RELEASE"
  BY <1>6 DEF SendOk, GiveBacks, ClientTypes
<1>9. Ids(e)
  <2>1. d.xid = c.xid /\ d.myxid = c.myxid
    BY DEF Base
  <2>2. p = NoPbuf => e.sent = {} /\ e.xid = c.xid /\ e.myxid = c.myxid
    BY <1>1, <1>2, <2>1 DEF Sent
  <2>3. e.xid = c.xid \/ e.xid \in e.took
    BY <1>1, <2>1 DEF Sent
  <2> QED
    BY <1>1, <2>2, <2>3 DEF Ids, Later
<1> QED
  BY <1>1, <1>3, <1>5, <1>7, <1>8, <1>9 DEF Outcome, Armed, Later, e

\* In a later state: the address is standing, the transaction has the last id.
Holding(d) ==
  d.offered \in Addrs /\ (fresh => d.myxid = d.xid) /\ Standing(d.offered)

LEMMA RequestOut ==
  ASSUME DriveInv, NEW d, NEW n, Base(d, n), c.pcb, Holding(d), NEW p \in Pbuf,
         NEW s \in {"REQUESTING", "REBOOTING", "RENEWING", "REBINDING"},
         s \in {"RENEWING", "REBINDING"} => 0 < d.t0
  PROVE  /\ Outcome(Request(d, s, p), n) /\ Request(d, s, p).t0 = d.t0
         /\ Request(d, s, p).state = s
<1> DEFINE e == Request(d, s, p)
<1>1. Sent(d, e, "REQUEST", p) /\ e.state = s /\ e.offered = d.offered
  BY RequestIs DEF Base, States
<1> HIDE DEF e
<1>2. d.sent = {} /\ d.took = {} /\ c.refs = 1 /\ c.myxid \in {c.xid, 0} /\ c.pcb = TRUE
  BY DEF Base, DriveInv, ClientOk, Client
<1>3. /\ e \in Client /\ e.t0 = c.t0 /\ e.used = d.used /\ e.t1 = d.t1 /\ e.t2 = d.t2
      /\ e.pcb = TRUE /\ e.refs = 1 /\ e.addr = d.addr /\ e.timer = TRUE /\ d.t0 = c.t0
  BY <1>1, <1>2 DEF Sent, Kept, Base
<1>4. e.myxid \in {e.xid, 0} /\ Ids(e)
  <2>1. d.xid = c.xid /\ d.myxid \in {d.xid, 0} /\ (fresh => d.myxid = d.xid)
    BY <1>2 DEF Base, Holding
  <2>2. /\ e.xid = d.xid \/ e.xid \in e.took
        /\ e.myxid = e.xid \/ (e.myxid = d.myxid /\ e.xid = d.xid)
    BY <1>1 DEF Sent
  <2> QED
    BY <2>1, <2>2 DEF Ids
<1>5. ClientOk(e)
  BY <1>1, <1>3, <1>4 DEF ClientOk, Base, Supplied, Later, Holding
<1>6. \A m \in e.sent : m.type = "REQUEST" /\ m.xid = e.myxid
  BY <1>1, <1>2 DEF Sent
<1>7. Counts(e, n)
  BY <1>3 DEF Counts, Base
<1>8. \A m \in e.sent : SendOk(m) /\ m.type \notin GiveBacks /\ m.type # "RELEASE"
  BY <1>6 DEF SendOk, GiveBacks, ClientTypes
<1>9. Standing(e.offered) /\ e.state # "CHECKING" /\ e.state # "INIT"
  BY <1>1 DEF Holding
<1> QED
  BY <1>1, <1>3, <1>4, <1>5, <1>7, <1>8, <1>9 DEF Outcome, Armed, e

\* The renewal and rebinding timers of a running lease may be set anew.
LEMMA TimerOut ==
  ASSUME NEW d, NEW n, Outcome(d, n), 0 < d.t0, NEW x \in 0 .. MaxU16
  PROVE  Outcome([d EXCEPT !.t1 = x], n) /\ Outcome([d EXCEPT !.t2 = x], n)
<1>1. SUFFICES ASSUME NEW e \in {[d EXCEPT !.t1 = x], [d EXCEPT !.t2 = x]}
               PROVE  Outcome(e, n)
  OBVIOUS
<1>2. d \in Client
  BY DEF Outcome, ClientOk
<1>3. /\ e \in Client /\ e.state = d.state /\ e.timer = d.timer /\ e.sent = d.sent
      /\ e.took = d.took
      /\ e.xid = d.xid /\ e.myxid = d.myxid /\ e.offered = d.offered /\ e.lease = d.lease
      /\ e.t0 = d.t0 /\ e.used = d.used /\ e.addr = d.addr /\ e.pcb = d.pcb
      /\ e.refs = d.refs
  <2>1. CASE e = [d EXCEPT !.t1 = x]
    BY <1>2, <2>1 DEF Client
  <2>2. CASE e = [d EXCEPT !.t2 = x]
    BY <1>2, <2>2 DEF Client
  <2> QED
    BY <2>1, <2>2
<1>4. ClientOk(e)
  <2>1. e.t0 # 0
    BY <1>2, <1>3, Sizes DEF Client
  <2> QED
    BY <1>3, <2>1 DEF Outcome, ClientOk, Supplied
<1>5. Armed(e) /\ Counts(e, n) /\ Ids(e)
  BY <1>3 DEF Outcome, Armed, Counts, Ids
<1> QED
  BY <1>3, <1>4, <1>5 DEF Outcome

\* The client itself, with its timer or its tries changed, is a base.
LEMMA SameBase ==
  ASSUME DriveInv
  PROVE  /\ Base(c, 0) /\ c \in Client
         /\ Base([c EXCEPT !.timer = FALSE], 0) /\ Base([c EXCEPT !.tries = 0], 0)
         /\ c.state \in Later => Holding(c)
         /\ Supplied(c) => 0 < c.t0
         /\ c.pcb <=> c.state # "OFF"
<1>1. /\ ClientOk(c) /\ c.sent = {} /\ c.took = {} /\ c \in Client
      /\ c.used \in Nat /\ 0 \in 0 .. MaxTries
      /\ c.t0 \in Nat
  BY Sizes DEF DriveInv, ClientOk, Client
<1>2. Base(c, 0)
  BY <1>1 DEF Base, ClientOk
<1>3. ASSUME NEW d \in {[c EXCEPT !.timer = FALSE], [c EXCEPT !.tries = 0]}
      PROVE  Base(d, 0)
  <2>1. /\ d \in Client /\ d.sent = c.sent
        /\ d.took = c.took /\ d.pcb = c.pcb /\ d.refs = c.refs
        /\ d.xid = c.xid /\ d.myxid = c.myxid /\ d.t0 = c.t0 /\ d.addr = c.addr
        /\ d.used = c.used /\ d.t1 = c.t1 /\ d.t2 = c.t2
    <3>1. CASE d = [c EXCEPT !.timer = FALSE]
      BY <1>1, <3>1 DEF Client
    <3>2. CASE d = [c EXCEPT !.tries = 0]
      BY <1>1, <3>2 DEF Client
    <3> QED
      BY <3>1, <3>2
  <2> QED
    BY <1>1, <1>2, <2>1 DEF Base
<1>4. c.state \in Later => Holding(c)
  BY <1>1 DEF ClientOk, Holding, Standing, DriveInv, OwnId
<1> QED
  BY <1>1, <1>2, <1>3, <1>4 DEF ClientOk

LEMMA DeclineOut ==
  ASSUME DriveInv, c.state = "CHECKING", NEW p \in Pbuf
  PROVE  Outcome(Decline(c, p), 0)
<1> DEFINE e == Decline(c, p)
<1>1. Base(c, 0) /\ c \in Client /\ Holding(c) /\ c.pcb = TRUE /\ c.refs = 1
  BY SameBase DEF Later, DriveInv, ClientOk, Client
<1>2. /\ Sent(c, e, "DECLINE", p) /\ e.state = "BACKING_OFF" /\ e.offered = c.offered
      /\ p # NoPbuf => e.myxid = e.xid /\ e.xid \in e.took
      /\ p # NoPbuf => \A m \in e.sent : m \in c.sent \/ m.ip = c.offered
  BY <1>1, DeclineIs
<1> HIDE DEF e
<1>3. /\ e \in Client /\ e.t0 = c.t0 /\ e.used = c.used /\ e.t1 = c.t1 /\ e.t2 = c.t2
      /\ e.pcb = TRUE /\ e.refs = 1 /\ e.addr = c.addr /\ e.timer = TRUE
  BY <1>1, <1>2 DEF Sent, Kept
<1>4. e.myxid \in {e.xid, 0}
  BY <1>1, <1>2 DEF Sent, DriveInv, ClientOk
<1>5. ClientOk(e)
  BY <1>1, <1>2, <1>3, <1>4 DEF ClientOk, Base, Supplied, Later
<1>6. Counts(e, 0)
  BY <1>1, <1>3 DEF Counts, Base
<1>7. \A m \in e.sent : /\ m.type = "DECLINE" /\ m.ip \in Addrs /\ e.xid \in e.took
  BY <1>1, <1>2 DEF Sent, Base, Holding
<1>8. Ids(e)
  <2>1. p = NoPbuf => e.xid = c.xid /\ e.myxid = c.myxid
    BY <1>1, <1>2 DEF Sent
  <2> QED
    BY <1>1, <1>2, <2>1 DEF Ids, Holding
<1>9. \A m \in e.sent : SendOk(m) /\ m.type # "RELEASE"
  BY <1>7 DEF SendOk, ClientTypes
<1> QED
  BY <1>2, <1>3, <1>5, <1>6, <1>7, <1>8, <1>9 DEF Outcome, Armed, Later, e

LEMMA CheckOut ==
  ASSUME DriveInv, NEW d, Base(d, 0), c.pcb, Holding(d), Granted(d.offered, d.lease.t0)
  PROVE  Outcome(Check(d), 0)
<1> DEFINE e == Check(d)
<1>1. /\ e \in Client /\ Kept(d, e) /\ e.timer = TRUE /\ e.state = "CHECKING"
      /\ e.offered = d.offered /\ e.xid = d.xid /\ e.myxid = d.myxid
      /\ \A m \in e.sent : m \in d.sent \/ (m.type = "ARP" /\ m.xid = 0)
  BY CheckIs DEF Base
<1> HIDE DEF e
<1>2. d.sent = {} /\ d.took = {} /\ c.refs = 1 /\ c.pcb = TRUE /\ c.myxid \in {c.xid, 0}
  BY DEF Base, DriveInv, ClientOk, Client
<1>3. /\ e.t0 = c.t0 /\ e.used = d.used /\ e.t1 = d.t1 /\ e.t2 = d.t2
      /\ e.pcb = TRUE /\ e.refs = 1 /\ e.addr = d.addr /\ e.lease = d.lease
  BY <1>1, <1>2 DEF Kept, Base
<1>4. ClientOk(e)
  BY <1>1, <1>2, <1>3 DEF ClientOk, Base, Supplied, Later, Holding
<1>5. Counts(e, 0)
  BY <1>3 DEF Counts, Base
<1>6. \A m \in e.sent : SendOk(m) /\ m.type \notin GiveBacks /\ m.type # "RELEASE"
  BY <1>1, <1>2 DEF SendOk, GiveBacks
<1>7. Standing(e.offered) /\ Granted(e.offered, e.lease.t0)
  BY <1>1, <1>3 DEF Holding
<1>8. Ids(e)
  BY <1>1 DEF Ids, Holding, Base
<1> QED
  BY <1>1, <1>4, <1>5, <1>6, <1>7, <1>8 DEF Outcome, Armed, e

LEMMA BindOut ==
  ASSUME DriveInv, NEW d, Base(d, 0), c.pcb, Holding(d), Granted(d.offered, d.lease.t0)
  PROVE  Outcome(Bind(d), 0)
<1> DEFINE e == Bind(d)
<1>1. /\ e \in Client /\ e.state = "BOUND" /\ e.offered = d.offered
      /\ e.sent = d.sent /\ e.took = d.took /\ e.xid = d.xid /\ e.myxid = d.myxid
      /\ e.pcb = d.pcb /\ e.refs = d.refs /\ e.addr = d.offered
      /\ e.used = 0 /\ e.t0 = CoarseTicks(d.lease.t0) /\ 0 < e.t0
      /\ e.lease = d.lease
  BY BindIs DEF Base
<1> HIDE DEF e
<1>2. d.sent = {} /\ d.took = {} /\ c.refs = 1 /\ c.pcb = TRUE /\ c.myxid \in {c.xid, 0}
  BY DEF Base, DriveInv, ClientOk, Client
<1>3. /\ e.t0 # 0 /\ e.sent = {}
      /\ e.pcb = TRUE /\ e.refs = 1 /\ e.myxid \in {e.xid, 0}
  <2>1. e.t0 # 0
    BY <1>1, Sizes DEF Client
  <2> QED
    BY <1>1, <1>2, <2>1 DEF Base
<1>4. ClientOk(e)
  BY <1>1, <1>3 DEF ClientOk, Supplied, Later, Holding
<1>5. Standing(e.offered) /\ Granted(e.offered, e.lease.t0) /\ e.t0 = CoarseTicks(e.lease.t0)
  BY <1>1 DEF Holding
<1>6. Counts(e, 0)
  BY <1>1, <1>5 DEF Counts
<1>7. Ids(e)
  BY <1>1 DEF Ids, Holding, Base
<1> QED
  BY <1>1, <1>3, <1>4, <1>5, <1>6, <1>7 DEF Outcome, Armed, Retried, e

LEMMA StartOut ==
  ASSUME DriveInv, NEW p \in Pbuf, NEW mem \in BOOLEAN
  PROVE  Outcome(Start(c, p, mem), 0)
<1> DEFINE e == Start(c, p, mem)
<1>1. Counted(c) /\ c.sent = {} /\ c.took = {}
  BY DEF DriveInv, ClientOk, Counted
<1>2. /\ ClientOk(e) /\ Armed(e) /\ NoTimers(e) /\ e.addr = c.addr
      /\ e.state \in {"OFF", "INIT", "SELECTING"} /\ (e.state = "INIT" => ~link)
      /\ \A m \in e.sent : m \in c.sent \/ (m.type = "DISCOVER" /\ m.xid = e.xid)
      /\ e.xid = c.xid \/ e.xid \in e.took
      /\ e.myxid # e.xid => e.sent = c.sent /\ e.myxid \in e.took
  BY <1>1, StartIs
<1> HIDE DEF e
<1>3. Ids(e)
  BY <1>1, <1>2 DEF Ids, Later
<1>4. \A m \in e.sent : SendOk(m) /\ m.type \notin GiveBacks /\ m.type # "RELEASE"
  BY <1>1, <1>2 DEF SendOk, GiveBacks, ClientTypes
<1>5. Counts(e, 0)
  BY <1>2 DEF Counts, NoTimers
<1> QED
  BY <1>2, <1>3, <1>4, <1>5 DEF Outcome, Later, e

LEMMA StopOut ==
  ASSUME DriveInv, NEW p \in Pbuf
  PROVE  Outcome(ReleaseAndStop(c, p), 0)
<1> DEFINE e == ReleaseAndStop(c, p)
<1>1. Counted(c) /\ c.sent = {} /\ c.took = {} /\ c \in Client /\ c.myxid \in {c.xid, 0}
  BY DEF DriveInv, ClientOk, Counted
<1>2. CASE c.state = "OFF"
  <2>1. e = c
    BY <1>2 DEF ReleaseAndStop
  <2>2. Outcome(c, 0)
    BY SameBase, StillOut DEF DriveInv
  <2> QED
    BY <2>1, <2>2
<1>3. CASE c.state # "OFF"
  <2>1. /\ e \in Client /\ e.state = "OFF" /\ NoTimers(e) /\ e.offered = None
        /\ e.pcb = FALSE /\ e.refs = 0
        /\ p = NoPbuf \/ ~Supplied(c) =>
             e.sent = c.sent /\ e.took = c.took /\ e.xid = c.xid /\ e.myxid = c.myxid
        /\ p # NoPbuf /\ Supplied(c) =>
             /\ e.xid \in e.took /\ e.myxid = e.xid
             /\ \A m \in e.sent : m \in c.sent \/ (m.type = "RELEASE" /\ m.xid = e.xid)
    BY <1>1, <1>3, ReleaseAndStopIs
  <2> HIDE DEF e
  <2>2. ClientOk(e)
    BY <1>1, <2>1 DEF ClientOk, NoTimers, Supplied, Later
  <2>3. Ids(e)
    BY <1>1, <2>1 DEF Ids, Later
  <2>4. \A m \in e.sent : m.type = "RELEASE" /\ e.xid \in e.took
    BY <1>1, <2>1
  <2>5. \A m \in e.sent : SendOk(m)
    BY <2>4 DEF SendOk, ClientTypes
  <2>6. Counts(e, 0) /\ e.t0 = 0
    BY <2>1 DEF Counts, NoTimers
  <2> QED
    BY <2>1, <2>2, <2>3, <2>4, <2>5, <2>6 DEF Outcome, Armed, Retried, Later, e
<1> QED
  BY <1>2, <1>3

\* The client gives everything back and starts again.
LEMMA RestartOut ==
  ASSUME NEW d, Counted(d), d.state # "OFF", d.sent = {}, d.xid = c.xid, NEW n,
         NEW p \in Pbuf, NEW q \in Pbuf, NEW mem \in BOOLEAN
  PROVE  Outcome(Start(ReleaseAndStop(d, p), q, mem), n)
<1> DEFINE a == ReleaseAndStop(d, p)
           e == Start(a, q, mem)
<1>1. /\ a \in Client /\ a.state = "OFF" /\ a.pcb = FALSE /\ a.refs = 0
      /\ p = NoPbuf \/ ~Supplied(d) => a.sent = d.sent /\ a.xid = d.xid
      /\ p # NoPbuf /\ Supplied(d) =>
           /\ a.xid \in a.took
           /\ \A m \in a.sent : m \in d.sent \/ (m.type = "RELEASE" /\ m.xid = a.xid)
  BY ReleaseAndStopIs
<1> HIDE DEF a
<1>2. Counted(a)
  BY <1>1 DEF Counted
<1>3. /\ ClientOk(e) /\ Armed(e) /\ NoTimers(e)
      /\ e.state \in {"OFF", "INIT", "SELECTING"} /\ (e.state = "INIT" => ~link)
      /\ \A m \in e.sent : m \in a.sent \/ (m.type = "DISCOVER" /\ m.xid = e.xid)
      /\ e.xid = a.xid \/ e.xid \in e.took
      /\ a.took \subseteq e.took
      /\ e.myxid # e.xid => e.sent = a.sent /\ e.xid = a.xid /\ e.myxid \in e.took
  BY <1>2, StartIs
<1> HIDE DEF e
<1>4. \A m \in a.sent : m.type = "RELEASE" /\ m.xid = a.xid /\ a.xid \in a.took
  BY <1>1
<1>5. \A m \in e.sent : SendOk(m) /\ (m.type \in GiveBacks => m \in a.sent)
  BY <1>3, <1>4 DEF SendOk, GiveBacks, ClientTypes
<1>6. \A m \in a.sent : e.xid \in e.took
  BY <1>3, <1>4
<1>7. e.xid = c.xid \/ e.xid \in e.took
  BY <1>1, <1>3
<1>8. e.myxid # e.xid => \A m \in e.sent : m.xid # e.myxid
  BY <1>3, <1>4
<1>9. Ids(e)
  BY <1>3, <1>7, <1>8 DEF Ids, Later
<1>10. Counts(e, n) /\ e.t0 = 0
  BY <1>3 DEF Counts, NoTimers
<1> QED
  BY <1>3, <1>5, <1>6, <1>9, <1>10 DEF Outcome, Later, a, e

-----------------------------------------------------------------------------
(* The handlers. *)

LEMMA TimeoutOut ==
  ASSUME DriveInv, NEW p \in Pbuf, NEW mem \in BOOLEAN
  PROVE  Outcome(Timeout([c EXCEPT !.timer = FALSE], p, mem), 0)
<1> DEFINE d == [c EXCEPT !.timer = FALSE]
<1>1. /\ Base(d, 0) /\ c \in Client /\ (c.state \in Later => Holding(c))
      /\ (c.pcb <=> c.state # "OFF") /\ c.refs = IF c.pcb THEN 1 ELSE 0
  BY SameBase DEF DriveInv, ClientOk
<1>2. /\ d.state = c.state /\ d.offered = c.offered /\ d.lease = c.lease
      /\ d.myxid = c.myxid /\ d.xid = c.xid /\ d.sent = c.sent
      /\ d.took = c.took /\ d.pcb = c.pcb
      /\ d.refs = c.refs
  BY <1>1 DEF Client
<1> HIDE DEF d
<1>3. c.state \in Later => Holding(d) /\ c.pcb
  BY <1>1, <1>2 DEF Holding, Later
<1>4. c.sent = {} /\ c.took = {} /\ c.state \in States
  BY <1>1 DEF DriveInv, Client
<1>5. CASE c.state \in {"BACKING_OFF", "SELECTING"}
  <2>1. Timeout(d, p, mem) = Discover(d, p) /\ c.pcb
    BY <1>1, <1>2, <1>5 DEF Timeout
  <2> QED
    BY <1>1, <2>1, DiscoverOut DEF d
<1>6. CASE c.state = "REQUESTING"
  <2>1. CASE d.tries <= RequestTries
    <3>1. Timeout(d, p, mem) = Request(d, "REQUESTING", p)
      BY <1>2, <1>6, <2>1 DEF Timeout
    <3> QED
      BY <1>1, <1>3, <1>6, <3>1, RequestOut DEF Later, d
  <2>2. CASE ~(d.tries <= RequestTries)
    <3>1. Timeout(d, p, mem) = Start(ReleaseAndStop(d, p), p, mem)
      BY <1>2, <1>6, <2>2 DEF Timeout
    <3>2. Counted(d) /\ d.state # "OFF" /\ d.sent = {} /\ d.xid = c.xid
      BY <1>1, <1>2, <1>4, <1>6 DEF Base, Counted
    <3>3. Outcome(Start(ReleaseAndStop(d, p), p, mem), 0)
      BY <3>2, RestartOut
    <3> QED
      BY <3>1, <3>3 DEF d
  <2> QED
    BY <2>1, <2>2
<1>7. CASE c.state = "CHECKING"
  <2>1. Timeout(d, p, mem) \in {Check(d), Bind(d)}
    BY <1>2, <1>7 DEF Timeout
  <2>2. Granted(d.offered, d.lease.t0) /\ Holding(d) /\ c.pcb
    BY <1>2, <1>3, <1>7 DEF Granted, Later
  <2> QED
    BY <1>1, <2>1, <2>2, CheckOut, BindOut DEF d
<1>8. CASE c.state = "REBOOTING"
  <2>1. Timeout(d, p, mem) \in {Request(d, "REBOOTING", p), Discover(d, p)}
    BY <1>2, <1>8 DEF Timeout
  <2>2. Holding(d) /\ c.pcb
    BY <1>3, <1>8 DEF Later
  <2> QED
    BY <1>1, <2>1, <2>2, RequestOut, DiscoverOut DEF d
<1>9. CASE c.state \notin Retried
  <2>1. Timeout(d, p, mem) = d
    BY <1>2, <1>9 DEF Timeout, Retried
  <2>2. Outcome(d, 0)
    BY <1>1, <1>2, <1>9, StillOut DEF Armed
  <2> QED
    BY <2>1, <2>2 DEF d
<1> QED
  BY <1>5, <1>6, <1>7, <1>8, <1>9 DEF Retried

LEMMA NetworkChangedOut ==
  ASSUME DriveInv, NEW p \in Pbuf
  PROVE  /\ Outcome(NetworkChanged(c, p), 0)
         /\ NetworkChanged(c, p).state # "INIT"
<1> DEFINE e == [c EXCEPT !.tries = 0]
<1>1. /\ Base(c, 0) /\ Base(e, 0) /\ c \in Client /\ (c.state \in Later => Holding(c))
      /\ (c.pcb <=> c.state # "OFF")
  BY SameBase
<1>2. e.offered = c.offered /\ e.myxid = c.myxid
  BY <1>1 DEF Client
<1>3. CASE c.state = "OFF"
  <2>1. NetworkChanged(c, p) = c
    BY <1>3 DEF NetworkChanged
  <2> QED
    BY <1>1, <1>3, <2>1, StillOut DEF DriveInv
<1>4. CASE c.state \in {"REBINDING", "RENEWING", "BOUND", "REBOOTING"}
  <2>1. NetworkChanged(c, p) = Request(e, "REBOOTING", p)
    BY <1>4 DEF NetworkChanged
  <2>2. Holding(e) /\ c.pcb
    BY <1>1, <1>2, <1>4 DEF Later, Holding
  <2> HIDE DEF e
  <2>3. Outcome(Request(e, "REBOOTING", p), 0) /\ Request(e, "REBOOTING", p).state = "REBOOTING"
    BY <1>1, <2>2, RequestOut
  <2> QED
    BY <2>1, <2>3
<1>5. CASE c.state \notin {"OFF", "REBINDING", "RENEWING", "BOUND", "REBOOTING"}
  <2>1. NetworkChanged(c, p) = Discover(e, p) /\ c.pcb
    BY <1>1, <1>5 DEF NetworkChanged
  <2> HIDE DEF e
  <2> QED
    BY <1>1, <2>1, DiscoverOut
<1> QED
  BY <1>3, <1>4, <1>5

LEMMA RecvOut ==
  ASSUME DriveInv, NEW m \in wire, NEW p \in Pbuf
  PROVE  Outcome(Recv(c, m, p), 0)
<1>1. /\ Base(c, 0) /\ c \in Client /\ (c.state \in Later => Holding(c)) /\ Outcome(c, 0)
      /\ (c.pcb <=> c.state # "OFF") /\ MessageOk(m) /\ (fresh => OwnId)
  BY SameBase, StillOut DEF DriveInv, ClientOk
<1>2. CASE ~c.pcb \/ m.xid # c.myxid
  <2>1. Recv(c, m, p) = c
    BY <1>2 DEF Recv
  <2> QED
    BY <1>1, <2>1
<1>3. CASE ~(~c.pcb \/ m.xid # c.myxid)
  <2>1. c.pcb /\ m.xid = c.myxid /\ (fresh /\ m.type # "ARP" => c.myxid = c.xid)
    BY <1>1, <1>3 DEF OwnId
  <2>2. CASE m.type = "ACK"
    <3> DEFINE e == HandleAck(c, m)
    <3>1. m \in Message /\ m.lease \in Leases /\ m.ip \in Addrs
      BY <1>1, <2>2 DEF MessageOk
    <3>2. /\ e \in Client /\ e.offered = m.ip /\ e.state = c.state /\ e.sent = c.sent
          /\ e.took = c.took
          /\ e.xid = c.xid /\ e.myxid = c.myxid
          /\ e.t0 = c.t0 /\ e.t1 = c.t1 /\ e.t2 = c.t2 /\ e.used = c.used
          /\ e.pcb = c.pcb /\ e.refs = c.refs /\ e.addr = c.addr
          /\ m.lease.t0 # NotGiven => e.lease.t0 = m.lease.t0
      BY <1>1, <3>1, HandleAckIs
    <3> HIDE DEF e
    <3>3. Base(e, 0)
      BY <1>1, <3>2 DEF Base
    <3>4. Holding(e)
      BY <2>1, <2>2, <3>1, <3>2 DEF Holding, Standing
    <3>5. Granted(e.offered, e.lease.t0)
      BY <2>1, <2>2, <3>2 DEF Granted
    <3>6. Outcome(Check(e), 0) /\ Outcome(Bind(e), 0)
      BY <2>1, <3>3, <3>4, <3>5, CheckOut, BindOut
    <3>7. Recv(c, m, p) \in {Check(e), Bind(e), c}
      BY <1>3, <2>2 DEF Recv, e
    <3> QED
      BY <1>1, <3>6, <3>7
  <2>3. CASE m.type = "NAK"
    <3> DEFINE a == SetState(c, "BACKING_OFF")
               e == [a EXCEPT !.addr = None]
    <3>1. /\ a \in Client /\ Kept(c, a) /\ a.xid = c.xid /\ a.myxid = c.myxid
          /\ a.sent = c.sent /\ a.took = c.took
      BY <1>1, SetStateIs DEF States
    <3> HIDE DEF a
    <3>2. Base(e, 0)
      <4>1. /\ e \in Client /\ e.addr = None /\ e.xid = a.xid /\ e.myxid = a.myxid
            /\ e.sent = a.sent
            /\ e.took = a.took /\ e.t0 = a.t0 /\ e.t1 = a.t1 /\ e.t2 = a.t2
            /\ e.used = a.used /\ e.pcb = a.pcb /\ e.refs = a.refs
        BY <3>1 DEF Client, IP
      <4> HIDE DEF e
      <4> QED
        BY <1>1, <3>1, <4>1 DEF Kept, Base
    <3>3. Recv(c, m, p) \in {Discover(e, p), c}
      BY <1>3, <2>3 DEF Recv, HandleNak, a
    <3> HIDE DEF e
    <3> QED
      BY <1>1, <2>1, <3>2, <3>3, DiscoverOut
  <2>4. CASE m.type = "OFFER"
    <3> DEFINE e == [c EXCEPT !.offered = m.ip]
    <3>1. m.ip \in Addrs /\ m.ip \in IP
      BY <1>1, <2>4 DEF MessageOk, IP
    <3>2. /\ e \in Client /\ e.offered = m.ip /\ e.xid = c.xid /\ e.myxid = c.myxid
          /\ e.sent = c.sent
          /\ e.took = c.took /\ e.t0 = c.t0 /\ e.t1 = c.t1 /\ e.t2 = c.t2
          /\ e.used = c.used /\ e.pcb = c.pcb /\ e.refs = c.refs /\ e.addr = c.addr
      BY <1>1, <3>1 DEF Client
    <3>3. Recv(c, m, p) \in {Request(e, "REQUESTING", p), c}
      BY <1>3, <2>4 DEF Recv
    <3> HIDE DEF e
    <3>4. Base(e, 0)
      BY <1>1, <3>2 DEF Base
    <3>5. Holding(e)
      BY <2>1, <2>4, <3>1, <3>2 DEF Holding, Standing
    <3> QED
      BY <1>1, <2>1, <3>3, <3>4, <3>5, RequestOut
  <2>5. CASE m.type \notin {"ACK", "NAK", "OFFER"}
    <3>1. Recv(c, m, p) = c
      BY <2>5 DEF Recv
    <3> QED
      BY <1>1, <3>1
  <2> QED
    BY <2>2, <2>3, <2>4, <2>5
<1> QED
  BY <1>2, <1>3

LEMMA ArpReplyOut ==
  ASSUME DriveInv, NEW ip, NEW p \in Pbuf
  PROVE  Outcome(ArpReply(c, ip, p), 0)
<1>1. Outcome(c, 0)
  BY SameBase, StillOut DEF DriveInv
<1>2. CASE c.state = "CHECKING" /\ ip = c.offered
  <2>1. ArpReply(c, ip, p) = Decline(c, p)
    BY <1>2 DEF ArpReply
  <2> QED
    BY <1>2, <2>1, DeclineOut
<1>3. CASE ~(c.state = "CHECKING" /\ ip = c.offered)
  <2>1. ArpReply(c, ip, p) = c
    BY <1>3 DEF ArpReply
  <2> QED
    BY <1>1, <2>1
<1> QED
  BY <1>2, <1>3

\* The first of lease, rebind and renewal that is due.
LEMMA CoarseOut ==
  ASSUME DriveInv, NEW p \in Pbuf, NEW q \in Pbuf, NEW mem \in BOOLEAN
  PROVE  Outcome(Coarse(c, p, q, mem), 1)
<1> DEFINE u == IF c.t0 > 0 THEN c.used + 1 ELSE c.used
           a == [c EXCEPT !.used = u]
           b == [a EXCEPT !.t2 = Less(@)]
           e == [b EXCEPT !.t1 = Less(@)]
<1>1. /\ Base(c, 0) /\ c \in Client /\ (c.state \in Later => Holding(c))
      /\ (c.pcb <=> c.state # "OFF") /\ c.refs = (IF c.pcb THEN 1 ELSE 0)
      /\ c.sent = {} /\ c.took = {} /\ Armed(c)
  BY SameBase DEF DriveInv, ClientOk
<1>2. /\ c.t0 \in Nat /\ c.t0 <= MaxU16 /\ c.used \in Nat /\ c.t1 \in 0 .. MaxU16
      /\ c.t2 \in 0 .. MaxU16 /\ c.t2limit \in 0 .. MaxU16 /\ MaxU16 \in Nat
      /\ c.t0 > 0 => c.used < c.t0
      /\ c.t0 = 0 => c.used = 0 /\ c.t1 = 0 /\ c.t2 = 0
  BY <1>1, Sizes DEF Client, Base
<1>3. /\ u \in 0 .. MaxU16 /\ u <= c.t0
      /\ c.t0 = 0 => u = 0
      /\ c.t0 > 0 => u = c.used + 1
  BY <1>2
<1>4. /\ Less(c.t1) \in 0 .. MaxU16 /\ Less(c.t2) \in 0 .. MaxU16
      /\ c.t0 = 0 => Less(c.t1) = 0 /\ Less(c.t2) = 0
  BY <1>2 DEF Less
<1> HIDE DEF u
<1>5. /\ a \in Client /\ a.used = u /\ a.t0 = c.t0 /\ a.t1 = c.t1 /\ a.t2 = c.t2
      /\ a.state = c.state /\ a.sent = c.sent
      /\ a.took = c.took /\ a.xid = c.xid /\ a.pcb = c.pcb
      /\ a.refs = c.refs
  BY <1>1, <1>3 DEF Client
<1>6. b = [c EXCEPT !.used = u, !.t2 = Less(c.t2)]
  BY <1>1 DEF Client
<1>7. e = [c EXCEPT !.used = u, !.t2 = Less(c.t2), !.t1 = Less(c.t1)]
  BY <1>1 DEF Client
<1>8. Coarse(c, p, q, mem) =
        IF c.state = "OFF" THEN c
        ELSE IF c.t0 > 0 /\ a.used = c.t0 THEN Start(ReleaseAndStop(a, p), q, mem)
        ELSE IF a.t2 = 1 THEN T2Timeout(b, p)
        ELSE IF b.t1 = 1 THEN T1Timeout(e, p) ELSE e
  BY DEF Coarse, u
<1>9. ASSUME ~(c.t0 > 0 /\ u = c.t0), NEW d \in {b, e}
      PROVE  /\ Base(d, 1) /\ d.state = c.state /\ d.offered = c.offered
             /\ d.lease = c.lease /\ Armed(d) /\ d.t2limit = c.t2limit /\ d.used = u
  <2> HIDE DEF a, b, e
  <2>1. /\ d \in Client /\ d.used = u /\ d.t0 = c.t0 /\ d.t1 \in {c.t1, Less(c.t1)}
        /\ d.t2 = Less(c.t2) /\ d.state = c.state /\ d.sent = c.sent
        /\ d.took = c.took /\ d.xid = c.xid
        /\ d.myxid = c.myxid /\ d.pcb = c.pcb /\ d.refs = c.refs /\ d.addr = c.addr
        /\ d.offered = c.offered /\ d.lease = c.lease /\ d.timer = c.timer
        /\ d.t2limit = c.t2limit
    <3>1. CASE d = b
      BY <1>1, <1>3, <1>4, <1>6, <3>1 DEF Client
    <3>2. CASE d = e
      BY <1>1, <1>3, <1>4, <1>7, <3>2 DEF Client
    <3> QED
      BY <1>9, <3>1, <3>2
  <2>2. c.t0 = 0 => d.used = 0 /\ d.t1 = 0 /\ d.t2 = 0
    BY <1>2, <1>3, <1>4, <2>1
  <2>3. c.t0 > 0 => u = c.used + 1 /\ u < c.t0
    BY <1>2, <1>3, <1>9
  <2>4. Base(d, 1)
    BY <1>1, <2>1, <2>2, <2>3 DEF Base
  <2> QED
    BY <1>1, <2>1, <2>4 DEF Armed
<1>10. c.t2 = 1 => 0 < c.t0
  BY <1>2
<1>11. b.t1 = c.t1 /\ (c.t1 = 1 => 0 < c.t0)
  BY <1>1, <1>2, <1>6 DEF Client
<1> HIDE DEF a, b, e
<1>12. CASE c.state = "OFF"
  <2>1. Coarse(c, p, q, mem) = c
    BY <1>8, <1>12
  <2>2. Base(c, 1)
    <3>1. c.t0 = 0
      BY <1>12 DEF DriveInv, ClientOk
    <3> QED
      BY <1>1, <3>1 DEF Base
  <2> QED
    BY <1>1, <2>1, <2>2, StillOut
<1>13. CASE c.state # "OFF" /\ c.t0 > 0 /\ a.used = c.t0
  <2>1. Coarse(c, p, q, mem) = Start(ReleaseAndStop(a, p), q, mem)
    BY <1>8, <1>13
  <2>2. Counted(a)
    BY <1>1, <1>5 DEF Counted
  <2> QED
    BY <1>1, <1>5, <1>13, <2>1, <2>2, RestartOut
<1>14. CASE c.state # "OFF" /\ ~(c.t0 > 0 /\ a.used = c.t0) /\ a.t2 = 1
  <2>1. Coarse(c, p, q, mem) = T2Timeout(b, p)
    BY <1>8, <1>14
  <2>2. /\ Base(b, 1) /\ b.state = c.state /\ b.offered = c.offered
        /\ b.lease = c.lease /\ Armed(b) /\ 0 < b.t0 /\ b.myxid = c.myxid
        /\ b.xid = c.xid
    BY <1>5, <1>9, <1>10, <1>14 DEF Base
  <2>3. CASE c.state \notin {"REQUESTING", "BOUND", "RENEWING", "REBINDING"}
    <3>1. T2Timeout(b, p) = b
      BY <2>2, <2>3 DEF T2Timeout
    <3> QED
      BY <2>1, <2>2, <3>1, StillOut
  <2>4. CASE c.state \in {"REQUESTING", "BOUND", "RENEWING", "REBINDING"}
    <3> DEFINE again == (b.t0 - b.used) \div 2
               f     == Request(b, "REBINDING", p)
    <3>1. T2Timeout(b, p) = IF again >= 1 THEN [f EXCEPT !.t2 = again] ELSE f
      BY <2>2, <2>4 DEF T2Timeout
    <3>2. Holding(b) /\ c.pcb
      BY <1>1, <2>2, <2>4 DEF Holding, Later
    <3>3. Outcome(f, 1) /\ f.t0 = b.t0
      BY <2>2, <3>2, RequestOut
    <3>4. again \in Int /\ again <= MaxU16
      <4>1. b.t0 \in Nat /\ b.t0 <= MaxU16 /\ b.used \in Nat
        BY <1>2, <2>2 DEF Base, Client
      <4> QED
        BY <1>2, <4>1
    <3> HIDE DEF again, f
    <3>5. again >= 1 => again \in 0 .. MaxU16
      BY <1>2, <3>4
    <3>6. CASE again >= 1
      <4>1. Outcome([f EXCEPT !.t2 = again], 1)
        BY <2>2, <3>3, <3>5, <3>6, TimerOut
      <4> QED
        BY <2>1, <3>1, <3>6, <4>1
    <3>7. CASE ~(again >= 1)
      BY <2>1, <3>1, <3>3, <3>7
    <3> QED
      BY <3>6, <3>7
  <2> QED
    BY <2>3, <2>4
<1>15. CASE c.state # "OFF" /\ ~(c.t0 > 0 /\ a.used = c.t0) /\ a.t2 # 1
  <2>1. Coarse(c, p, q, mem) = IF b.t1 = 1 THEN T1Timeout(e, p) ELSE e
    BY <1>8, <1>15
  <2>2. /\ Base(e, 1) /\ e.state = c.state /\ e.offered = c.offered
        /\ e.lease = c.lease /\ Armed(e) /\ e.t0 = c.t0 /\ e.myxid = c.myxid
        /\ e.xid = c.xid /\ e.t2limit = c.t2limit /\ e.used = u
    BY <1>5, <1>9, <1>15 DEF Base
  <2>3. Outcome(e, 1)
    BY <2>2, StillOut
  <2>4. CASE b.t1 = 1 /\ c.state \in {"REQUESTING", "BOUND", "RENEWING"}
    <3> DEFINE again == (e.t2limit - e.used) \div 2
               f     == Request(e, "RENEWING", p)
    <3>1. T1Timeout(e, p) = IF again >= 1 THEN [f EXCEPT !.t1 = again] ELSE f
      BY <2>2, <2>4 DEF T1Timeout
    <3>2. Holding(e) /\ c.pcb /\ 0 < e.t0
      BY <1>1, <1>11, <2>2, <2>4 DEF Holding, Later
    <3>3. Outcome(f, 1) /\ f.t0 = e.t0
      BY <2>2, <3>2, RequestOut
    <3>4. again \in Int /\ again <= MaxU16
      <4>1. e.t2limit \in Nat /\ e.t2limit <= MaxU16 /\ e.used \in Nat
        BY <1>2, <1>3, <2>2
      <4> QED
        BY <1>2, <4>1
    <3> HIDE DEF again, f
    <3>5. again >= 1 => again \in 0 .. MaxU16
      BY <1>2, <3>4
    <3>6. CASE again >= 1
      <4>1. Outcome([f EXCEPT !.t1 = again], 1)
        BY <3>2, <3>3, <3>5, <3>6, TimerOut
      <4> QED
        BY <2>1, <2>4, <3>1, <3>6, <4>1
    <3>7. CASE ~(again >= 1)
      BY <2>1, <2>4, <3>1, <3>3, <3>7
    <3> QED
      BY <3>6, <3>7
  <2>5. CASE ~(b.t1 = 1 /\ c.state \in {"REQUESTING", "BOUND", "RENEWING"})
    <3>1. Coarse(c, p, q, mem) = e
      BY <2>1, <2>2, <2>5 DEF T1Timeout
    <3> QED
      BY <2>3, <3>1
  <2> QED
    BY <2>4, <2>5
<1> QED
  BY <1>12, <1>13, <1>14, <1>15

-----------------------------------------------------------------------------
(* The steps. *)

\* A handler left d; n coarse periods were counted.
Handled(d, n, rest) ==
  /\ Outcome(d, n) /\ rest \subseteq wire /\ Done(d, rest)
  /\ trouble' \in 0 .. MaxTrouble /\ UNCHANGED <<left, declined, half>>
  /\ (n = 0 /\ due' = due) \/ (n = 1 /\ due = TRUE /\ due' = FALSE)
  /\ link' \in BOOLEAN /\ starting' \in BOOLEAN /\ (d.state = "INIT" => ~link')

LEMMA SpendIs ==
  ASSUME DriveInv, NEW n \in 0 .. 3, Spend(n)
  PROVE  trouble' \in 0 .. MaxTrouble
BY Sizes DEF DriveInv, EnvOk, Spend

\* What Run does, for a handler that a lemma describes.
LEMMA RunIs ==
  ASSUME DriveInv, NEW d, NEW best, NEW cost \in {0, 1}, NEW n \in {0, 1}, NEW rest,
         Run(cost, rest, d, best), Outcome(d, n), d.state = "INIT" => ~link',
         rest \subseteq wire, UNCHANGED <<left, declined, half>>,
         (n = 0 /\ due' = due) \/ (n = 1 /\ due = TRUE /\ due' = FALSE),
         link' \in BOOLEAN, starting' \in BOOLEAN
  PROVE  \E e, k, r : Handled(e, k, r)
<1> DEFINE k == cost + (IF d = best THEN 0 ELSE 1) + (IF Reused(d, rest) THEN 1 ELSE 0)
<1>1. Spend(k) /\ Done(d, rest)
  BY DEF Run
<1>2. k \in 0 .. 3
  OBVIOUS
<1> HIDE DEF k
<1>3. trouble' \in 0 .. MaxTrouble
  BY <1>1, <1>2, SpendIs
<1>4. Handled(d, n, rest)
  BY <1>1, <1>3 DEF Handled
<1> QED
  BY <1>4

LEMMA HandlerSteps ==
  ASSUME DriveInv,
         \/ FineTmr \/ CoarseTmr \/ LinkUp \/ ThreadStart
         \/ LwIP_DHCP_Start \/ LwIP_DHCP_Stop
         \/ \E m \in wire : Deliver(m) \/ DeliverArp(m)
  PROVE  \E d, n, rest : Handled(d, n, rest)
<1>1. /\ link \in BOOLEAN /\ starting \in BOOLEAN /\ due \in BOOLEAN
      /\ UseDhcp \in BOOLEAN /\ wire \subseteq wire
  BY DhcpAssumption DEF DriveInv, EnvOk
<1>2. CASE FineTmr
  <2> DEFINE d    == [c EXCEPT !.timer = FALSE]
             cost == IF wire = {} THEN 0 ELSE 1
  <2>1. PICK p \in Pbuf, mem \in BOOLEAN :
          Run(cost, wire, Timeout(d, p, mem), Timeout(d, Best(p), TRUE))
    BY <1>2 DEF FineTmr
  <2>2. Outcome(Timeout(d, p, mem), 0) /\ (Timeout(d, p, mem).state = "INIT" => ~link)
    BY TimeoutOut DEF Outcome
  <2>3. UNCHANGED <<left, declined, half, due, link, starting>>
    BY <1>1, <1>2 DEF FineTmr, clock, port
  <2>4. cost \in {0, 1}
    OBVIOUS
  <2> HIDE DEF d, cost
  <2> QED
    BY <1>1, <2>1, <2>2, <2>3, <2>4, RunIs
<1>3. CASE CoarseTmr
  <2>1. PICK p \in Pbuf, q \in Pbuf, mem \in BOOLEAN :
          Run(0, wire, Coarse(c, p, q, mem), Coarse(c, Best(p), Best(q), TRUE))
    BY <1>3 DEF CoarseTmr
  <2>2. /\ Outcome(Coarse(c, p, q, mem), 1)
        /\ (Coarse(c, p, q, mem).state = "INIT" => ~link)
    BY CoarseOut DEF Outcome
  <2>3. UNCHANGED <<left, declined, half, link, starting>> /\ due = TRUE /\ due' = FALSE
    BY <1>1, <1>3 DEF CoarseTmr, port
  <2> QED
    BY <1>1, <2>1, <2>2, <2>3, RunIs
<1>4. CASE LinkUp
  <2>1. PICK p \in Pbuf :
          Run(1, wire, NetworkChanged(c, p), NetworkChanged(c, Best(p)))
    BY <1>4 DEF LinkUp
  <2>2. Outcome(NetworkChanged(c, p), 0) /\ NetworkChanged(c, p).state # "INIT"
    BY NetworkChangedOut
  <2>3. UNCHANGED <<left, declined, half, due>> /\ link' = TRUE /\ starting' = UseDhcp
    BY <1>1, <1>4 DEF LinkUp, clock
  <2> QED
    BY <1>1, <2>1, <2>2, <2>3, RunIs
<1>5. CASE ThreadStart
  <2>1. PICK p \in Pbuf, mem \in BOOLEAN :
          Run(0, wire, Start(c, p, mem), Start(c, Best(p), TRUE))
    BY <1>5 DEF ThreadStart
  <2>2. Outcome(Start(c, p, mem), 0) /\ (Start(c, p, mem).state = "INIT" => ~link)
    BY StartOut DEF Outcome
  <2>3. UNCHANGED <<left, declined, half, due, link>> /\ starting' = FALSE
    BY <1>1, <1>5 DEF ThreadStart, clock
  <2> QED
    BY <1>1, <2>1, <2>2, <2>3, RunIs
<1>6. CASE LwIP_DHCP_Start
  <2>1. PICK p \in Pbuf, mem \in BOOLEAN :
          Run(1, wire, Start(c, p, mem), Start(c, Best(p), TRUE))
    BY <1>6 DEF LwIP_DHCP_Start
  <2>2. Outcome(Start(c, p, mem), 0) /\ (Start(c, p, mem).state = "INIT" => ~link)
    BY StartOut DEF Outcome
  <2>3. UNCHANGED <<left, declined, half, due, link, starting>>
    BY <1>1, <1>6 DEF LwIP_DHCP_Start, clock, port
  <2> QED
    BY <1>1, <2>1, <2>2, <2>3, RunIs
<1>7. CASE LwIP_DHCP_Stop
  <2>1. PICK p \in Pbuf :
          Run(1, wire, ReleaseAndStop(c, p), ReleaseAndStop(c, Best(p)))
    BY <1>7 DEF LwIP_DHCP_Stop
  <2>2. Outcome(ReleaseAndStop(c, p), 0) /\ (ReleaseAndStop(c, p).state = "INIT" => ~link)
    BY StopOut DEF Outcome
  <2>3. UNCHANGED <<left, declined, half, due, link, starting>>
    BY <1>1, <1>7 DEF LwIP_DHCP_Stop, clock, port
  <2> QED
    BY <1>1, <2>1, <2>2, <2>3, RunIs
<1>8. ASSUME NEW m \in wire, Deliver(m)
      PROVE  \E d, n, rest : Handled(d, n, rest)
  <2>1. PICK p \in Pbuf : \/ Run(0, wire \ {m}, Recv(c, m, p), Recv(c, m, Best(p)))
                         \/ Run(1, wire, Recv(c, m, p), Recv(c, m, Best(p)))
    BY <1>8 DEF Deliver
  <2>2. Outcome(Recv(c, m, p), 0) /\ (Recv(c, m, p).state = "INIT" => ~link)
    BY RecvOut DEF Outcome
  <2>3. UNCHANGED <<left, declined, half, due, link, starting>>
    BY <1>1, <1>8 DEF Deliver, clock, port
  <2>4. wire \ {m} \subseteq wire
    OBVIOUS
  <2> QED
    BY <1>1, <2>1, <2>2, <2>3, <2>4, RunIs
<1>9. ASSUME NEW m \in wire, DeliverArp(m)
      PROVE  \E d, n, rest : Handled(d, n, rest)
  <2>1. PICK p \in Pbuf :
          Run(0, wire \ {m}, ArpReply(c, m.ip, p), ArpReply(c, m.ip, Best(p)))
    BY <1>9 DEF DeliverArp
  <2>2. Outcome(ArpReply(c, m.ip, p), 0) /\ (ArpReply(c, m.ip, p).state = "INIT" => ~link)
    BY ArpReplyOut DEF Outcome
  <2>3. UNCHANGED <<left, declined, half, due, link, starting>>
    BY <1>1, <1>9 DEF DeliverArp, clock, port
  <2>4. wire \ {m} \subseteq wire
    OBVIOUS
  <2> QED
    BY <1>1, <2>1, <2>2, <2>3, <2>4, RunIs
<1> QED
  BY <1>2, <1>3, <1>4, <1>5, <1>6, <1>7, <1>8, <1>9

\* Every step is a handler's, or one of the others.
LEMMA Cases ==
  ASSUME DriveInv, [Next]_vars
  PROVE  \/ \E d, n, rest : Handled(d, n, rest)
         \/ Elapse \/ LinkDown \/ UNCHANGED vars
         \/ \E m \in wire : Lose(m) \/ Server(m)
<1>1. ASSUME \E m \in wire : Network(m)
      PROVE  \/ \E m \in wire : Deliver(m) \/ DeliverArp(m)
             \/ \E m \in wire : Lose(m)
  BY <1>1 DEF Network
<1> QED
  BY <1>1, HandlerSteps DEF Next

\* What a handler's step does to the client and to what is underway.
LEMMA HandledIs ==
  ASSUME DriveInv, NEW d, NEW n, NEW rest, Handled(d, n, rest)
  PROVE  /\ c' \in Client /\ c'.sent = {} /\ c'.took = {}
         /\ c'.state = d.state /\ c'.timer = d.timer
         /\ c'.xid = d.xid /\ c'.myxid = d.myxid /\ c'.offered = d.offered
         /\ c'.lease = d.lease /\ c'.t0 = d.t0 /\ c'.t1 = d.t1 /\ c'.t2 = d.t2
         /\ c'.used = d.used /\ c'.addr = d.addr /\ c'.pcb = d.pcb /\ c'.refs = d.refs
         /\ wire' \subseteq wire \cup d.sent
         /\ fresh' => fresh
         /\ fresh' => \A m \in wire' : m \in d.sent \/ m.xid \notin d.took \/ m.type = "ARP"
         /\ fresh' \in BOOLEAN
<1>1. d \in Client /\ c' = [d EXCEPT !.sent = {}, !.took = {}]
  BY DEF Handled, Done, Outcome, ClientOk
<1>2. /\ c' \in Client /\ c'.sent = {} /\ c'.took = {}
      /\ c'.state = d.state /\ c'.timer = d.timer
      /\ c'.xid = d.xid /\ c'.myxid = d.myxid /\ c'.offered = d.offered
      /\ c'.lease = d.lease /\ c'.t0 = d.t0 /\ c'.t1 = d.t1 /\ c'.t2 = d.t2
      /\ c'.used = d.used /\ c'.addr = d.addr /\ c'.pcb = d.pcb /\ c'.refs = d.refs
  BY <1>1 DEF Client
<1>3. /\ rest \subseteq wire /\ wire' = rest \cup (IF link' THEN d.sent ELSE {})
      /\ fresh' = (fresh /\ ~Reused(d, rest))
  BY DEF Handled, Done
<1>4. wire' \subseteq wire \cup d.sent /\ \A m \in wire' : m \in d.sent \/ m \in rest
  BY <1>3
<1>5. fresh' \in BOOLEAN /\ (fresh' => fresh /\ ~Reused(d, rest))
  BY <1>3
<1>6. fresh' => \A m \in wire' : m \in d.sent \/ m.xid \notin d.took \/ m.type = "ARP"
  BY <1>4, <1>5 DEF Reused
<1> QED
  BY <1>2, <1>4, <1>5, <1>6

LEMMA HandledDrive ==
  ASSUME DriveInv, NEW d, NEW n, NEW rest, Handled(d, n, rest)
  PROVE  DriveInv'
<1>1. /\ c' \in Client /\ c'.sent = {}
      /\ c'.took = {} /\ c'.state = d.state /\ c'.timer = d.timer
      /\ c'.xid = d.xid /\ c'.myxid = d.myxid /\ c'.offered = d.offered
      /\ c'.t0 = d.t0 /\ c'.t1 = d.t1 /\ c'.t2 = d.t2
      /\ c'.used = d.used /\ c'.pcb = d.pcb /\ c'.refs = d.refs
      /\ wire' \subseteq wire \cup d.sent
      /\ fresh' => fresh
      /\ fresh' => \A m \in wire' : m \in d.sent \/ m.xid \notin d.took \/ m.type = "ARP"
      /\ fresh' \in BOOLEAN
  BY HandledIs
<1>2. /\ ClientOk(d) /\ Armed(d) /\ (\A m \in d.sent : SendOk(m)) /\ d.sent \subseteq Message
      /\ d.state = "INIT" => ~link'
  BY DEF Handled, Outcome, ClientOk, Client
<1>3. ClientOk(c)' /\ Armed(c)'
  BY <1>1, <1>2 DEF ClientOk, Armed, Supplied
<1>4. EnvOk'
  <2>1. EnvOk
    BY DEF DriveInv
  <2>2. left' = left /\ declined' = declined /\ half' = half /\ trouble' \in 0 .. MaxTrouble
    BY DEF Handled
  <2>3. link' \in BOOLEAN /\ starting' \in BOOLEAN
    BY DEF Handled
  <2>4. due' = due \/ due' = FALSE
    BY DEF Handled
  <2>5. half' \in BOOLEAN /\ due' \in BOOLEAN
    BY <2>1, <2>2, <2>4 DEF EnvOk
  <2>6. ~(half' /\ due')
    BY <2>1, <2>2, <2>4, Zenon DEF EnvOk
  <2>7. left' \in [Addrs -> Int] /\ declined' \in SUBSET Addrs
    BY <2>1, <2>2 DEF EnvOk
  <2> QED
    BY <1>1, <2>2, <2>3, <2>5, <2>6, <2>7, Zenon DEF EnvOk
<1>5. \A m \in wire' : MessageOk(m)
  <2>1. \A m \in wire : MessageOk(m)
    BY DEF DriveInv
  <2>2. \A m \in d.sent : MessageOk(m)
    BY <1>2 DEF SendOk, MessageOk, ClientTypes
  <2> QED
    BY <1>1, <2>1, <2>2
<1>6. ASSUME fresh' PROVE OwnId'
  <2>1. fresh /\ OwnId /\ Ids(d)
    BY <1>1, <1>6 DEF DriveInv, Handled, Outcome
  <2>2. CASE d.myxid = d.xid
    BY <1>1, <2>2 DEF OwnId
  <2>3. CASE d.myxid # d.xid
    <3>1. /\ d.state \notin Later
          /\ d.myxid \in d.took \/ (d.myxid = c.myxid /\ d.xid = c.xid)
          /\ \A m \in d.sent : m.type # "ARP" => m.xid # d.myxid
      BY <2>1, <2>3 DEF Ids
    <3>2. d.myxid \notin d.took => \A m \in wire : m.type # "ARP" => m.xid # d.myxid
      BY <2>1, <2>3, <3>1 DEF OwnId
    <3>3. \A m \in wire' : m.type # "ARP" => m.xid # d.myxid
      BY <1>1, <1>6, <3>1, <3>2
    <3> QED
      BY <1>1, <3>1, <3>3 DEF OwnId
  <2> QED
    BY <2>2, <2>3
<1> QED
  BY <1>1, <1>2, <1>3, <1>4, <1>5, <1>6 DEF DriveInv, MessageOk

LEMMA DriveStep ==
  ASSUME DriveInv, [Next]_vars
  PROVE  DriveInv'
<1>1. /\ ClientOk(c) /\ c.sent = {}
      /\ c.took = {} /\ Armed(c) /\ (c.state = "INIT" => ~link)
      /\ EnvOk /\ (\A m \in wire : MessageOk(m)) /\ (fresh => OwnId)
  BY DEF DriveInv
<1>2. ASSUME c' = c, EnvOk', link' = link \/ link' = FALSE, fresh' = fresh,
             \A m \in wire' : MessageOk(m),
             \A m \in wire' : m \in wire \/ \E x \in wire : x.type # "ARP" /\ m.xid = x.xid
      PROVE  DriveInv'
  <2>1. fresh' => OwnId'
    BY <1>1, <1>2 DEF OwnId
  <2> QED
    BY <1>1, <1>2, <2>1 DEF DriveInv, MessageOk, ClientOk, Armed, Supplied
<1>3. CASE \E d, n, rest : Handled(d, n, rest)
  BY <1>3, HandledDrive
<1>4. CASE Elapse
  <2>1. c' = c /\ wire' = wire /\ link' = link /\ fresh' = fresh
    BY <1>4 DEF Elapse, port
  <2>2. left' \in [Addrs -> Int]
    <3>1. \A a \in Addrs :
            (IF left[a] > Ended THEN left[a] - CoarseSecs \div 2 ELSE left[a]) \in Int
      <4>1. CoarseSecs \div 2 = 30
        BY DEF CoarseSecs
      <4>2. \A a \in Addrs : left[a] \in Int
        BY <1>1 DEF EnvOk
      <4> QED
        BY <4>1, <4>2
    <3> QED
      BY <1>4, <3>1 DEF Elapse
  <2>3. EnvOk'
    BY <1>1, <1>4, <2>1, <2>2 DEF Elapse, EnvOk, port
  <2> QED
    BY <1>1, <1>2, <2>1, <2>3
<1>5. CASE LinkDown
  <2>1. c' = c /\ wire' = {} /\ link' = FALSE /\ fresh' = fresh
    BY <1>5 DEF LinkDown
  <2>2. EnvOk'
    BY <1>1, <1>5, <2>1 DEF LinkDown, EnvOk, clock
  <2> QED
    BY <1>2, <2>1, <2>2
<1>6. CASE UNCHANGED vars
  <2>1. c' = c /\ wire' = wire /\ link' = link /\ fresh' = fresh
    BY <1>6 DEF vars, env, port
  <2>2. EnvOk'
    BY <1>1, <1>6 DEF vars, env, port, clock, EnvOk
  <2> QED
    BY <1>1, <1>2, <2>1, <2>2
<1>7. ASSUME NEW m \in wire, Lose(m)
      PROVE  DriveInv'
  <2>1. /\ c' = c /\ wire' = wire \ {m} /\ link' = link /\ fresh' = fresh
        /\ trouble' \in 0 .. MaxTrouble
    BY <1>7, SpendIs DEF Lose, port
  <2>2. EnvOk'
    BY <1>1, <1>7, <2>1 DEF Lose, EnvOk, port, clock
  <2> QED
    BY <1>1, <1>2, <2>1, <2>2
<1>8. ASSUME NEW m \in wire, Server(m)
      PROVE  DriveInv'
  <2>1. c' = c /\ UNCHANGED <<clock, port>> /\ fresh' = fresh /\ m.type # "ARP"
    BY <1>8 DEF Server, Offer, Grant, TakeBack
  <2>2. MessageOk(m) /\ NoLease \in Leases \cup {NoLease} /\ None \in IP
    BY <1>1 DEF IP
  <2>3. CASE Offer(m)
    <3>1. PICK a \in Addrs : Answer(m, "OFFER", a, NoLease)
      BY <2>3 DEF Offer
    <3> DEFINE r == [type |-> "OFFER", xid |-> m.xid, ip |-> a, lease |-> NoLease]
    <3>2. MessageOk(r) /\ r.xid = m.xid
      BY <2>2 DEF MessageOk, Message, IP
    <3>3. wire' = (wire \ {m}) \cup {r}
      BY <3>1 DEF Answer
    <3> HIDE DEF r
    <3>4. EnvOk'
      BY <1>1, <2>1, <2>3 DEF Offer, EnvOk, clock, port
    <3> QED
      BY <1>1, <1>2, <2>1, <3>2, <3>3, <3>4 DEF port
  <2>4. CASE Grant(m)
    <3>1. CASE \E l \in Leases :
                 /\ m.ip \in Addrs \ declined /\ Answer(m, "ACK", m.ip, l)
                 /\ left' = [left EXCEPT ![m.ip] = IF @ < l.t0 THEN l.t0 ELSE @]
                 /\ UNCHANGED trouble
      <4>1. PICK l \in Leases :
                 /\ m.ip \in Addrs \ declined /\ Answer(m, "ACK", m.ip, l)
                 /\ left' = [left EXCEPT ![m.ip] = IF @ < l.t0 THEN l.t0 ELSE @]
        BY <3>1
      <4> DEFINE r == [type |-> "ACK", xid |-> m.xid, ip |-> m.ip, lease |-> l]
      <4>2. MessageOk(r) /\ r.xid = m.xid
        BY <2>2, <4>1 DEF MessageOk, Message, IP
      <4>3. wire' = (wire \ {m}) \cup {r}
        BY <4>1 DEF Answer
      <4> HIDE DEF r
      <4>4. l.t0 \in Int
        BY LeaseTypes DEF NotGiven
      <4>5. left' \in [Addrs -> Int]
        BY <1>1, <4>1, <4>4 DEF EnvOk
      <4>6. EnvOk'
        BY <1>1, <2>1, <2>4, <3>1, <4>5 DEF Grant, EnvOk, clock, port
      <4> QED
        BY <1>1, <1>2, <2>1, <4>2, <4>3, <4>6 DEF port
    <3>2. CASE /\ Answer(m, "NAK", None, NoLease)
               /\ Spend(IF m.ip \in Addrs \ declined THEN 1 ELSE 0) /\ UNCHANGED left
      <4> DEFINE r == [type |-> "NAK", xid |-> m.xid, ip |-> None, lease |-> NoLease]
      <4>2. MessageOk(r) /\ r.xid = m.xid
        BY <2>2 DEF MessageOk, Message
      <4>3. wire' = (wire \ {m}) \cup {r}
        BY <3>2 DEF Answer
      <4> HIDE DEF r
      <4>4. trouble' \in 0 .. MaxTrouble
        BY <3>2, SpendIs
      <4>5. EnvOk'
        BY <1>1, <2>1, <2>4, <3>2, <4>4 DEF Grant, EnvOk, clock, port
      <4> QED
        BY <1>1, <1>2, <2>1, <4>2, <4>3, <4>5 DEF port
    <3> QED
      BY <2>4, <3>1, <3>2 DEF Grant
  <2>5. CASE TakeBack(m)
    <3>1. wire' = wire \ {m} /\ UNCHANGED trouble
      BY <2>5 DEF TakeBack
    <3>2. declined' \subseteq Addrs
      BY <1>1, <2>2, <2>5 DEF TakeBack, EnvOk, MessageOk
    <3>3. left' \in [Addrs -> Int]
      <4>1. Ended \in Int
        BY Sizes DEF Ended
      <4> QED
        BY <1>1, <2>5, <4>1 DEF TakeBack, EnvOk
    <3>4. EnvOk'
      BY <1>1, <2>1, <3>1, <3>2, <3>3 DEF EnvOk, clock, port
    <3> QED
      BY <1>1, <1>2, <2>1, <3>1, <3>4 DEF port
  <2> QED
    BY <1>8, <2>3, <2>4, <2>5 DEF Server
<1> QED
  BY <1>3, <1>4, <1>5, <1>6, <1>7, <1>8, Cases

LEMMA DriveInit == Init => DriveInv
<1> SUFFICES ASSUME Init PROVE DriveInv
  OBVIOUS
<1>1. /\ c = [state |-> "OFF", tries |-> 0, timer |-> FALSE, myxid |-> 0, xid |-> 0,
              offered |-> None, lease |-> NoLease, t0 |-> 0, t1 |-> 0, t2 |-> 0,
              t2limit |-> 0, used |-> 0, pcb |-> FALSE, refs |-> 0, addr |-> None,
              sent |-> {}, took |-> {}]
      /\ wire = {}
  BY DEF Init
<1>2. /\ 0 \in 0 .. MaxTries /\ 0 \in Xid /\ None \in IP /\ 0 \in 0 .. MaxU16 /\ 0 \in 0 .. 1
      /\ NoLease \in Seconds /\ "OFF" \in States
      /\ {} \in SUBSET Message /\ {} \in SUBSET Xid
  BY Sizes, Xids, LeaseTypes DEF IP, States
<1>3. c \in Client
  BY <1>1, <1>2 DEF Client
<1>4. ClientOk(c) /\ Armed(c) /\ c.sent = {} /\ c.took = {} /\ c.state # "INIT" /\ OwnId
  BY <1>1, <1>3 DEF ClientOk, Armed, Retried, Supplied, Later, OwnId
<1>5. EnvOk
  <2>1. [a \in Addrs |-> Ended] \in [Addrs -> Int] /\ 0 \in 0 .. MaxTrouble
    BY Sizes DEF Ended
  <2> QED
    BY <2>1 DEF Init, EnvOk
<1> QED
  BY <1>1, <1>4, <1>5 DEF DriveInv

LEMMA DriveAlways == Spec => []DriveInv
<1>1. DriveInv /\ [Next]_vars => DriveInv'
  BY DriveStep
<1> QED
  BY DriveInit, <1>1, PTL DEF Spec

\* Every field keeps its type; the reference to the shared pcb is held exactly
\* while the client is on; a client that is on has a retry armed, a lease that
\* ends, or waits for the link: whatever the restarts, the failed allocations,
\* the repeated or late answers and the link changes of dhcp.c.
THEOREM DhcpClientInv == Spec => []ClientInv
<1>1. ASSUME DriveInv PROVE ClientInv
  <2>1. /\ ClientOk(c) /\ c.sent = {}
        /\ c.took = {} /\ Armed(c) /\ (c.state = "INIT" => ~link)
        /\ EnvOk /\ (\A m \in wire : MessageOk(m)) /\ c \in Client
    BY <1>1 DEF DriveInv, ClientOk
  <2>2. TypeOK
    <3>1. /\ c.state \in States /\ c.tries \in 0 .. MaxTries /\ c.timer \in BOOLEAN
          /\ c.xid \in Xid /\ c.myxid \in Xid /\ {c.offered, c.addr} \subseteq IP
          /\ {c.t0, c.t1, c.t2, c.t2limit} \subseteq 0 .. MaxU16 /\ c.pcb \in BOOLEAN
      BY <2>1 DEF Client
    <3>2. c.used \in 0 .. c.t0
      <4>1. c.used \in Nat /\ c.t0 \in Nat
        BY <2>1, Sizes DEF Client
      <4>2. (c.t0 = 0 => c.used = 0) /\ (c.t0 > 0 => c.used < c.t0)
        BY <2>1 DEF ClientOk
      <4> QED
        BY <4>1, <4>2
    <3> QED
      BY <2>1, <3>1, <3>2 DEF TypeOK, EnvOk, MessageOk
  <2>3. PcbCounted
    BY <2>1 DEF PcbCounted, ClientOk
  <2>4. AlwaysDriven
    <3>1. c.state \in States
      BY <2>1 DEF Client
    <3>2. CASE Supplied(c)
      <4>1. c.used < c.t0
        BY <2>1, <3>2 DEF ClientOk
      <4> QED
        BY <3>2, <4>1 DEF AlwaysDriven, Supplied
    <3>3. CASE c.state = "OFF"
      BY <3>3 DEF AlwaysDriven, Supplied
    <3>4. CASE c.state = "INIT"
      BY <2>1, <3>4 DEF AlwaysDriven, Supplied
    <3>5. CASE c.state \in Retried
      <4>1. c.timer
        BY <2>1, <3>5 DEF Armed
      <4> QED
        BY <3>5, <4>1 DEF AlwaysDriven, Supplied, Retried
    <3> QED
      BY <3>1, <3>2, <3>3, <3>4, <3>5 DEF States, Retried, Supplied
  <2> QED
    BY <2>2, <2>3, <2>4 DEF ClientInv
<1> QED
  BY DriveAlways, <1>1, PTL

-----------------------------------------------------------------------------
(* An answer to an earlier transaction never counts. *)

LEMMA HandledCurrent ==
  ASSUME CurrentInv, NEW d, NEW n, NEW rest, Handled(d, n, rest)
  PROVE  CurrentInv'
<1>1. DriveInv /\ (fresh => Current)
  BY DEF CurrentInv
<1>2. /\ c'.state = d.state /\ c'.xid = d.xid /\ c'.offered = d.offered
      /\ wire' \subseteq wire \cup d.sent /\ DriveInv' /\ declined' = declined
      /\ fresh' => fresh
      /\ fresh' => \A m \in wire' : m \in d.sent \/ m.xid \notin d.took \/ m.type = "ARP"
  BY <1>1, HandledIs, HandledDrive DEF Handled
<1>3. /\ \A m \in d.sent : m.type \in ClientTypes \cup {"ARP"}
      /\ \A m \in d.sent : m.type \in GiveBacks => d.xid \in d.took /\ d.state \notin Later
      /\ d.state \in Later => Standing(d.offered)
      /\ d.xid = c.xid \/ d.xid \in d.took
  BY DEF Handled, Outcome, SendOk, Ids
<1>4. SUFFICES ASSUME fresh' PROVE Current'
  BY <1>2 DEF CurrentInv
<1>5. fresh /\ Current
  BY <1>1, <1>2, <1>4
<1>6. ASSUME NEW a, NotGivenBack(a, wire), d.xid \notin d.took \/ d.state \in Later
      PROVE  NotGivenBack(a, wire)'
  BY <1>2, <1>3, <1>6 DEF NotGivenBack
<1>7. AnswersCurrent'
  <2>1. SUFFICES ASSUME NEW m \in wire', m.type \in {"OFFER", "ACK"}, m.xid = c'.xid
                 PROVE  NotGivenBack(m.ip, wire)'
    BY DEF AnswersCurrent
  <2>2. m \notin d.sent
    BY <1>3, <2>1 DEF ClientTypes
  <2>3. m \in wire /\ d.xid \notin d.took /\ d.xid = c.xid
    BY <1>2, <1>3, <1>4, <2>1, <2>2
  <2>4. NotGivenBack(m.ip, wire)
    BY <1>2, <1>5, <2>1, <2>3 DEF AnswersCurrent, Current
  <2> QED
    BY <1>6, <2>3, <2>4
<1>8. ASSUME d.state \in Later PROVE NotGivenBack(d.offered, wire)'
  <2>1. NotGivenBack(d.offered, wire)
    BY <1>3, <1>5, <1>8 DEF Standing, AnswersCurrent, Current
  <2> QED
    BY <1>6, <1>8, <2>1
<1>9. c'.state \in Later => NotGivenBack(c.offered, wire)'
  BY <1>2, <1>8 DEF NotGivenBack
<1> QED
  BY <1>7, <1>9 DEF Current

LEMMA CurrentStep ==
  ASSUME CurrentInv, [Next]_vars
  PROVE  CurrentInv'
<1>1. DriveInv /\ (fresh => Current)
  BY DEF CurrentInv
<1>2. DriveInv'
  BY <1>1, DriveStep
<1>3. ASSUME c' = c, fresh' = fresh, declined' = declined, wire' \subseteq wire
      PROVE  CurrentInv'
  BY <1>1, <1>2, <1>3 DEF CurrentInv, Current, AnswersCurrent, NotGivenBack
<1>4. CASE \E d, n, rest : Handled(d, n, rest)
  BY <1>4, HandledCurrent
<1>5. CASE Elapse
  BY <1>3, <1>5 DEF Elapse
<1>6. CASE LinkDown
  <2>1. c' = c /\ fresh' = fresh /\ declined' = declined /\ wire' = {}
    BY <1>6 DEF LinkDown
  <2> QED
    BY <1>3, <2>1
<1>7. CASE UNCHANGED vars
  BY <1>3, <1>7 DEF vars, env
<1>8. ASSUME NEW m \in wire, Lose(m)
      PROVE  CurrentInv'
  BY <1>3, <1>8 DEF Lose
<1>9. ASSUME NEW m \in wire, Server(m)
      PROVE  CurrentInv'
  <2>1. c' = c /\ fresh' = fresh
    BY <1>9 DEF Server, Offer, Grant, TakeBack
  <2>2. ASSUME InOrder, declined' = declined,
               NEW r, wire' = (wire \ {m}) \cup {r}, r.type \notin GiveBacks,
               r.type \in {"OFFER", "ACK"} => r.ip \notin declined
        PROVE  CurrentInv'
    <3>1. \A x \in wire' : x.type \notin GiveBacks
      BY <2>2 DEF InOrder, GiveBacks
    <3>2. \A x \in wire' : x \in wire \/ x = r
      BY <2>2
    <3>3. \A a : NotGivenBack(a, wire)' <=> a \notin declined
      BY <2>2, <3>1 DEF NotGivenBack
    <3>4. Current => AnswersCurrent'
      BY <2>1, <2>2, <3>2, <3>3 DEF AnswersCurrent, NotGivenBack, Current
    <3>5. Current => (c'.state \in Later => NotGivenBack(c.offered, wire)')
      BY <2>1, <3>3 DEF NotGivenBack, Current
    <3> QED
      BY <1>1, <1>2, <2>1, <3>4, <3>5 DEF CurrentInv, Current
  <2>3. CASE Offer(m)
    <3>1. PICK a \in Addrs \ declined : Answer(m, "OFFER", a, NoLease)
      BY <2>3 DEF Offer
    <3> DEFINE r == [type |-> "OFFER", xid |-> m.xid, ip |-> a, lease |-> NoLease]
    <3>2. r.type = "OFFER" /\ r.ip \notin declined /\ wire' = (wire \ {m}) \cup {r}
      BY <3>1 DEF Answer
    <3> HIDE DEF r
    <3> QED
      BY <2>2, <2>3, <3>2 DEF Offer, GiveBacks
  <2>4. CASE Grant(m)
    <3>1. InOrder /\ declined' = declined
      BY <2>4 DEF Grant
    <3>2. ASSUME NEW l, m.ip \in Addrs \ declined, Answer(m, "ACK", m.ip, l)
          PROVE  CurrentInv'
      <4> DEFINE r == [type |-> "ACK", xid |-> m.xid, ip |-> m.ip, lease |-> l]
      <4>1. r.type = "ACK" /\ r.ip \notin declined /\ wire' = (wire \ {m}) \cup {r}
        BY <3>2 DEF Answer
      <4> HIDE DEF r
      <4> QED
        BY <2>2, <3>1, <4>1 DEF GiveBacks
    <3>3. ASSUME Answer(m, "NAK", None, NoLease)
          PROVE  CurrentInv'
      <4> DEFINE r == [type |-> "NAK", xid |-> m.xid, ip |-> None, lease |-> NoLease]
      <4>1. r.type = "NAK" /\ wire' = (wire \ {m}) \cup {r}
        BY <3>3 DEF Answer
      <4> HIDE DEF r
      <4> QED
        BY <2>2, <3>1, <4>1 DEF GiveBacks
    <3> QED
      BY <2>4, <3>2, <3>3 DEF Grant
  <2>5. CASE TakeBack(m)
    <3>1. wire' = wire \ {m} /\ m.type \in GiveBacks /\ declined' \subseteq declined \cup {m.ip}
      BY <2>5 DEF TakeBack, GiveBacks
    <3>2. \A a : NotGivenBack(a, wire) => NotGivenBack(a, wire)'
      BY <3>1 DEF NotGivenBack
    <3>3. Current => AnswersCurrent'
      BY <2>1, <3>1, <3>2 DEF AnswersCurrent, Current
    <3>4. Current => (c'.state \in Later => NotGivenBack(c.offered, wire)')
      <4>1. NotGivenBack(c.offered, wire) => (\A a : a = c.offered => NotGivenBack(a, wire)')
        BY <3>2
      <4> QED
        BY <2>1, <4>1 DEF NotGivenBack, Current
    <3> QED
      BY <1>1, <1>2, <2>1, <3>3, <3>4 DEF CurrentInv, Current
  <2> QED
    BY <1>9, <2>3, <2>4, <2>5 DEF Server
<1> QED
  BY <1>1, <1>4, <1>5, <1>6, <1>7, <1>8, <1>9, Cases

LEMMA CurrentInit == Init => CurrentInv
<1> SUFFICES ASSUME Init PROVE CurrentInv
  OBVIOUS
<1>1. DriveInv /\ wire = {} /\ c.state = "OFF"
  BY DriveInit DEF Init
<1> QED
  BY <1>1 DEF CurrentInv, Current, AnswersCurrent, Later

LEMMA CurrentAlways == Spec => []CurrentInv
<1>1. CurrentInv /\ [Next]_vars => CurrentInv'
  BY CurrentStep
<1> QED
  BY CurrentInit, <1>1, PTL DEF Spec

\* An answer to an earlier transaction never counts: the client does not check
\* or bind an address that the server knows it declined, however late or often
\* the answers to its earlier messages arrive (dhcp_recv's test of the id), as
\* long as every id taken so far was fresh: no message underway carried the
\* number that dhcp_create_msg drew, or the zero that dhcp_start put in its place.
\* dhcp.c compares the number with nothing, so this is a hypothesis on rand().
THEOREM DhcpNotADeclinedAddress == Spec => []NotADeclinedAddress
<1>1. ASSUME CurrentInv PROVE NotADeclinedAddress
  BY <1>1 DEF CurrentInv, Current, NotADeclinedAddress, Later, NotGivenBack
<1> QED
  BY CurrentAlways, <1>1, PTL

-----------------------------------------------------------------------------
(* The lease. *)

LEMMA RemainingIs ==
  ASSUME DriveInv
  PROVE  /\ c.t0 \in Int /\ c.used \in Int /\ (\A a \in Addrs : left[a] \in Int)
         /\ Remaining = (60 * (c.t0 - c.used)) - (30 + (IF half THEN 30 ELSE 0)
                                                     + (IF due THEN 60 ELSE 0))
         /\ Remaining \in Int
<1>1. c.t0 \in Int /\ c.used \in Int /\ \A a \in Addrs : left[a] \in Int
  <2>1. c \in Client /\ EnvOk
    BY DEF DriveInv, ClientOk
  <2>2. c.t0 \in 0 .. MaxU16 /\ c.used \in 0 .. MaxU16
    BY <2>1 DEF Client
  <2> QED
    BY <2>1, <2>2, Sizes DEF EnvOk
<1>2. half \in BOOLEAN /\ due \in BOOLEAN
  BY DEF DriveInv, EnvOk
<1>3. CoarseSecs \div 2 = 30
  BY DEF CoarseSecs
<1>4. Half(half) = (IF half THEN 30 ELSE 0) /\ Half(due) = (IF due THEN 30 ELSE 0)
  BY <1>3 DEF Half
<1>5. Remaining = 60 * (c.t0 - c.used) - 30 - Half(half) - 2 * Half(due)
  BY <1>3 DEF Remaining, CoarseSecs
<1> QED
  BY <1>1, <1>2, <1>4, <1>5

\* The server's leases are no shorter than half a coarse period, what the
\* client's timers can tell.
LongLeases == \A l \in Leases : l.t0 >= CoarseSecs \div 2

LEMMA GrantedIs ==
  ASSUME LongLeases, LeaseInv, fresh, NEW a, NEW l, Granted(a, l)
  PROVE  l >= CoarseSecs \div 2 /\ left[a] >= l
<1>1. CASE c.state = "CHECKING" /\ a = c.offered /\ l = c.lease.t0
  BY <1>1 DEF LeaseInv, LeaseCounted
<1>2. ASSUME NEW m \in wire, m.type = "ACK", m.xid = c.xid, a = m.ip,
             m.lease.t0 # NotGiven => l = m.lease.t0
      PROVE  l >= CoarseSecs \div 2 /\ left[a] >= l
  <2>1. m.lease \in Leases
    BY <1>2 DEF LeaseInv, CurrentInv, DriveInv, MessageOk
  <2>2. m.lease.t0 >= CoarseSecs \div 2
    BY <2>1 DEF LongLeases
  <2>3. m.lease.t0 # NotGiven
    BY <2>2 DEF CoarseSecs, NotGiven
  <2>4. left[m.ip] >= m.lease.t0
    BY <1>2 DEF LeaseInv, LeaseCounted
  <2> QED
    BY <1>2, <2>2, <2>3, <2>4
<1> QED
  BY <1>1, <1>2 DEF Granted

LEMMA HandledLease ==
  ASSUME LongLeases, LeaseInv, NEW d, NEW n, NEW rest, Handled(d, n, rest)
  PROVE  LeaseInv'
<1>1. CurrentInv /\ DriveInv /\ (fresh => LeaseCounted)
  BY DEF LeaseInv, CurrentInv
<1>2. CurrentInv' /\ DriveInv' /\ (fresh' => fresh)
  BY <1>1, HandledCurrent, HandledDrive, HandledIs
<1>3. SUFFICES ASSUME fresh' PROVE LeaseCounted'
  BY <1>2 DEF LeaseInv
<1>4. CurrentInv /\ DriveInv /\ LeaseCounted /\ fresh
  BY <1>1, <1>2, <1>3
<1>5. /\ c'.state = d.state /\ c'.xid = d.xid /\ c'.offered = d.offered
      /\ c'.lease = d.lease /\ c'.t0 = d.t0 /\ c'.used = d.used /\ c'.addr = d.addr
      /\ wire' \subseteq wire \cup d.sent /\ left' = left /\ declined' = declined
      /\ \A m \in wire' : m \in d.sent \/ m.xid \notin d.took \/ m.type = "ARP"
  BY <1>4, <1>3, HandledIs DEF Handled
<1>6. /\ \A m \in d.sent : m.type \in ClientTypes \cup {"ARP"}
      /\ \A m \in d.sent : m.type = "RELEASE" => d.t0 = 0
      /\ d.state = "CHECKING" => Granted(d.offered, d.lease.t0)
      /\ Counts(d, n)
      /\ d.xid = c.xid \/ d.xid \in d.took
  BY DEF Handled, Outcome, SendOk, Ids
<1>7. ASSUME NEW m \in wire', m.type = "ACK", m.xid = c'.xid
      PROVE  left'[m.ip] >= m.lease.t0
  <2>1. m \in wire /\ m.xid = c.xid
    BY <1>5, <1>6, <1>7 DEF ClientTypes
  <2> QED
    BY <1>4, <1>5, <1>7, <2>1 DEF LeaseCounted
<1>8. ASSUME c'.state = "CHECKING"
      PROVE  c'.lease.t0 >= CoarseSecs \div 2 /\ left'[c'.offered] >= c'.lease.t0
  BY <1>4, <1>5, <1>6, <1>8, GrantedIs
<1>9. ASSUME c'.t0 > 0, c'.addr # None
      PROVE  /\ \A m \in wire' : m.type = "RELEASE" => m.ip # c'.addr
             /\ c'.addr \notin declined' => left'[c'.addr] >= Remaining'
  <2>1. /\ d.t0 \in Int /\ d.used \in Int /\ Remaining' \in Int
        /\ Remaining' = (60 * (d.t0 - d.used)) - (30 + (IF half' THEN 30 ELSE 0)
                                                     + (IF due' THEN 60 ELSE 0))
    <3>1. (/\ c.t0 \in Int /\ c.used \in Int
           /\ Remaining = (60 * (c.t0 - c.used)) - (30 + (IF half THEN 30 ELSE 0)
                                                       + (IF due THEN 60 ELSE 0))
           /\ Remaining \in Int)'
      BY <1>2, RemainingIs, PTL
    <3> QED
      BY <1>5, <3>1
  <2>2. /\ c.t0 \in Int /\ c.used \in Int /\ Remaining \in Int
        /\ (\A a \in Addrs : left[a] \in Int)
        /\ Remaining = (60 * (c.t0 - c.used)) - (30 + (IF half THEN 30 ELSE 0)
                                                     + (IF due THEN 60 ELSE 0))
    BY <1>4, RemainingIs
  <2>3. d.addr \in Addrs
    <3>1. c' \in Client
      BY <1>2 DEF DriveInv, ClientOk
    <3> QED
      BY <1>5, <1>9, <3>1 DEF Client, IP
  <2>4. d.t0 # 0
    BY <1>5, <1>9, <2>1
  <2>5. CASE d.t0 = c.t0 /\ d.used = c.used + n /\ d.addr \in {c.addr, None}
    <3>1. d.addr = c.addr /\ c.t0 > 0 /\ c.addr # None
      BY <1>5, <1>9, <2>5
    <3>2. \A m \in wire' : m.type = "RELEASE" => m.ip # c'.addr
      BY <1>4, <1>5, <1>6, <2>4, <3>1 DEF LeaseCounted
    <3>3. Remaining' = Remaining
      <4>1. half' = half /\ ((n = 0 /\ due' = due) \/ (n = 1 /\ due = TRUE /\ due' = FALSE))
        BY DEF Handled
      <4>2. CASE n = 0 /\ due' = due
        BY <2>1, <2>2, <2>5, <4>1, <4>2
      <4>3. CASE n = 1 /\ due = TRUE /\ due' = FALSE
        <5>1. /\ Remaining' = (60 * (d.t0 - d.used)) - (30 + (IF half THEN 30 ELSE 0))
              /\ Remaining = (60 * (c.t0 - c.used)) - (90 + (IF half THEN 30 ELSE 0))
          BY <2>1, <2>2, <4>1, <4>3
        <5> QED
          BY <2>1, <2>2, <2>5, <4>3, <5>1
      <4> QED
        BY <4>1, <4>2, <4>3
    <3>4. c'.addr \notin declined' => left'[c'.addr] >= Remaining'
      BY <1>4, <1>5, <3>1, <3>3 DEF LeaseCounted
    <3> QED
      BY <3>2, <3>4
  <2>6. CASE /\ d.state = "BOUND" /\ d.addr = d.offered /\ d.used = 0
             /\ d.t0 = CoarseTicks(d.lease.t0) /\ Granted(d.offered, d.lease.t0)
    <3>1. d.lease.t0 >= CoarseSecs \div 2 /\ left[d.offered] >= d.lease.t0
      BY <1>4, <2>6, GrantedIs
    <3>2. d.lease.t0 \in Nat
      BY DEF Handled, Outcome, ClientOk, Client, Seconds
    <3>3. CoarseSecs * CoarseTicks(d.lease.t0) <= d.lease.t0 + CoarseSecs \div 2
      BY <3>1, <3>2, CoarseTicksIs
    <3>4. 60 * d.t0 <= d.lease.t0 + 30
      <4>1. CoarseSecs * d.t0 <= d.lease.t0 + CoarseSecs \div 2
        BY <2>6, <3>3
      <4> QED
        BY <4>1 DEF CoarseSecs
    <3>5. Remaining' <= 60 * d.t0 - 30
      <4>1. half' \in BOOLEAN /\ due' \in BOOLEAN
        BY <1>2 DEF DriveInv, EnvOk
      <4> QED
        BY <2>1, <2>6, <4>1
    <3>6. left[d.offered] >= Remaining'
      <4>1. left[d.offered] \in Int
        BY <2>2, <2>3, <2>6
      <4> QED
        BY <2>1, <3>1, <3>2, <3>4, <3>5, <4>1
    <3>7. \A m \in wire' : m.type = "RELEASE" => m.ip # c'.addr
      BY <1>2, <1>5, <1>3, <2>6 DEF CurrentInv, Current, Later, NotGivenBack, GiveBacks
    <3> QED
      BY <1>5, <2>6, <3>6, <3>7
  <2> QED
    BY <1>5, <1>6, <1>9, <2>5, <2>6 DEF Counts
<1> QED
  BY <1>7, <1>8, <1>9 DEF LeaseCounted

\* Half a minute: the server's count and the client's go down together.
LEMMA ElapseLease ==
  ASSUME LeaseInv, Elapse
  PROVE  LeaseInv'
<1>1. CurrentInv /\ DriveInv /\ (fresh => LeaseCounted)
  BY DEF LeaseInv, CurrentInv
<1>2. [Next]_vars
  BY DEF Next
<1>3. CurrentInv' /\ DriveInv'
  BY <1>1, <1>2, CurrentStep, DriveStep
<1>4. /\ c' = c /\ wire = {} /\ wire' = wire /\ c.state # "CHECKING" /\ declined' = declined
      /\ fresh' = fresh /\ half' = ~half /\ due' = half /\ ~due
      /\ left' = [a \in Addrs |-> IF left[a] > Ended
                                    THEN left[a] - CoarseSecs \div 2 ELSE left[a]]
  BY DEF Elapse
<1>5. ASSUME LeaseCounted, c.t0 > 0, c.addr # None, c.addr \notin declined
      PROVE  left'[c.addr] >= Remaining'
  <2>1. /\ c.t0 \in Int /\ c.used \in Int /\ Remaining \in Int
        /\ (\A a \in Addrs : left[a] \in Int)
        /\ Remaining = (60 * (c.t0 - c.used)) - (30 + (IF half THEN 30 ELSE 0)
                                                     + (IF due THEN 60 ELSE 0))
    BY <1>1, RemainingIs
  <2>2. /\ Remaining' = (60 * (c.t0 - c.used)) - (30 + (IF half' THEN 30 ELSE 0)
                                                     + (IF due' THEN 60 ELSE 0))
    <3>1. (Remaining = (60 * (c.t0 - c.used)) - (30 + (IF half THEN 30 ELSE 0)
                                                    + (IF due THEN 60 ELSE 0)))'
      BY <1>3, RemainingIs, PTL
    <3> QED
      BY <1>4, <3>1
  <2>3. c.addr \in Addrs /\ c.used < c.t0
    BY <1>1, <1>5 DEF DriveInv, ClientOk, Client, IP
  <2>4. left[c.addr] >= Remaining
    BY <1>5 DEF LeaseCounted
  <2>5. CoarseSecs \div 2 = 30 /\ Ended = -60
    BY DEF CoarseSecs, Ended
  <2>6. left'[c.addr] = IF left[c.addr] > -60 THEN left[c.addr] - 30 ELSE left[c.addr]
    BY <1>4, <2>3, <2>5
  <2>7. half \in BOOLEAN /\ due \in BOOLEAN
    BY <1>1 DEF DriveInv, EnvOk
  <2>8. CASE half = TRUE
    <3>1. /\ Remaining = (60 * (c.t0 - c.used)) - 60
          /\ Remaining' = (60 * (c.t0 - c.used)) - 90
      <4>1. ~due /\ ~half' /\ due' /\ half
        BY <1>4, <2>7, <2>8, Zenon
      <4> QED
        BY <2>1, <2>2, <4>1
    <3> QED
      BY <2>1, <2>3, <2>4, <2>6, <3>1
  <2>9. CASE half = FALSE
    <3>1. /\ Remaining = (60 * (c.t0 - c.used)) - 30
          /\ Remaining' = (60 * (c.t0 - c.used)) - 60
      <4>1. ~due /\ half' /\ ~due' /\ ~half
        BY <1>4, <2>7, <2>9, Zenon
      <4> QED
        BY <2>1, <2>2, <4>1
    <3> QED
      BY <2>1, <2>3, <2>4, <2>6, <3>1
  <2> QED
    BY <2>7, <2>8, <2>9
<1>6. LeaseCounted => LeaseCounted'
  BY <1>4, <1>5 DEF LeaseCounted
<1> QED
  BY <1>1, <1>3, <1>4, <1>6 DEF LeaseInv

LEMMA LeaseStep ==
  ASSUME LongLeases, LeaseInv, [Next]_vars
  PROVE  LeaseInv'
<1>1. CurrentInv /\ DriveInv /\ (fresh => LeaseCounted)
  BY DEF LeaseInv, CurrentInv
<1>2. CurrentInv'
  BY <1>1, CurrentStep
\* Steps that leave the client and the clock alone and take nothing from a lease
\* that somebody counts on.
<1>3. ASSUME c' = c, half' = half, due' = due
      PROVE  Remaining' = Remaining
  BY <1>3 DEF Remaining
<1>4. ASSUME c' = c, half' = half, due' = due, left' = left, declined' = declined,
             fresh' = fresh,
             \A m \in wire' : m \in wire \/ m.type \notin {"ACK", "RELEASE"}
      PROVE  LeaseInv'
  <2>1. Remaining' = Remaining
    BY <1>3, <1>4
  <2>2. LeaseCounted => LeaseCounted'
    BY <1>4, <2>1 DEF LeaseCounted
  <2> QED
    BY <1>1, <1>2, <1>4, <2>2 DEF LeaseInv
<1>5. CASE \E d, n, rest : Handled(d, n, rest)
  BY <1>5, HandledLease
<1>6. CASE Elapse
  BY <1>6, ElapseLease
<1>7. CASE LinkDown
  <2>1. /\ c' = c /\ declined' = declined /\ wire' = {} /\ left' = left /\ half' = half
        /\ due' = due /\ fresh' = fresh
    BY <1>7 DEF LinkDown, clock
  <2> QED
    BY <1>4, <2>1
<1>8. CASE UNCHANGED vars
  BY <1>4, <1>8 DEF vars, env, clock
<1>9. ASSUME NEW m \in wire, Lose(m)
      PROVE  LeaseInv'
  BY <1>4, <1>9 DEF Lose, clock
<1>10. ASSUME NEW m \in wire, Server(m)
       PROVE  LeaseInv'
  <2>1. c' = c /\ half' = half /\ due' = due /\ fresh' = fresh
    BY <1>10 DEF Server, Offer, Grant, TakeBack, clock
  <2>2. Remaining' = Remaining
    BY <1>3, <2>1
  <2>3. /\ left \in [Addrs -> Int] /\ MessageOk(m) /\ \A x \in wire : MessageOk(x)
        /\ c.offered \in IP /\ c.addr \in IP
        /\ c.state \in Later => c.offered \in Addrs
    BY <1>1 DEF DriveInv, EnvOk, ClientOk, Client
  <2>4. CASE Offer(m)
    <3>1. PICK a \in Addrs : Answer(m, "OFFER", a, NoLease)
      BY <2>4 DEF Offer
    <3>2. \A x \in wire' : x \in wire \/ x.type = "OFFER"
      BY <3>1 DEF Answer
    <3> QED
      BY <1>4, <2>1, <2>4, <3>2 DEF Offer
  <2>5. CASE Grant(m)
    <3>1. ASSUME NEW l \in Leases, m.ip \in Addrs \ declined, Answer(m, "ACK", m.ip, l),
                 left' = [left EXCEPT ![m.ip] = IF @ < l.t0 THEN l.t0 ELSE @]
          PROVE  LeaseInv'
      <4>0. SUFFICES ASSUME LeaseCounted PROVE LeaseCounted'
        BY <1>1, <1>2, <2>1 DEF LeaseInv
      <4> DEFINE r == [type |-> "ACK", xid |-> m.xid, ip |-> m.ip, lease |-> l]
      <4>1. r.type = "ACK" /\ r.ip = m.ip /\ r.lease.t0 = l.t0 /\ wire' = (wire \ {m}) \cup {r}
        BY <3>1 DEF Answer
      <4> HIDE DEF r
      <4>2. l.t0 \in Int
        BY LeaseTypes DEF NotGiven
      <4>3. left'[m.ip] >= l.t0 /\ \A a \in Addrs : \A k \in Int : left[a] >= k => left'[a] >= k
        BY <2>3, <3>1, <4>2
      <4>4. \A x \in wire' : x.type = "ACK" /\ x.xid = c'.xid => left'[x.ip] >= x.lease.t0
        <5>1. \A x \in wire : x.type = "ACK" => x.ip \in Addrs /\ x.lease.t0 \in Int
          BY <2>3, LeaseTypes DEF MessageOk, NotGiven
        <5> QED
          BY <2>1, <4>0, <4>1, <4>3, <5>1 DEF LeaseCounted
      <4>5. c'.state = "CHECKING" =>
              c'.lease.t0 >= CoarseSecs \div 2 /\ left'[c'.offered] >= c'.lease.t0
        <5>1. c.lease.t0 \in Int
          BY <1>1 DEF DriveInv, ClientOk, Client, Seconds
        <5> QED
          BY <2>1, <2>3, <4>0, <4>3, <5>1 DEF LeaseCounted, Later
      <4>6. c'.t0 > 0 /\ c'.addr # None =>
              /\ \A x \in wire' : x.type = "RELEASE" => x.ip # c'.addr
              /\ c'.addr \notin declined' => left'[c'.addr] >= Remaining'
        <5>1. declined' = declined /\ Remaining \in Int
          BY <1>1, <2>5, RemainingIs DEF Grant
        <5>2. c.addr # None => c.addr \in Addrs
          BY <2>3 DEF IP
        <5> QED
          BY <2>1, <2>2, <4>0, <4>1, <4>3, <5>1, <5>2 DEF LeaseCounted
      <4> QED
        BY <4>4, <4>5, <4>6 DEF LeaseCounted
    <3>2. ASSUME Answer(m, "NAK", None, NoLease), left' = left
          PROVE  LeaseInv'
      <4>1. declined' = declined /\ \A x \in wire' : x \in wire \/ x.type = "NAK"
        BY <2>5, <3>2 DEF Grant, Answer
      <4> QED
        BY <1>4, <2>1, <3>2, <4>1
    <3> QED
      BY <2>5, <3>1, <3>2 DEF Grant
  <2>6. CASE TakeBack(m)
    <3>0. SUFFICES ASSUME LeaseCounted, Current PROVE LeaseCounted'
      BY <1>1, <1>2, <2>1 DEF LeaseInv, CurrentInv
    <3>1. /\ wire' = wire \ {m} /\ m.type \in GiveBacks
          /\ declined' = (IF m.type = "DECLINE" THEN declined \cup {m.ip} ELSE declined)
          /\ \A a \in Addrs : a # m.ip => left'[a] = left[a]
      BY <2>3, <2>6 DEF TakeBack, GiveBacks
    <3>2. \A x \in wire' : x.type = "ACK" /\ x.xid = c'.xid => left'[x.ip] >= x.lease.t0
      <4>1. ASSUME NEW x \in wire', x.type = "ACK", x.xid = c'.xid
            PROVE  x \in wire /\ x.ip # m.ip /\ x.ip \in Addrs
        BY <2>1, <2>3, <3>0, <3>1, <4>1 DEF Current, AnswersCurrent, NotGivenBack, MessageOk
      <4> QED
        BY <2>1, <3>0, <3>1, <4>1 DEF LeaseCounted
    <3>3. c'.state = "CHECKING" =>
            c'.lease.t0 >= CoarseSecs \div 2 /\ left'[c'.offered] >= c'.lease.t0
      <4>1. c.state = "CHECKING" => c.offered # m.ip /\ c.offered \in Addrs
        BY <2>3, <3>0, <3>1 DEF Current, Later, NotGivenBack
      <4> QED
        BY <2>1, <3>0, <3>1, <4>1 DEF LeaseCounted
    <3>4. c'.t0 > 0 /\ c'.addr # None =>
            /\ \A x \in wire' : x.type = "RELEASE" => x.ip # c'.addr
            /\ c'.addr \notin declined' => left'[c'.addr] >= Remaining'
      <4>1. SUFFICES ASSUME c.t0 > 0, c.addr # None
                     PROVE  /\ \A x \in wire' : x.type = "RELEASE" => x.ip # c.addr
                            /\ c.addr \notin declined' => left'[c.addr] >= Remaining
        BY <2>1, <2>2
      <4>2. \A x \in wire : x.type = "RELEASE" => x.ip # c.addr
        BY <3>0, <4>1 DEF LeaseCounted
      <4>3. c.addr \notin declined' => m.ip # c.addr /\ c.addr \notin declined
        BY <3>1, <4>2 DEF GiveBacks
      <4>4. c.addr \in Addrs
        BY <2>3, <4>1 DEF IP
      <4> QED
        BY <3>0, <3>1, <4>1, <4>2, <4>3, <4>4 DEF LeaseCounted
    <3> QED
      BY <3>2, <3>3, <3>4 DEF LeaseCounted
  <2> QED
    BY <1>10, <2>4, <2>5, <2>6 DEF Server
<1> QED
  BY <1>1, <1>5, <1>6, <1>7, <1>8, <1>9, <1>10, Cases

\* While the client takes its address for leased, the server's lease ended at
\* most half a coarse period ago, for every lease of half a period or more: the
\* roundings of dhcp_bind, the tick of dhcp_coarse_tmr that comes too early or
\* too late and the answers that are late, lost or repeated included; as long as
\* every id taken so far was fresh, so that no earlier answer counts.
THEOREM DhcpLeaseHeld ==
  ASSUME LongLeases
  PROVE  Spec => []LeaseHeld
<1>1. Init => LeaseInv
  <2>2. ASSUME Init PROVE LeaseInv
    <3>1. CurrentInv /\ wire = {} /\ c.state = "OFF" /\ c.addr = None
      BY <2>2, CurrentInit DEF Init
    <3> QED
      BY <3>1 DEF LeaseInv, LeaseCounted
  <2> QED
    BY <2>2
<1>2. LeaseInv /\ [Next]_vars => LeaseInv'
  BY LeaseStep
<1>3. ASSUME LeaseInv PROVE LeaseHeld
  <2>1. SUFFICES ASSUME fresh, Supplied(c), c.addr = c.offered
                 PROVE  left[c.addr] >= -(CoarseSecs \div 2)
    BY DEF LeaseHeld
  <2>2. DriveInv /\ Current /\ LeaseCounted
    BY <1>3, <2>1 DEF LeaseInv, CurrentInv
  <2>3. /\ c.state \in Later /\ 0 < c.t0 /\ c.offered \in Addrs
        /\ c.t0 > 0 => c.used < c.t0
    BY <2>2, <2>1 DEF DriveInv, ClientOk, Supplied, Later
  <2>4. c.addr \notin declined /\ c.addr # None /\ c.addr \in Addrs
    BY <2>2, <2>1, <2>3, LeaseTypes DEF Current, NotGivenBack
  <2>5. /\ c.t0 \in Int /\ c.used \in Int /\ left[c.addr] \in Int /\ Remaining \in Int
        /\ Remaining = (60 * (c.t0 - c.used)) - (30 + (IF half THEN 30 ELSE 0)
                                                     + (IF due THEN 60 ELSE 0))
    BY <2>2, <2>4, RemainingIs
  <2>6. left[c.addr] >= Remaining
    <3>1. c.t0 > 0
      BY <2>3, <2>5
    <3> QED
      BY <2>2, <2>4, <3>1 DEF LeaseCounted
  <2>7. (IF half THEN 30 ELSE 0) + (IF due THEN 60 ELSE 0) <= 60
    BY <2>2 DEF DriveInv, EnvOk
  <2>8. Remaining >= -30
    <3>1. c.used < c.t0
      BY <2>3, <2>5
    <3> DEFINE gone == (IF half THEN 30 ELSE 0) + (IF due THEN 60 ELSE 0)
    <3>2. gone \in Int /\ gone <= 60 /\ Remaining = (60 * (c.t0 - c.used)) - (30 + gone)
      BY <2>5, <2>7
    <3> HIDE DEF gone
    <3> QED
      BY <2>5, <3>1, <3>2
  <2> QED
    BY <2>5, <2>6, <2>8 DEF CoarseSecs
<1> QED
  BY <1>1, <1>2, <1>3, PTL DEF Spec
=============================================================================
