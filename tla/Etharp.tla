-------------------------------- MODULE Etharp --------------------------------
(***************************************************************************)
(* lwIP's ARP table: its entries and their ageing, the packets queued on   *)
(* an entry whose address is not resolved yet, the queue elements they     *)
(* take from a pool shared by all entries, and the requests sent again for *)
(* entries in steady use.  Every operation runs under the core lock, so    *)
(* each is one step.  Of a queue only its length is kept.                  *)
(***************************************************************************)
EXTENDS Pools, FiniteSetsExt

CONSTANTS
  IPs,         \* unicast addresses on the link
  MACs,
  TableSize,   \* ARP_TABLE_SIZE
  PoolSize,    \* MEMP_NUM_ARP_QUEUE
  QueueLen,    \* ARP_QUEUE_LEN
  MaxAge,      \* ARP_MAXAGE
  Unicast,     \* ARP_AGE_REREQUEST_USED_UNICAST
  MaxPending,  \* ARP_MAXPENDING
  MaxQueries   \* bound: queries of the DHCP client

Nobody == "nobody"

ASSUME EtharpAssumption ==
  /\ {TableSize, PoolSize, QueueLen, MaxPending} \subseteq Nat \ {0}
  /\ {MaxAge, Unicast, MaxQueries} \subseteq Nat /\ 0 < Unicast /\ Unicast < MaxAge
  /\ Nobody \notin IPs

VARIABLES
  table,    \* arp_table
  free,     \* elements left in MEMP_ARP_QUEUE
  cached,   \* etharp_cached_entry
  queries

vars == <<table, free, cached, queries>>

Index == 1 .. TableSize
Stable == {"STABLE", "REREQUESTING_1", "REREQUESTING_2"}

\* Not in the code: the MAC last heard from the address, the requests since the
\* last update, whether a period passed unused or a request failed since the
\* entry is old, whether it was used since the last period.
Entry == [state : Stable \cup {"EMPTY", "PENDING"}, ip : IPs \cup {Nobody},
          mac : MACs \cup {Nobody}, ctime : 0 .. MaxAge - 1, q : 0 .. QueueLen,
          heard : MACs \cup {Nobody}, asked : 0 .. MaxAge, lapse : BOOLEAN, used : BOOLEAN]

Empty == [state |-> "EMPTY", ip |-> Nobody, mac |-> Nobody, ctime |-> 0, q |-> 0,
          heard |-> Nobody, asked |-> 0, lapse |-> FALSE, used |-> FALSE]

Init ==
  /\ table = [i \in Index |-> Empty] /\ free = PoolSize /\ cached = 1
  /\ queries = 0

\* The queue elements each entry has.
Queues == [i \in Index |-> table[i].q]

-----------------------------------------------------------------------------
(* Finding and freeing entries. *)

\* The entry that holds ip, 0 if none does.
Match(t, ip) ==
  LET m == {i \in Index : t[i].state # "EMPTY" /\ t[i].ip = ip}
  IN IF m = {} THEN 0 ELSE Min(m)

\* The last of the oldest, as the sweep compares with >=.
Oldest(t, S) ==
  Max({i \in S : \A j \in S : t[j].ctime <= t[i].ctime})

\* etharp_find_entry, its choice of an entry to recycle when none is empty:
\* the oldest stable, pending without packets, pending with packets.
Recycled(t) ==
  LET stable == {i \in Index : t[i].state \in Stable}
      idle   == {i \in Index : t[i].state = "PENDING" /\ t[i].q = 0}
      busy   == {i \in Index : t[i].state = "PENDING" /\ t[i].q > 0}
  IN IF stable # {} THEN Oldest(t, stable)
     ELSE IF idle # {} THEN Oldest(t, idle) ELSE Oldest(t, busy)

\* The first empty entry ends the search.
Mut_FindEntry(ip, hard) ==
  LET empty == {i \in Index : table[i].state = "EMPTY"}
  IN IF empty = {} /\ Match(table, ip) # 0 THEN Match(table, ip)
     ELSE IF ~hard THEN Match(table, ip)
     ELSE IF empty # {} THEN Min(empty) ELSE Recycled(table)

\* etharp_find_entry: the index of ip's entry or of one to create it in; 0
\* is ERR_MEM.  hard: ETHARP_FLAG_TRY_HARD, else ETHARP_FLAG_FIND_ONLY.
FindEntry(ip, hard) ==
  LET empty == {i \in Index : table[i].state = "EMPTY"}
  IN IF Match(table, ip) # 0 \/ ~hard THEN Match(table, ip)
     ELSE IF empty # {} THEN Min(empty) ELSE Recycled(table)

\* The table once entry i is ip's: etharp_free_entry on what it held.
Taken(i, ip) ==
  IF table[i].state # "EMPTY" /\ table[i].ip = ip THEN table[i]
  ELSE [Empty EXCEPT !.ip = ip]

\* The elements of an entry that is recycled are lost.
Mut_Returned(i, ip) == 0

\* free_etharp_q: the queue elements that come back when i becomes ip's.
Returned(i, ip) ==
  IF table[i].state # "EMPTY" /\ table[i].ip = ip THEN 0 ELSE table[i].q

-----------------------------------------------------------------------------
(* The operations. *)

\* etharp_update_arp_entry: entry i becomes stable and its queue is sent.
UpdateArpEntry(i, ip, mac) ==
  LET t == [table EXCEPT ![i] =
              [Empty EXCEPT !.state = "STABLE", !.ip = ip, !.mac = mac]]
  IN /\ table' = [j \in Index |-> IF t[j].ip = ip THEN [t[j] EXCEPT !.heard = mac] ELSE t[j]]
     /\ free' = free + Returned(i, ip) + Taken(i, ip).q

\* etharp_input: an ARP message from ip; only one to us makes an entry.  A
\* reply to a request of ours goes out unseen; dhcp_arp_reply is Dhcp's.
EtharpInput(ip, mac, for_us) ==
  /\ LET i == FindEntry(ip, for_us)
     IN IF i = 0 THEN UNCHANGED <<table, free>> ELSE UpdateArpEntry(i, ip, mac)
  /\ UNCHANGED <<cached, queries>>

\* etharp_output_to_arp_index: an old entry in use is asked for, by unicast
\* and then by broadcast; ok: there is a pbuf for the request.
OutputToArpIndex(i, ok) ==
  LET e   == table[i]
      old == e.state = "STABLE" /\ e.ctime >= Unicast
  IN table' = [table EXCEPT ![i] =
       [e EXCEPT !.used = TRUE,
                 !.state = IF old /\ ok THEN "REREQUESTING_1" ELSE @,
                 !.asked = IF old /\ ok THEN @ + 1 ELSE @,
                 !.lapse = @ \/ (old /\ ~ok)]]

\* The length of the queue with one packet more; past ARP_QUEUE_LEN the
\* oldest goes.
Queued(e) == IF e.q >= QueueLen THEN e.q ELSE e.q + 1

\* etharp_query with a packet, for an address that is not stable: the entry
\* is found or made and the packet queued, if there is an element for it; ok:
\* a packet that must be copied could be.
EtharpQuery(ip, ok) ==
  LET i    == FindEntry(ip, TRUE)
      e    == [Taken(i, ip) EXCEPT !.state = "PENDING"]
      pool == free + Returned(i, ip)
  IN IF ~ok \/ pool = 0
       THEN table' = [table EXCEPT ![i] = e] /\ free' = pool
       ELSE /\ table' = [table EXCEPT ![i] = [e EXCEPT !.q = Queued(e)]]
            /\ free' = pool - (Queued(e) - e.q)

\* etharp_output to an address on the link: the cached entry, else the first
\* stable one, else etharp_query.
EtharpOutput(ip) ==
  LET hit  == table[cached].state \in Stable /\ table[cached].ip = ip
      good == {i \in Index : table[i].state \in Stable /\ table[i].ip = ip}
      i    == IF hit THEN cached ELSE Min(good)
  IN /\ IF hit \/ good # {}
          THEN /\ \E ok \in BOOLEAN : OutputToArpIndex(i, ok)
               /\ cached' = i /\ UNCHANGED free
          ELSE (\E ok \in BOOLEAN : EtharpQuery(ip, ok)) /\ UNCHANGED cached
     /\ UNCHANGED queries

\* etharp_query without a packet, from dhcp_check: a pending entry that is
\* asked for again becomes young.
DhcpQuery(ip) ==
  LET i == FindEntry(ip, TRUE)
      e == Taken(i, ip)
      f == [e EXCEPT !.state = IF @ = "EMPTY" THEN "PENDING" ELSE @]
  IN /\ queries < MaxQueries /\ queries' = queries + 1
     /\ free' = free + Returned(i, ip)
     /\ \E ok \in BOOLEAN :
          table' = [table EXCEPT ![i] =
                      IF ok /\ e.state = "PENDING" THEN [f EXCEPT !.ctime = 0] ELSE f]
     /\ UNCHANGED cached

\* Too old, or pending too long.
Expires(e) ==
  /\ e.state # "EMPTY"
  /\ \/ e.ctime + 1 >= MaxAge
     \/ e.state = "PENDING" /\ e.ctime + 1 >= MaxPending

\* An entry asked for once is not asked for again.
Mut_Aged(e) ==
  IF e.state = "EMPTY" \/ Expires(e) THEN Empty
  ELSE [e EXCEPT !.ctime = @ + 1, !.used = FALSE,
                 !.lapse = @ \/ (e.state \in Stable /\ e.ctime >= Unicast /\ ~e.used),
                 !.state = IF @ = "REREQUESTING_1" THEN "REREQUESTING_2" ELSE @]

\* A pending entry becomes young when it is asked for again.
Mut_AgedPending(e) ==
  IF e.state = "EMPTY" \/ Expires(e) THEN Empty
  ELSE IF e.state = "PENDING" THEN [e EXCEPT !.ctime = 0]
  ELSE [e EXCEPT !.ctime = @ + 1]

\* One entry in etharp_tmr; a pending one is asked for again, unseen here.
Aged(e) ==
  IF e.state = "EMPTY" \/ Expires(e) THEN Empty
  ELSE [e EXCEPT !.ctime = @ + 1, !.used = FALSE,
                 !.lapse = @ \/ (e.state \in Stable /\ e.ctime >= Unicast /\ ~e.used),
                 !.state = IF @ = "REREQUESTING_1" THEN "REREQUESTING_2"
                           ELSE IF @ = "REREQUESTING_2" THEN "STABLE" ELSE @]

\* etharp_tmr, once a second.
EtharpTmr ==
  /\ table' = [i \in Index |-> Aged(table[i])]
  /\ free' = free + Held({i \in Index : Expires(table[i])}, Queues)
  /\ UNCHANGED <<cached, queries>>

Next ==
  \/ \E ip \in IPs, mac \in MACs, for_us \in BOOLEAN : EtharpInput(ip, mac, for_us)
  \/ \E ip \in IPs : EtharpOutput(ip) \/ DhcpQuery(ip)
  \/ EtharpTmr

Spec == Init /\ [][Next]_vars

\* etharp_tmr is a cyclic timer of tcpip_thread.
FairSpec == Spec /\ WF_vars(EtharpTmr)

-----------------------------------------------------------------------------
(* Properties. *)

\* Ages, queues and the pool stay in range.
TypeOK ==
  /\ table \in [Index -> Entry] /\ free \in 0 .. PoolSize /\ cached \in Index
  /\ queries \in 0 .. MaxQueries

\* Every queue element is free or on one entry: none is lost when an entry is
\* updated, expires or is recycled under another address.
ElementsConserved ==
  free + Held(Index, Queues) = PoolSize

\* No address has two entries, whatever was recycled: an update or an expiry
\* of one would leave the other.
OneEntryPerAddress ==
  \A i, j \in Index :
    table[i].state # "EMPTY" /\ table[j].state # "EMPTY" /\ table[i].ip = table[j].ip
      => i = j

\* The table and the pool stay whole.
TableInv == TypeOK /\ ElementsConserved /\ OneEntryPerAddress

\* A stable entry has the MAC its address last announced, and no packet waits
\* behind it (the assertion in etharp_find_entry): a packet sent at once does
\* not overtake one queued before.
StableIsCurrent ==
  \A i \in Index :
    table[i].state \in Stable =>
      table[i].mac = table[i].heard /\ table[i].q = 0

\* An entry in steady use is asked for again every two periods from the age on
\* at which re-requests begin, so that one answer keeps it from expiring.
SteadyUseAsks ==
  \A i \in Index :
    LET e == table[i]
    IN e.state \in Stable /\ e.ctime >= Unicast /\ ~e.lapse
         => 2 * e.asked >= e.ctime - Unicast

\* A queued packet does not stay: the address is resolved, or the entry
\* expires.
QueueEmpties ==
  \A ip \in IPs :
    (\E i \in Index : table[i].ip = ip /\ table[i].q > 0)
      ~> ~(\E i \in Index : table[i].ip = ip /\ table[i].q > 0)
===============================================================================
