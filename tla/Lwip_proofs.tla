----------------------------- MODULE Lwip_proofs -----------------------------
(***************************************************************************)
(* The ARP table for any number of entries, addresses and queue elements   *)
(* and any ages; and the list of sys_timeout for any cyclic timers, any    *)
(* intervals and any clock whose half range holds two intervals and two    *)
(* turns of tcpip_thread's loop.                                           *)
(***************************************************************************)
EXTENDS Etharp, LwipTimeouts, Structures_proofs

-----------------------------------------------------------------------------
(* The ARP table. *)

\* Requests an entry in this state is ahead of one every two periods, doubled.
Ahead(state) ==
  IF state = "REREQUESTING_1" THEN 2 ELSE IF state = "REREQUESTING_2" THEN 1 ELSE 0

\* What the table's properties need of one entry: a free one is blank, a
\* request brings two periods of rest, and an old entry used in this period was
\* asked for or the request failed.
EntryInv(e) ==
  /\ e.state = "EMPTY" => e = Empty
  /\ e.state \notin Stable => e.asked = 0
  /\ e.asked > 0 => 2 * e.asked <= e.ctime - Unicast + Ahead(e.state)
  /\ e.state \in {"REREQUESTING_1", "REREQUESTING_2"} => e.ctime >= Unicast
  /\ e.state = "STABLE" /\ e.ctime >= Unicast /\ e.used => e.lapse
  /\ e.state \in Stable /\ e.ctime >= Unicast /\ ~e.lapse
       => 2 * e.asked >= e.ctime - Unicast + Ahead(e.state)
  /\ e.state \in Stable => e.mac = e.heard /\ e.q = 0

ArpInv == TableInv /\ \A i \in Index : EntryInv(table[i])

-----------------------------------------------------------------------------
(* Choosing an entry. *)

LEMMA MinIn ==
  ASSUME NEW S \in SUBSET Nat, S # {}
  PROVE  Min(S) \in S
BY LeastExists DEF Min

LEMMA GreatestExists ==
  ASSUME NEW S, S # {}, NEW f, NEW b \in Nat, \A x \in S : f[x] \in 0 .. b
  PROVE  \E x \in S : \A y \in S : f[y] <= f[x]
<1> DEFINE D == {b - f[x] : x \in S}
<1>1. D \in SUBSET Nat /\ D # {}
  OBVIOUS
<1>2. PICK d \in D : \A y \in D : d <= y
  BY <1>1, LeastExists
<1>3. PICK x \in S : d = b - f[x]
  OBVIOUS
<1>4. \A y \in S : b - f[x] <= b - f[y]
  BY <1>2, <1>3
<1> QED
  BY <1>4

LEMMA MaxIn ==
  ASSUME NEW n \in Nat, NEW S \in SUBSET (0 .. n), S # {}
  PROVE  Max(S) \in S
<1> DEFINE id == [x \in S |-> x]
<1>1. \A x \in S : id[x] \in 0 .. n
  OBVIOUS
<1>2. \E x \in S : \A y \in S : id[y] <= id[x]
  <2> HIDE DEF id
  <2> QED
    BY <1>1, GreatestExists
<1>3. \E x \in S : \A y \in S : y <= x
  BY <1>2
<1>4. \E x \in S : \A y \in S : x >= y
  BY <1>3
<1> QED
  BY <1>4 DEF Max

LEMMA OldestIn ==
  ASSUME TypeOK, NEW S \in SUBSET Index, S # {}
  PROVE  Oldest(table, S) \in S
<1> DEFINE age == [i \in S |-> table[i].ctime]
           T == {i \in S : \A j \in S : table[j].ctime <= table[i].ctime}
<1>1. \A i \in S : age[i] \in 0 .. MaxAge
  BY EtharpAssumption DEF TypeOK, Entry
<1>2. \E i \in S : \A j \in S : age[j] <= age[i]
  <2> HIDE DEF age
  <2> QED
    BY <1>1, GreatestExists, EtharpAssumption
<1>3. T # {} /\ T \in SUBSET (0 .. TableSize) /\ T \in SUBSET S
  <2>1. \E i \in S : \A j \in S : table[j].ctime <= table[i].ctime
    BY <1>2
  <2>2. TableSize \in Nat /\ T \in SUBSET S
    BY EtharpAssumption
  <2>3. \A i \in S : i \in 0 .. TableSize
    BY <2>2 DEF Index
  <2> QED
    BY <2>1, <2>2, <2>3
<1>4. Max(T) \in T
  <2> HIDE DEF T
  <2> QED
    BY <1>3, MaxIn, EtharpAssumption
<1> QED
  BY <1>3, <1>4 DEF Oldest

\* An entry to recycle is one of the table.
LEMMA RecycledIn ==
  ASSUME TypeOK, \A i \in Index : table[i].state # "EMPTY"
  PROVE  Recycled(table) \in Index
<1> DEFINE stable == {i \in Index : table[i].state \in Stable}
           idle   == {i \in Index : table[i].state = "PENDING" /\ table[i].q = 0}
           waiting == {i \in Index : table[i].state = "PENDING" /\ table[i].q > 0}
<1>1. \A i \in Index : table[i].state \in Stable \cup {"PENDING"} /\ table[i].q \in Nat
  BY EtharpAssumption DEF TypeOK, Entry
<1>2. 1 \in Index
  BY EtharpAssumption DEF Index
<1>3. stable # {} \/ idle # {} \/ waiting # {}
  BY <1>1, <1>2
<1>4. /\ stable # {} => Oldest(table, stable) \in stable
      /\ idle # {} => Oldest(table, idle) \in idle
      /\ waiting # {} => Oldest(table, waiting) \in waiting
  <2>1. stable \in SUBSET Index /\ idle \in SUBSET Index /\ waiting \in SUBSET Index
    OBVIOUS
  <2> HIDE DEF stable, idle, waiting
  <2> QED
    BY <2>1, OldestIn
<1>5. Recycled(table) = IF stable # {} THEN Oldest(table, stable)
                        ELSE IF idle # {} THEN Oldest(table, idle)
                        ELSE Oldest(table, waiting)
  BY DEF Recycled
<1> QED
  BY <1>3, <1>4, <1>5

\* etharp_find_entry returns the entry of ip, or one to make it in if asked to
\* try hard; no other entry is ip's.
LEMMA FindEntryIn ==
  ASSUME TypeOK, OneEntryPerAddress, NEW ip \in IPs, NEW hard \in BOOLEAN
  PROVE  /\ FindEntry(ip, hard) \in Index \cup {0}
         /\ hard => FindEntry(ip, hard) \in Index
         /\ \A j \in Index : table[j].state # "EMPTY" /\ table[j].ip = ip
                               => j = FindEntry(ip, hard)
<1> DEFINE m == {i \in Index : table[i].state # "EMPTY" /\ table[i].ip = ip}
           empty == {i \in Index : table[i].state = "EMPTY"}
<1>1. m \in SUBSET Nat /\ empty \in SUBSET Nat
  BY DEF Index
<1>2. (m # {} => Min(m) \in m) /\ (empty # {} => Min(empty) \in empty)
  <2> HIDE DEF m, empty
  <2> QED
    BY <1>1, MinIn
<1>3. Match(table, ip) = IF m = {} THEN 0 ELSE Min(m)
  BY DEF Match
<1>4. Match(table, ip) # 0 <=> m # {}
  BY <1>2, <1>3 DEF Index
<1>5. empty = {} => Recycled(table) \in Index
  BY RecycledIn
<1>6. FindEntry(ip, hard) = IF Match(table, ip) # 0 \/ ~hard THEN Match(table, ip)
                            ELSE IF empty # {} THEN Min(empty) ELSE Recycled(table)
  BY DEF FindEntry
<1>7. FindEntry(ip, hard) \in Index \cup {0} /\ (hard => FindEntry(ip, hard) \in Index)
  BY <1>2, <1>3, <1>4, <1>5, <1>6
<1>8. \A j \in m : j = Min(m)
  BY <1>2 DEF OneEntryPerAddress
<1>9. \A j \in m : j = FindEntry(ip, hard)
  BY <1>3, <1>4, <1>6, <1>8
<1> QED
  BY <1>7, <1>9

-----------------------------------------------------------------------------
(* The steps. *)

\* The constants, one by one.
LEMMA Ranges ==
  /\ TableSize \in Nat /\ PoolSize \in Nat /\ QueueLen \in Nat /\ MaxAge \in Nat
  /\ Unicast \in Nat /\ 0 < Unicast /\ Unicast < MaxAge /\ MaxQueries \in Nat
  /\ 0 < TableSize /\ 0 < QueueLen /\ 0 < PoolSize
  /\ IsFiniteSet(Index)
<1>1. /\ TableSize \in Nat /\ PoolSize \in Nat /\ QueueLen \in Nat /\ MaxAge \in Nat
      /\ Unicast \in Nat /\ 0 < Unicast /\ Unicast < MaxAge /\ MaxQueries \in Nat
      /\ 0 < TableSize /\ 0 < QueueLen /\ 0 < PoolSize
  BY EtharpAssumption
<1>2. IsFiniteSet(1 .. TableSize)
  BY <1>1, FS_Interval
<1> QED
  BY <1>1, <1>2 DEF Index

\* The queues, and the pool in another form.
LEMMA QueueSum ==
  ASSUME TypeOK
  PROVE  /\ \A i \in Index : Queues[i] = table[i].q /\ Queues[i] \in Nat
         /\ Held(Index, Queues) \in Nat
<1>1. \A i \in Index : Queues[i] = table[i].q /\ Queues[i] \in Nat
  BY Ranges DEF TypeOK, Entry, Queues
<1> QED
  BY <1>1, Ranges, HeldType

\* A step that replaces one entry: what its queue gives up the pool gains, and
\* no other entry has its address.
LEMMA EntryReplaced ==
  ASSUME ArpInv, NEW i \in Index, NEW e \in Entry, EntryInv(e),
         table' = [table EXCEPT ![i] = e],
         free' \in Nat, free' + e.q = free + table[i].q,
         e.state # "EMPTY" =>
           \A j \in Index : table[j].state # "EMPTY" /\ table[j].ip = e.ip => j = i,
         cached' \in Index, queries' \in 0 .. MaxQueries
  PROVE  ArpInv'
<1>1. table' \in [Index -> Entry]
      /\ \A j \in Index : table'[j] = IF j = i THEN e ELSE table[j]
  BY DEF ArpInv, TableInv, TypeOK
<1>2. \A j \in Index : Queues'[j] = table'[j].q /\ Queues'[j] \in Nat
  BY <1>1, Ranges DEF Entry, Queues
<1>3. \A j \in Index : Queues[j] = table[j].q /\ Queues[j] \in Nat
  BY QueueSum DEF ArpInv, TableInv
<1>4. Held(Index, Queues') = Held(Index, Queues) - table[i].q + e.q
  <2>1. \A j \in Index : /\ Queues[j] \in Nat /\ Queues'[j] \in Nat
                         /\ j # i => Queues'[j] = Queues[j]
    BY <1>1, <1>2, <1>3
  <2>2. Held(Index, Queues') = Held(Index, Queues) - Queues[i] + Queues'[i]
    BY <2>1, Ranges, HeldUpdate
  <2> QED
    BY <1>1, <1>2, <1>3, <2>2
<1>5. free' + Held(Index, Queues') = PoolSize
  <2>1. free + Held(Index, Queues) = PoolSize /\ free \in Nat
        /\ Held(Index, Queues) \in Nat /\ table[i].q \in Nat /\ e.q \in Nat
    BY Ranges, QueueSum DEF ArpInv, TableInv, ElementsConserved, TypeOK, Entry
  <2> QED
    BY <1>4, <2>1
<1>6. Held(Index, Queues') \in Nat
  BY <1>2, Ranges, HeldType
<1>7. TypeOK'
  BY <1>1, <1>5, <1>6, Ranges DEF TypeOK
<1>8. ElementsConserved'
  BY <1>5 DEF ElementsConserved
<1>9. OneEntryPerAddress'
  BY <1>1 DEF ArpInv, TableInv, OneEntryPerAddress
<1>10. \A j \in Index : EntryInv(table'[j])
  BY <1>1 DEF ArpInv
<1> QED
  BY <1>7, <1>8, <1>9, <1>10 DEF ArpInv, TableInv, EntryInv, Ahead

LEMMA EmptyEntry == Empty \in Entry
<1>1. 0 \in 0 .. MaxAge - 1 /\ 0 \in 0 .. QueueLen /\ 0 \in 0 .. MaxAge
  BY Ranges
<1> QED
  BY <1>1 DEF Empty, Entry

\* A blank entry, made for ip, or the one ip has.
LEMMA TakenEntry ==
  ASSUME ArpInv, NEW i \in Index, NEW ip \in IPs
  PROVE  /\ Taken(i, ip) \in Entry /\ Taken(i, ip).ip = ip
         /\ Returned(i, ip) \in Nat
         /\ Returned(i, ip) + Taken(i, ip).q = table[i].q
         /\ \/ Taken(i, ip) = table[i] /\ table[i].state # "EMPTY" /\ table[i].ip = ip
            \/ Taken(i, ip) = [Empty EXCEPT !.ip = ip]
<1>1. table[i] \in Entry /\ table[i].q \in Nat
  BY Ranges DEF ArpInv, TableInv, TypeOK, Entry
<1>2. [Empty EXCEPT !.ip = ip] \in Entry
  BY EmptyEntry DEF Entry
<1> QED
  BY <1>1, <1>2 DEF Taken, Returned, Empty

\* An ARP message from ip.
LEMMA InputStep ==
  ASSUME ArpInv, NEW ip \in IPs, NEW mac \in MACs, NEW for_us \in BOOLEAN,
         EtharpInput(ip, mac, for_us)
  PROVE  ArpInv'
<1> DEFINE i == FindEntry(ip, for_us)
           made == [Empty EXCEPT !.state = "STABLE", !.ip = ip, !.mac = mac]
           e == [made EXCEPT !.heard = mac]
<1>1. UNCHANGED <<cached, queries>> /\ TypeOK /\ OneEntryPerAddress
  BY DEF EtharpInput, ArpInv, TableInv
<1>2. /\ i \in Index \cup {0}
      /\ \A j \in Index : table[j].state # "EMPTY" /\ table[j].ip = ip => j = i
  BY <1>1, FindEntryIn
<1>3. CASE i = 0
  <2>1. UNCHANGED <<table, free>>
    BY <1>3 DEF EtharpInput
  <2>2. Queues' = Queues
    BY <2>1 DEF Queues
  <2>3. Held(Index, Queues') = Held(Index, Queues)
    BY <2>2, Zenon
  <2> QED
    BY <1>1, <2>1, <2>3
    DEF ArpInv, TableInv, TypeOK, ElementsConserved, OneEntryPerAddress, EntryInv, Ahead
<1>4. CASE i # 0
  <2>1. i \in Index
    BY <1>2, <1>4
  <2>2. /\ made \in Entry /\ made.ip = ip /\ made.state = "STABLE" /\ made.mac = mac
        /\ made.q = 0 /\ made.ctime = 0 /\ made.asked = 0
    BY EmptyEntry DEF Entry, Empty, Stable
  <2>3. /\ e \in Entry /\ e.ip = ip /\ e.state = "STABLE" /\ e.q = 0 /\ e.ctime = 0
        /\ e.asked = 0 /\ e.mac = mac /\ e.heard = mac
    BY EmptyEntry, <2>2 DEF Entry
  <2>4. \A j \in Index : j # i => table[j].ip # ip
    BY <1>2, EtharpAssumption DEF ArpInv, EntryInv, Empty
  <2>5. UpdateArpEntry(i, ip, mac)
    BY <1>4 DEF EtharpInput
  <2>6. table' = [table EXCEPT ![i] = e]
    <3> DEFINE t == [table EXCEPT ![i] = made]
    <3>1. table' = [j \in Index |->
                      IF t[j].ip = ip THEN [t[j] EXCEPT !.heard = mac] ELSE t[j]]
      BY <2>5 DEF UpdateArpEntry
    <3>2. \A j \in Index : t[j] = IF j = i THEN made ELSE table[j]
      BY <1>1, <2>1 DEF TypeOK
    <3>3. \A j \in Index : table'[j] = IF j = i THEN e ELSE table[j]
      <4> HIDE DEF made, t, i
      <4>1. table'[i] = [made EXCEPT !.heard = mac]
        BY <2>1, <2>2, <3>1, <3>2
      <4>2. \A j \in Index : j # i => table'[j] = table[j]
        BY <2>4, <3>1, <3>2
      <4> QED
        BY <4>1, <4>2
    <3> HIDE DEF e, t, i
    <3> QED
      BY <1>1, <2>1, <3>1, <3>3 DEF TypeOK
  <2>7. EntryInv(e)
    BY <2>3, Ranges DEF EntryInv, Stable, Ahead
  <2>8. free' = free + Returned(i, ip) + Taken(i, ip).q
    BY <2>5 DEF UpdateArpEntry
  <2>9. /\ Returned(i, ip) \in Nat
        /\ Returned(i, ip) + Taken(i, ip).q = table[i].q
        /\ Taken(i, ip).q \in Nat /\ free \in Nat
    BY <1>1, <2>1, TakenEntry, Ranges DEF Entry, TypeOK
  <2>10. free' \in Nat /\ free' + e.q = free + table[i].q
    BY <2>3, <2>8, <2>9
  <2> HIDE DEF e, i, made
  <2> QED
    BY <1>1, <1>2, <2>1, <2>3, <2>6, <2>7, <2>10, EntryReplaced DEF TypeOK
<1> QED
  BY <1>3, <1>4

\* A packet to an address that has a stable entry.
LEMMA UseStep ==
  ASSUME ArpInv, NEW i \in Index, NEW ok \in BOOLEAN, OutputToArpIndex(i, ok),
         table[i].state \in Stable, cached' \in Index, UNCHANGED <<free, queries>>
  PROVE  ArpInv'
<1> DEFINE old == table[i].state = "STABLE" /\ table[i].ctime >= Unicast
           e == [table[i] EXCEPT !.used = TRUE,
                   !.state = IF old /\ ok THEN "REREQUESTING_1" ELSE @,
                   !.asked = IF old /\ ok THEN @ + 1 ELSE @,
                   !.lapse = @ \/ (old /\ ~ok)]
<1>1. table' = [table EXCEPT ![i] = e]
  BY DEF OutputToArpIndex
<1>2. TypeOK /\ table[i] \in Entry /\ EntryInv(table[i])
  BY DEF ArpInv, TableInv, TypeOK
<1>3. /\ table[i].ctime \in 0 .. MaxAge - 1 /\ table[i].asked \in 0 .. MaxAge
      /\ table[i].q \in Nat
  BY <1>2, Ranges DEF Entry
<1>4. /\ e.ip = table[i].ip /\ e.q = table[i].q /\ e.ctime = table[i].ctime
      /\ e.mac = table[i].mac /\ e.heard = table[i].heard /\ e.used = TRUE
      /\ e.state = (IF old /\ ok THEN "REREQUESTING_1" ELSE table[i].state)
      /\ e.asked = (IF old /\ ok THEN table[i].asked + 1 ELSE table[i].asked)
      /\ e.lapse = (table[i].lapse \/ (old /\ ~ok))
  BY <1>2 DEF Entry
<1>5. old /\ ok => table[i].asked + 1 \in 0 .. MaxAge
  BY <1>2, <1>3, Ranges DEF EntryInv, Ahead
<1>6. e \in Entry
  BY <1>2, <1>5 DEF Entry, Stable
<1>7. EntryInv(e)
  <2> HIDE DEF e
  <2>1. CASE old /\ ok
    <3>1. /\ e.state = "REREQUESTING_1" /\ e.asked = table[i].asked + 1
          /\ e.ctime = table[i].ctime /\ (e.lapse <=> table[i].lapse)
      BY <1>4, <2>1
    <3> QED
      BY <1>2, <1>3, <1>4, <2>1, <3>1, Ranges DEF EntryInv, Ahead, Stable
  <2>2. CASE old /\ ~ok
    <3>1. e.state = "STABLE" /\ e.asked = table[i].asked /\ e.lapse
      BY <1>4, <2>2
    <3> QED
      BY <1>2, <1>3, <1>4, <2>2, <3>1, Ranges DEF EntryInv, Ahead, Stable
  <2>3. CASE ~old
    <3>1. e.state = table[i].state /\ e.asked = table[i].asked
          /\ (e.lapse <=> table[i].lapse)
      BY <1>4, <2>3
    <3> QED
      BY <1>2, <1>3, <1>4, <2>3, <3>1, Ranges DEF EntryInv, Ahead, Stable
  <2> QED
    BY <2>1, <2>2, <2>3
<1>8. /\ free' \in Nat /\ free' + e.q = free + table[i].q
      /\ queries' \in 0 .. MaxQueries
  BY <1>2, <1>4, Ranges DEF TypeOK
<1>9. e.state # "EMPTY" =>
        \A j \in Index : table[j].state # "EMPTY" /\ table[j].ip = e.ip => j = i
  BY <1>4 DEF ArpInv, TableInv, OneEntryPerAddress, Stable
<1> HIDE DEF e
<1> QED
  BY <1>1, <1>6, <1>7, <1>8, <1>9, EntryReplaced

\* What an entry asked for by etharp_query has.
LEMMA PendingInv ==
  ASSUME NEW e \in Entry, e.state = "PENDING", e.asked = 0
  PROVE  EntryInv(e)
BY DEF EntryInv, Stable

\* A packet to an address that has none: the entry found or made waits.
LEMMA QueryStep ==
  ASSUME ArpInv, NEW ip \in IPs, NEW ok \in BOOLEAN, EtharpQuery(ip, ok),
         \A j \in Index : table[j].ip = ip => table[j].state \notin Stable,
         UNCHANGED <<cached, queries>>
  PROVE  ArpInv'
<1> DEFINE i == FindEntry(ip, TRUE)
           e == [Taken(i, ip) EXCEPT !.state = "PENDING"]
           pool == free + Returned(i, ip)
           f == [e EXCEPT !.q = Queued(e)]
<1>1. TypeOK /\ OneEntryPerAddress /\ free \in Nat
  BY Ranges DEF ArpInv, TableInv, TypeOK
<1>2. /\ i \in Index
      /\ \A j \in Index : table[j].state # "EMPTY" /\ table[j].ip = ip => j = i
  BY <1>1, FindEntryIn
<1>3. table[i] \in Entry /\ EntryInv(table[i])
  BY <1>2, <1>1 DEF ArpInv, TypeOK
<1>4. /\ Taken(i, ip) \in Entry /\ Taken(i, ip).ip = ip /\ Returned(i, ip) \in Nat
      /\ Returned(i, ip) + Taken(i, ip).q = table[i].q
  BY <1>2, TakenEntry
<1>5. Taken(i, ip).asked = 0
  <2>1. CASE Taken(i, ip) = table[i] /\ table[i].ip = ip
    BY <1>2, <1>3, <2>1 DEF EntryInv
  <2>2. CASE Taken(i, ip) = [Empty EXCEPT !.ip = ip]
    BY <2>2 DEF Empty
  <2> QED
    BY <1>2, <2>1, <2>2, TakenEntry
<1>6. /\ e \in Entry /\ e.ip = ip /\ e.q = Taken(i, ip).q /\ e.asked = 0
      /\ e.state = "PENDING" /\ e.q \in 0 .. QueueLen
  BY <1>4, <1>5 DEF Entry
<1>7. /\ Queued(e) \in 0 .. QueueLen /\ e.q <= Queued(e) /\ Queued(e) <= e.q + 1
  <2> HIDE DEF e, f, i
  <2>1. e.q \in 0 .. QueueLen /\ QueueLen \in Nat
    BY <1>6, Ranges
  <2>2. Queued(e) = IF e.q >= QueueLen THEN e.q ELSE e.q + 1
    BY DEF Queued
  <2> QED
    BY <2>1, <2>2
<1>8. /\ f \in Entry /\ f.ip = ip /\ f.q = Queued(e) /\ f.asked = 0
      /\ f.state = "PENDING"
  <2> HIDE DEF e
  <2> QED
    BY <1>6, <1>7 DEF Entry
<1>9. EntryInv(e) /\ EntryInv(f)
  <2> HIDE DEF e, f
  <2> QED
    BY <1>6, <1>8, PendingInv
<1>10. cached' \in Index /\ queries' \in 0 .. MaxQueries
  BY <1>1 DEF TypeOK
<1>11. \/ table' = [table EXCEPT ![i] = e] /\ free' = pool
       \/ pool # 0 /\ table' = [table EXCEPT ![i] = f]
          /\ free' = pool - (Queued(e) - e.q)
  BY DEF EtharpQuery
<1>12. CASE table' = [table EXCEPT ![i] = e] /\ free' = pool
  <2>1. free' \in Nat /\ free' + e.q = free + table[i].q
    <3> HIDE DEF e, f, i
    <3>1. e.q \in Nat /\ Taken(i, ip).q = e.q
      BY <1>6, Ranges
    <3> QED
      BY <1>1, <1>4, <3>1, <1>12
  <2> HIDE DEF e, i
  <2> QED
    BY <1>2, <1>6, <1>9, <1>10, <1>12, <2>1, EntryReplaced
<1>13. CASE pool # 0 /\ table' = [table EXCEPT ![i] = f]
            /\ free' = pool - (Queued(e) - e.q)
  <2>1. free' \in Nat /\ free' + f.q = free + table[i].q
    <3> HIDE DEF e, f, i
    <3> QED
      BY <1>1, <1>4, <1>6, <1>7, <1>8, <1>13
  <2> HIDE DEF e, f, i
  <2> QED
    BY <1>2, <1>8, <1>9, <1>10, <1>13, <2>1, EntryReplaced
<1> QED
  BY <1>11, <1>12, <1>13

\* etharp_output: a hit uses the entry, anything else asks.
LEMMA OutputStep ==
  ASSUME ArpInv, NEW ip \in IPs, EtharpOutput(ip)
  PROVE  ArpInv'
<1> DEFINE hit  == table[cached].state \in Stable /\ table[cached].ip = ip
           good == {i \in Index : table[i].state \in Stable /\ table[i].ip = ip}
           i    == IF hit THEN cached ELSE Min(good)
<1>1. cached \in Index
  BY DEF ArpInv, TableInv, TypeOK
<1>2. CASE hit \/ good # {}
  <2>1. good # {} => Min(good) \in good
    <3>1. good \in SUBSET Nat
      BY DEF Index
    <3> HIDE DEF good
    <3> QED
      BY <3>1, MinIn
  <2>2. i \in Index /\ table[i].state \in Stable
    BY <1>1, <1>2, <2>1
  <2>3. /\ \E ok \in BOOLEAN : OutputToArpIndex(i, ok)
        /\ cached' = i /\ UNCHANGED <<free, queries>>
    BY <1>2 DEF EtharpOutput
  <2> HIDE DEF i
  <2> QED
    BY <2>2, <2>3, UseStep
<1>3. CASE ~hit /\ good = {}
  <2>1. /\ \E ok \in BOOLEAN : EtharpQuery(ip, ok)
        /\ UNCHANGED <<cached, queries>>
    BY <1>3 DEF EtharpOutput
  <2>2. \A j \in Index : table[j].ip = ip => table[j].state \notin Stable
    BY <1>3
  <2> QED
    BY <2>1, <2>2, QueryStep
<1> QED
  BY <1>2, <1>3

\* etharp_query without a packet.
LEMMA DhcpQueryStep ==
  ASSUME ArpInv, NEW ip \in IPs, DhcpQuery(ip)
  PROVE  ArpInv'
<1> DEFINE i == FindEntry(ip, TRUE)
           e == Taken(i, ip)
           f == [e EXCEPT !.state = IF @ = "EMPTY" THEN "PENDING" ELSE @]
           g == [f EXCEPT !.ctime = 0]
<1>1. TypeOK /\ OneEntryPerAddress /\ free \in Nat
  BY Ranges DEF ArpInv, TableInv, TypeOK
<1>2. /\ i \in Index
      /\ \A j \in Index : table[j].state # "EMPTY" /\ table[j].ip = ip => j = i
  BY <1>1, FindEntryIn
<1>3. /\ e \in Entry /\ e.ip = ip /\ Returned(i, ip) \in Nat
      /\ Returned(i, ip) + e.q = table[i].q
  BY <1>2, TakenEntry
<1>4. EntryInv(f) /\ f \in Entry /\ f.ip = ip /\ f.q = e.q
  <2>1. CASE e = table[i] /\ table[i].state # "EMPTY"
    <3>1. EntryInv(e) /\ f = e
      BY <1>2, <1>3, <2>1 DEF ArpInv, Entry
    <3> QED
      BY <1>3, <3>1
  <2>2. CASE e = [Empty EXCEPT !.ip = ip]
    <3>1. e.state = "EMPTY" /\ e.asked = 0
      BY <2>2 DEF Empty
    <3> HIDE DEF e
    <3>2. f \in Entry /\ f.state = "PENDING" /\ f.asked = 0 /\ f.ip = ip /\ f.q = e.q
      BY <1>3, <3>1 DEF Entry
    <3> QED
      BY <3>2, PendingInv
  <2> QED
    BY <1>2, <2>1, <2>2, TakenEntry
<1>5. ASSUME e.state = "PENDING"
      PROVE  EntryInv(g) /\ g \in Entry /\ g.ip = ip /\ g.q = e.q
  <2> HIDE DEF e
  <2>1. f.state = "PENDING"
    BY <1>3, <1>5 DEF Entry
  <2>2. f.asked = 0
    BY <1>4, <2>1 DEF EntryInv, Stable
  <2> HIDE DEF f
  <2>3. /\ g \in Entry /\ g.state = "PENDING" /\ g.asked = 0 /\ g.ip = ip
        /\ g.q = e.q
    BY <1>4, <2>1, <2>2, Ranges DEF Entry
  <2> HIDE DEF g
  <2> QED
    BY <2>3, PendingInv
<1>6. cached' \in Index /\ queries' \in 0 .. MaxQueries
  BY <1>1, Ranges DEF TypeOK, DhcpQuery
<1>7. free' = free + Returned(i, ip)
  BY DEF DhcpQuery
<1>8. free' \in Nat /\ free' + e.q = free + table[i].q
  <2> HIDE DEF e, i
  <2>1. e.q \in Nat
    BY <1>3, Ranges DEF Entry
  <2> QED
    BY <1>1, <1>3, <1>7, <2>1
<1>9. \/ table' = [table EXCEPT ![i] = f]
      \/ e.state = "PENDING" /\ table' = [table EXCEPT ![i] = g]
  BY DEF DhcpQuery
<1> HIDE DEF e, f, g, i
<1>10. CASE table' = [table EXCEPT ![i] = f]
  BY <1>2, <1>4, <1>6, <1>8, <1>10, EntryReplaced
<1>11. CASE e.state = "PENDING" /\ table' = [table EXCEPT ![i] = g]
  BY <1>2, <1>5, <1>6, <1>8, <1>11, EntryReplaced
<1> QED
  BY <1>9, <1>10, <1>11

\* One entry a second older.
LEMMA AgedEntry ==
  ASSUME NEW e \in Entry, EntryInv(e)
  PROVE  /\ Aged(e) \in Entry /\ EntryInv(Aged(e))
         /\ Aged(e).q = IF Expires(e) THEN 0 ELSE e.q
         /\ Aged(e).state # "EMPTY" => e.state # "EMPTY" /\ Aged(e).ip = e.ip
<1>1. /\ e.state \in Stable \cup {"EMPTY", "PENDING"} /\ e.ctime \in 0 .. MaxAge - 1
      /\ e.asked \in 0 .. MaxAge /\ e.lapse \in BOOLEAN /\ e.used \in BOOLEAN
      /\ e.q \in Nat
  BY Ranges DEF Entry
<1>2. CASE e.state = "EMPTY" \/ Expires(e)
  <2>1. Aged(e) = Empty
    BY <1>2 DEF Aged
  <2>2. /\ Empty.state = "EMPTY" /\ Empty.q = 0 /\ Empty.asked = 0
    BY DEF Empty
  <2>3. e.state = "EMPTY" => e.q = 0
    BY <2>2 DEF EntryInv
  <2>4. EntryInv(Empty)
    BY <2>2 DEF EntryInv, Stable
  <2> QED
    BY <1>2, <2>1, <2>2, <2>3, <2>4, EmptyEntry
<1>3. CASE e.state # "EMPTY" /\ ~Expires(e)
  <2> DEFINE late == e.state \in Stable /\ e.ctime >= Unicast /\ ~e.used
             f == [e EXCEPT !.ctime = @ + 1, !.used = FALSE, !.lapse = @ \/ late,
                     !.state = IF @ = "REREQUESTING_1" THEN "REREQUESTING_2"
                               ELSE IF @ = "REREQUESTING_2" THEN "STABLE" ELSE @]
  <2>1. Aged(e) = f
    BY <1>3 DEF Aged
  <2>2. e.ctime + 1 \in 0 .. MaxAge - 1
    BY <1>1, <1>3, Ranges DEF Expires
  <2>3. /\ f \in Entry /\ f.ip = e.ip /\ f.q = e.q /\ f.mac = e.mac
        /\ f.heard = e.heard /\ f.asked = e.asked /\ f.ctime = e.ctime + 1
        /\ f.used = FALSE /\ f.lapse = (e.lapse \/ late)
        /\ f.state = IF e.state = "REREQUESTING_1" THEN "REREQUESTING_2"
                     ELSE IF e.state = "REREQUESTING_2" THEN "STABLE" ELSE e.state
    <3>1. (IF e.state = "REREQUESTING_1" THEN "REREQUESTING_2"
           ELSE IF e.state = "REREQUESTING_2" THEN "STABLE" ELSE e.state)
             \in Stable \cup {"EMPTY", "PENDING"}
      BY <1>1 DEF Stable
    <3>2. (e.lapse \/ late) \in BOOLEAN
      OBVIOUS
    <3> HIDE DEF late
    <3> QED
      BY <2>2, <3>1, <3>2 DEF Entry
  <2> HIDE DEF f
  <2>4. EntryInv(f)
    <3>1. CASE e.state = "PENDING"
      BY <2>3, <3>1, PendingInv DEF EntryInv, Stable
    <3>2. CASE e.state = "STABLE"
      <4>1. f.state = "STABLE" /\ e.mac = e.heard /\ e.q = 0
        BY <2>3, <3>2 DEF EntryInv, Stable
      <4>2. e.asked > 0 => 2 * e.asked <= e.ctime - Unicast
        BY <1>1, <3>2, Ranges DEF EntryInv, Ahead
      <4>3. e.ctime >= Unicast => f.lapse
        BY <2>3, <3>2 DEF EntryInv, Stable
      <4> QED
        BY <1>1, <2>3, <4>1, <4>2, <4>3, Ranges DEF EntryInv, Ahead, Stable
    <3>3. CASE e.state = "REREQUESTING_1"
      <4>1. f.state = "REREQUESTING_2" /\ e.mac = e.heard /\ e.q = 0
        BY <2>3, <3>3 DEF EntryInv, Stable
      <4>2. /\ e.asked > 0 => 2 * e.asked <= e.ctime - Unicast + 2
            /\ e.ctime >= Unicast
            /\ ~e.lapse => 2 * e.asked >= e.ctime - Unicast + 2
        BY <1>1, <3>3, Ranges DEF EntryInv, Ahead, Stable
      <4>3. ~f.lapse => ~e.lapse
        BY <2>3
      <4> QED
        BY <1>1, <2>3, <4>1, <4>2, <4>3, Ranges DEF EntryInv, Ahead, Stable
    <3>4. CASE e.state = "REREQUESTING_2"
      <4>1. f.state = "STABLE" /\ e.mac = e.heard /\ e.q = 0
        BY <2>3, <3>4 DEF EntryInv, Stable
      <4>2. /\ e.asked > 0 => 2 * e.asked <= e.ctime - Unicast + 1
            /\ e.ctime >= Unicast
            /\ ~e.lapse => 2 * e.asked >= e.ctime - Unicast + 1
        BY <1>1, <3>4, Ranges DEF EntryInv, Ahead, Stable
      <4>3. ~f.lapse => ~e.lapse
        BY <2>3
      <4> QED
        BY <1>1, <2>3, <4>1, <4>2, <4>3, Ranges DEF EntryInv, Ahead, Stable
    <3> QED
      BY <1>1, <1>3, <3>1, <3>2, <3>3, <3>4 DEF Stable
  <2> QED
    BY <1>3, <2>1, <2>3, <2>4
<1> QED
  BY <1>2, <1>3

\* etharp_tmr: the queues of the entries that expire go back to the pool.
LEMMA TmrStep ==
  ASSUME ArpInv, EtharpTmr
  PROVE  ArpInv'
<1> DEFINE X == {i \in Index : Expires(table[i])}
           R == Index \ X
<1>1. /\ TypeOK /\ OneEntryPerAddress /\ free \in Nat
      /\ free + Held(Index, Queues) = PoolSize
      /\ \A i \in Index : table[i] \in Entry /\ EntryInv(table[i])
  BY Ranges DEF ArpInv, TableInv, ElementsConserved, TypeOK
<1>2. /\ table' = [i \in Index |-> Aged(table[i])] /\ UNCHANGED <<cached, queries>>
      /\ free' = free + Held(X, Queues)
  BY DEF EtharpTmr
<1>3. \A i \in Index :
        /\ table'[i] = Aged(table[i])
        /\ Aged(table[i]) \in Entry /\ EntryInv(Aged(table[i]))
        /\ Aged(table[i]).q = IF Expires(table[i]) THEN 0 ELSE table[i].q
        /\ Aged(table[i]).state # "EMPTY" =>
             table[i].state # "EMPTY" /\ Aged(table[i]).ip = table[i].ip
  BY <1>1, <1>2, AgedEntry
<1>4. \A i \in Index :
        /\ Queues[i] \in Nat /\ Queues'[i] \in Nat
        /\ i \in X => Queues'[i] = 0
        /\ i \in R => Queues'[i] = Queues[i]
  <2>1. \A i \in Index : Queues[i] = table[i].q /\ Queues[i] \in Nat
    BY <1>1, QueueSum
  <2>2. \A i \in Index : Queues'[i] = Aged(table[i]).q
    BY <1>3 DEF Queues
  <2> QED
    BY <1>3, <2>1, <2>2
<1>5. X \cup R = Index /\ X \cap R = {} /\ IsFiniteSet(X) /\ IsFiniteSet(R)
  <2>1. X \in SUBSET Index /\ R \in SUBSET Index
    OBVIOUS
  <2>2. X \cup R = Index /\ X \cap R = {}
    OBVIOUS
  <2> HIDE DEF X, R
  <2>3. IsFiniteSet(X)
    BY <2>1, Ranges, FS_Subset
  <2>4. IsFiniteSet(R)
    BY <2>1, Ranges, FS_Subset
  <2> QED
    BY <2>2, <2>3, <2>4
<1> HIDE DEF X, R
<1>6. Held(Index, Queues) = Held(X, Queues) + Held(R, Queues)
  <2>1. Held(X \cup R, Queues) = Held(X, Queues) + Held(R, Queues)
    BY <1>4, <1>5, HeldSplit
  <2> QED
    BY <1>5, <2>1, Zenon
<1>7. Held(Index, Queues') = Held(X, Queues') + Held(R, Queues')
  <2>1. Held(X \cup R, Queues') = Held(X, Queues') + Held(R, Queues')
    BY <1>4, <1>5, HeldSplit
  <2> QED
    BY <1>5, <2>1, Zenon
<1>8. Held(X, Queues') = 0 /\ Held(R, Queues') = Held(R, Queues)
  <2>1. (\A i \in X : Queues'[i] = 0) /\ \A i \in R : Queues'[i] = Queues[i]
    BY <1>4, <1>5
  <2>2. Held(X, Queues') = 0
    BY <2>1, HeldZero
  <2>3. Held(R, Queues') = Held(R, Queues)
    BY <2>1, HeldSame
  <2> QED
    BY <2>2, <2>3
<1>9. Held(X, Queues) \in Nat /\ Held(R, Queues) \in Nat
  <2>1. (\A i \in X : Queues[i] \in Nat) /\ \A i \in R : Queues[i] \in Nat
    BY <1>4, <1>5
  <2> QED
    BY <1>5, <2>1, HeldType
<1>10. free' + Held(Index, Queues') = PoolSize /\ free' \in 0 .. PoolSize
  BY <1>1, <1>2, <1>6, <1>7, <1>8, <1>9, Ranges
<1>11. TypeOK'
  BY <1>1, <1>2, <1>3, <1>10 DEF TypeOK
<1>12. ElementsConserved'
  BY <1>10 DEF ElementsConserved
<1>13. OneEntryPerAddress'
  BY <1>1, <1>3 DEF OneEntryPerAddress
<1>14. (\A i \in Index : EntryInv(table[i]))'
  BY <1>3 DEF EntryInv, Ahead
<1> QED
  BY <1>11, <1>12, <1>13, <1>14 DEF ArpInv, TableInv

-----------------------------------------------------------------------------
(* The invariant and the theorems. *)

\* An empty table and a full pool.
LEMMA ArpInit == Init => ArpInv
<1> SUFFICES ASSUME Init
             PROVE  ArpInv
  OBVIOUS
<1>1. table = [i \in Index |-> Empty] /\ free = PoolSize /\ cached = 1 /\ queries = 0
  BY DEF Init
<1>2. Empty.state = "EMPTY" /\ Empty.q = 0 /\ Empty.asked = 0
  BY DEF Empty
<1>3. TypeOK
  BY <1>1, EmptyEntry, Ranges DEF TypeOK, Index
<1>4. \A i \in Index : Queues[i] = 0
  BY <1>1, <1>2 DEF Queues
<1>5. Held(Index, Queues) = 0
  BY <1>4, HeldZero
<1>6. ElementsConserved
  BY <1>1, <1>5, Ranges DEF ElementsConserved
<1>7. OneEntryPerAddress
  BY <1>1, <1>2 DEF OneEntryPerAddress
<1>8. EntryInv(Empty)
  BY <1>2 DEF EntryInv, Stable
<1> QED
  BY <1>1, <1>3, <1>6, <1>7, <1>8 DEF ArpInv, TableInv

LEMMA ArpStep == ArpInv /\ [Next]_vars => ArpInv'
<1> SUFFICES ASSUME ArpInv, [Next]_vars
             PROVE  ArpInv'
  OBVIOUS
<1>1. CASE \E ip \in IPs, mac \in MACs, for_us \in BOOLEAN : EtharpInput(ip, mac, for_us)
  BY <1>1, InputStep
<1>2. CASE \E ip \in IPs : EtharpOutput(ip)
  BY <1>2, OutputStep
<1>3. CASE \E ip \in IPs : DhcpQuery(ip)
  BY <1>3, DhcpQueryStep
<1>4. CASE EtharpTmr
  BY <1>4, TmrStep
<1>5. CASE UNCHANGED vars
  <2>1. UNCHANGED <<table, free, cached, queries>>
    BY <1>5 DEF vars
  <2>2. Queues' = Queues
    BY <2>1 DEF Queues
  <2>3. Held(Index, Queues') = Held(Index, Queues)
    BY <2>2, Zenon
  <2> QED
    BY <2>1, <2>3
    DEF ArpInv, TableInv, TypeOK, ElementsConserved, OneEntryPerAddress, EntryInv, Ahead
<1> QED
  BY <1>1, <1>2, <1>3, <1>4, <1>5 DEF Next

\* What the invariant says of one entry is what the properties ask of it.
LEMMA ArpImplies == ArpInv => TableInv /\ StableIsCurrent /\ SteadyUseAsks
<1> SUFFICES ASSUME ArpInv
             PROVE  TableInv /\ StableIsCurrent /\ SteadyUseAsks
  OBVIOUS
<1>1. TableInv /\ StableIsCurrent
  BY DEF ArpInv, EntryInv, StableIsCurrent
<1>2. ASSUME NEW i \in Index, table[i].state \in Stable, table[i].ctime >= Unicast,
             ~table[i].lapse
      PROVE  2 * table[i].asked >= table[i].ctime - Unicast
  <2>1. table[i].asked \in Nat /\ table[i].ctime \in Nat
    BY Ranges DEF ArpInv, TableInv, TypeOK, Entry
  <2>2. 2 * table[i].asked >= table[i].ctime - Unicast + Ahead(table[i].state)
    BY <1>2 DEF ArpInv, EntryInv
  <2>3. Ahead(table[i].state) \in 0 .. 2
    BY DEF Ahead
  <2> QED
    BY <2>1, <2>2, <2>3, Ranges
<1> QED
  BY <1>1, <1>2 DEF SteadyUseAsks

\* Whatever is recycled, updated or expires, in any order: no queue element of
\* the shared pool is lost or owned twice, and no address has two entries.
THEOREM ArpTableInv == Spec => []TableInv
<1>1. ArpInv => TableInv
  BY ArpImplies
<1> QED
  BY <1>1, ArpInit, ArpStep, PTL DEF Spec

\* A stable entry has the MAC its address last announced and nothing queued.
THEOREM ArpStableIsCurrent == Spec => []StableIsCurrent
<1>1. ArpInv => StableIsCurrent
  BY ArpImplies
<1> QED
  BY <1>1, ArpInit, ArpStep, PTL DEF Spec

\* An old entry in steady use is asked for again every two periods, whatever
\* the ages at which re-requests begin and entries expire.
THEOREM ArpSteadyUseAsks == Spec => []SteadyUseAsks
<1>1. ArpInv => SteadyUseAsks
  BY ArpImplies
<1> QED
  BY <1>1, ArpInit, ArpStep, PTL DEF Spec

-----------------------------------------------------------------------------
(* lwIP's timers, for any set of cyclic timers, any intervals and any clock *)
(* that holds two of them and two turns of the loop in half its range.      *)

HalfRange == ClockRange \div 2
Ms(ticks) == ticks * TickMs
TurnMs == MaxBusy * TickMs  \* the longest turn of the loop, in ms

\* No interval is longer.
LongestMs == ((HalfRange - 1) \div 2) - TurnMs

\* How far time t lies ahead of time n, negative if it has passed.
Lead(t, n) ==
  IF (t - n) % ClockRange < HalfRange THEN (t - n) % ClockRange
  ELSE ((t - n) % ClockRange) - ClockRange

HandlersIn(list) == {list[i].h : i \in 1 .. Len(list)}

\* The timers that are to be in the list.
Armed == (Cyclic \cup (IF tcpActive THEN {Tcp} ELSE {})) \ {running}

\* How late timer h may be with tcpip_thread at p after b ticks: by the last
\* turn, unless the list was found not to be due, and by this one; and the TCP
\* timer by a sleep it was started in.
Tardy(h, p, b) ==
  (IF h = Tcp THEN LongestMs ELSE 0) + (IF p \in {"fetch", "handle"} THEN 0 ELSE TurnMs)
    + Ms(b)

\* Every timer once and the list in the order of the leads, seen from time n.
InOrder(list, n) ==
  \A i, j \in 1 .. Len(list) :
    i < j => list[i].h # list[j].h /\ Lead(list[i].time, n) <= Lead(list[j].time, n)

\* An entry at time n, with w ticks of the sleep to go, is not too late and not
\* too early, the sleep does not go past it, and it keeps its beat after the
\* last run.
EntryOk(e, n, p, b, w, l) ==
  /\ -Tardy(e.h, p, b) <= Lead(e.time, n) /\ Lead(e.time, n) <= LongestMs
  /\ w > 0 => Ms(w) - (IF e.h = Tcp THEN LongestMs ELSE 0) <= Lead(e.time, n)
  /\ e.h \in Cyclic =>
       (e.time - l[e.h]) % ClockRange \in Interval[e.h] .. Interval[e.h] + 2 * TurnMs

RunInv ==
  /\ running = "" <=> pc # "run"
  /\ running = Tcp => tcpActive
  /\ pc \in {"check", "run"} => -Ms(busy) <= Lead(snap, now) /\ Lead(snap, now) <= 0
  /\ pc = "run" => -Tardy(running, pc, busy) <= Lead(due, now) /\ Lead(due, now) <= 0
  /\ pc = "run" /\ running \in Cyclic => last[running] = due

SleepInv ==
  /\ pc # "fetch" => wait = 0
  /\ Ms(wait) <= LongestMs

TimeoutsInv ==
  /\ now \in Clock /\ due \in Clock /\ snap \in Clock
  /\ next_timeout \in Seq(SysTimeo)
  /\ running \in Timers \cup {""}
  /\ pc \in {"again", "fetch", "check", "run", "handle"}
  /\ wait \in Nat /\ busy \in 0 .. MaxBusy
  /\ tcpActive \in BOOLEAN /\ tcpPcbs \in BOOLEAN
  /\ last \in [Cyclic -> Clock]
  /\ HandlersIn(next_timeout) = Armed
  /\ InOrder(next_timeout, now)
  /\ \A i \in 1 .. Len(next_timeout) : EntryOk(next_timeout[i], now, pc, busy, wait, last)
  /\ RunInv /\ SleepInv

-----------------------------------------------------------------------------
(* The clock. *)

LEMMA ClockSizes ==
  /\ HalfRange \in Nat \ {0} /\ ClockRange = 2 * HalfRange
  /\ TickMs \in Nat \ {0} /\ MaxBusy \in Nat /\ TurnMs \in Nat /\ LongestMs \in Nat
  /\ 2 * LongestMs + 2 * TurnMs < HalfRange
  /\ \A h \in Timers : Interval[h] \in 1 .. LongestMs
<1>1. /\ ClockRange \in Nat /\ TickMs \in Nat \ {0} /\ MaxBusy \in Nat
      /\ ClockRange % 2 = 0 /\ Interval \in [Timers -> Nat \ {0}]
  BY TimeoutsAssumption
<1>2. HalfRange \in Nat /\ ClockRange = 2 * HalfRange
  BY <1>1 DEF HalfRange
<1>3. TurnMs \in Nat
  BY <1>1 DEF TurnMs
<1>4. \A h \in Timers : Interval[h] \in Nat \ {0} /\ 2 * Interval[h] + 2 * TurnMs < HalfRange
  BY <1>1, TimeoutsAssumption DEF TurnMs, HalfRange
<1>5. Tcp \in Timers
  BY DEF Timers
<1>6. HalfRange # 0
  BY <1>2, <1>3, <1>4, <1>5
<1>7. /\ (HalfRange - 1) \div 2 \in Nat /\ 2 * ((HalfRange - 1) \div 2) < HalfRange
      /\ \A n \in Nat : 2 * n < HalfRange => n <= (HalfRange - 1) \div 2
  BY <1>2, <1>6
<1>8. \A h \in Timers : Interval[h] + TurnMs <= (HalfRange - 1) \div 2
  <2> TAKE h \in Timers
  <2>1. Interval[h] + TurnMs \in Nat /\ 2 * (Interval[h] + TurnMs) < HalfRange
    BY <1>2, <1>3, <1>4
  <2> QED
    BY <2>1, <1>7
<1>9. LongestMs \in Nat /\ 2 * LongestMs + 2 * TurnMs < HalfRange
  BY <1>2, <1>3, <1>4, <1>5, <1>7, <1>8 DEF LongestMs
<1>10. \A h \in Timers : Interval[h] \in 1 .. LongestMs
  BY <1>2, <1>3, <1>4, <1>7, <1>8 DEF LongestMs
<1> QED
  BY <1>1, <1>2, <1>3, <1>6, <1>9, <1>10

LEMMA MsIs ==
  /\ \A n \in 0 .. MaxBusy : Ms(n) \in Nat /\ Ms(n) <= TurnMs
  /\ \A n \in Nat : Ms(n) \in Nat /\ n <= Ms(n) /\ Ms(n + 1) = Ms(n) + TickMs
  /\ Ms(0) = 0
<1>1. MaxBusy \in Nat /\ TickMs \in Nat /\ TickMs >= 1
  BY ClockSizes
<1>2. \A n \in 0 .. MaxBusy : n * TickMs \in Nat /\ n * TickMs <= MaxBusy * TickMs
  <2> TAKE n \in 0 .. MaxBusy
  <2>1. PICK k \in Nat : MaxBusy = n + k
    <3>1. MaxBusy - n \in Nat /\ MaxBusy = n + (MaxBusy - n)
      BY <1>1
    <3> QED BY <3>1
  <2>2. MaxBusy * TickMs = n * TickMs + k * TickMs /\ k * TickMs \in Nat /\ n * TickMs \in Nat
    BY <1>1, <2>1
  <2> QED
    BY <2>2
<1>3. \A n \in Nat : n * TickMs \in Nat /\ (n + 1) * TickMs = n * TickMs + TickMs
  BY <1>1
<1>4. \A n \in Nat : n <= n * TickMs
  BY <1>1
<1> QED
  BY <1>1, <1>2, <1>3, <1>4 DEF TurnMs, Ms

LEMMA DiffIs ==
  ASSUME NEW a \in Clock, NEW b \in Clock
  PROVE  (a - b) % ClockRange = IF b <= a THEN a - b ELSE (a - b) + ClockRange
BY ClockSizes, SMT DEF Clock

LEMMA SumIs ==
  ASSUME NEW a \in Clock, NEW d \in 0 .. ClockRange
  PROVE  /\ (a + d) % ClockRange = IF a + d < ClockRange THEN a + d ELSE (a + d) - ClockRange
         /\ (a + d) % ClockRange \in Clock
BY ClockSizes, SMT DEF Clock

LEMMA LeadIs ==
  ASSUME NEW t \in Clock, NEW n \in Clock
  PROVE  /\ Lead(t, n) \in Int /\ -HalfRange <= Lead(t, n) /\ Lead(t, n) < HalfRange
         /\ \/ t = n + Lead(t, n)
            \/ t = (n + Lead(t, n)) + ClockRange
            \/ t = (n + Lead(t, n)) - ClockRange
<1> DEFINE d == (t - n) % ClockRange
<1>1. d = IF n <= t THEN t - n ELSE (t - n) + ClockRange
  BY DiffIs
<1>2. /\ HalfRange \in Nat /\ ClockRange = 2 * HalfRange
      /\ t \in Nat /\ n \in Nat /\ t < ClockRange /\ n < ClockRange
  BY ClockSizes DEF Clock
<1>3. Lead(t, n) = IF d < HalfRange THEN d ELSE d - ClockRange
  BY DEF Lead
<1> HIDE DEF d
<1>4. d \in Int /\ (d < HalfRange \/ ~(d < HalfRange))
  BY <1>1, <1>2
<1> QED
  BY <1>1, <1>2, <1>3, <1>4

\* The only number in the half range that leads from n to t.
LEMMA LeadOnly ==
  ASSUME NEW t \in Clock, NEW n \in Clock, NEW d \in Int,
         -HalfRange <= d, d < HalfRange,
         t = n + d \/ t = (n + d) + ClockRange \/ t = (n + d) - ClockRange
  PROVE  Lead(t, n) = d
<1>1. HalfRange \in Nat /\ ClockRange = 2 * HalfRange
  BY ClockSizes
<1>2. t \in Nat /\ n \in Nat /\ t < ClockRange /\ n < ClockRange
  BY <1>1 DEF Clock
<1> DEFINE x == Lead(t, n)
<1>3. /\ x \in Int /\ -HalfRange <= x /\ x < HalfRange
      /\ (t = n + x \/ t = (n + x) + ClockRange \/ t = (n + x) - ClockRange)
  BY LeadIs
<1> HIDE DEF x
<1>4. x = d
  BY <1>1, <1>2, <1>3
<1> QED
  BY <1>4 DEF x

LEMMA LessIs ==
  ASSUME NEW t \in Clock, NEW c \in Clock
  PROVE  TimeLessThan(t, c) <=> Lead(t, c) < 0
<1>1. (t - c) % ClockRange \in 0 .. ClockRange - 1
  BY DiffIs, ClockSizes DEF Clock
<1>2. MaxTimeout = HalfRange - 1
  BY DEF MaxTimeout, HalfRange
<1> HIDE DEF MaxTimeout
<1> QED
  BY <1>1, <1>2, ClockSizes DEF TimeLessThan, Lead

\* Leads from a common time compare like the times.
LEMMA LeadFrom ==
  ASSUME NEW t \in Clock, NEW c \in Clock, NEW n \in Clock,
         -HalfRange <= Lead(t, n) - Lead(c, n), Lead(t, n) - Lead(c, n) < HalfRange
  PROVE  Lead(t, c) = Lead(t, n) - Lead(c, n)
<1> DEFINE x == Lead(t, n)
           y == Lead(c, n)
<1>1. /\ HalfRange \in Nat /\ ClockRange = 2 * HalfRange
      /\ t \in Nat /\ n \in Nat /\ c \in Nat /\ t < ClockRange /\ n < ClockRange /\ c < ClockRange
  BY ClockSizes DEF Clock
<1>2. x \in Int /\ (t = n + x \/ t = (n + x) + ClockRange \/ t = (n + x) - ClockRange)
  BY LeadIs
<1>3. y \in Int /\ (c = n + y \/ c = (n + y) + ClockRange \/ c = (n + y) - ClockRange)
  BY LeadIs
<1>4. -HalfRange <= x - y /\ x - y < HalfRange
  OBVIOUS
<1> HIDE DEF x, y
<1>5. t = c + (x - y) \/ t = (c + (x - y)) + ClockRange \/ t = (c + (x - y)) - ClockRange
  BY <1>1, <1>2, <1>3, <1>4
<1>6. x - y \in Int
  BY <1>2, <1>3
<1>7. Lead(t, c) = x - y
  BY <1>4, <1>5, <1>6, LeadOnly
<1> QED
  BY <1>7 DEF x, y

LEMMA LeadSelf ==
  ASSUME NEW n \in Clock
  PROVE  Lead(n, n) = 0
<1>1. n \in Nat /\ -HalfRange <= 0 /\ 0 < HalfRange
  BY ClockSizes DEF Clock
<1> QED
  BY <1>1, LeadOnly

\* A time that lies d further ahead.
LEMMA LeadPlus ==
  ASSUME NEW t \in Clock, NEW n \in Clock, NEW d \in 0 .. ClockRange,
         Lead(t, n) + d < HalfRange
  PROVE  Lead((t + d) % ClockRange, n) = Lead(t, n) + d
<1> DEFINE x == Lead(t, n)
           u == (t + d) % ClockRange
<1>1. /\ HalfRange \in Nat /\ ClockRange = 2 * HalfRange /\ d \in Nat
      /\ t \in Nat /\ n \in Nat /\ t < ClockRange /\ n < ClockRange
  BY ClockSizes DEF Clock
<1>2. /\ x \in Int /\ -HalfRange <= x
      /\ (t = n + x \/ t = (n + x) + ClockRange \/ t = (n + x) - ClockRange)
  BY LeadIs
<1>3. u \in Clock /\ (u = t + d \/ u = (t + d) - ClockRange)
  BY SumIs
<1>4. x + d < HalfRange
  OBVIOUS
<1>5. u \in Nat /\ u < ClockRange
  BY <1>1, <1>3 DEF Clock
<1> HIDE DEF x, u
<1>6. u = n + (x + d) \/ u = (n + (x + d)) + ClockRange \/ u = (n + (x + d)) - ClockRange
  BY <1>1, <1>2, <1>3, <1>4, <1>5
<1>7. x + d \in Int /\ -HalfRange <= x + d
  BY <1>1, <1>2
<1>8. Lead(u, n) = x + d
  BY <1>3, <1>4, <1>6, <1>7, LeadOnly
<1> QED
  BY <1>8 DEF x, u

\* The same time seen d later.
LEMMA LeadLater ==
  ASSUME NEW t \in Clock, NEW n \in Clock, NEW d \in 0 .. ClockRange,
         -HalfRange <= Lead(t, n) - d
  PROVE  Lead(t, (n + d) % ClockRange) = Lead(t, n) - d
<1> DEFINE x == Lead(t, n)
           u == (n + d) % ClockRange
<1>1. /\ HalfRange \in Nat /\ ClockRange = 2 * HalfRange /\ d \in Nat
      /\ t \in Nat /\ n \in Nat /\ t < ClockRange /\ n < ClockRange
  BY ClockSizes DEF Clock
<1>2. /\ x \in Int /\ x < HalfRange
      /\ (t = n + x \/ t = (n + x) + ClockRange \/ t = (n + x) - ClockRange)
  BY LeadIs
<1>3. u \in Clock /\ (u = n + d \/ u = (n + d) - ClockRange)
  BY SumIs
<1>4. -HalfRange <= x - d
  OBVIOUS
<1>5. u \in Nat /\ u < ClockRange
  BY <1>1, <1>3 DEF Clock
<1> HIDE DEF x, u
<1>6. t = u + (x - d) \/ t = (u + (x - d)) + ClockRange \/ t = (u + (x - d)) - ClockRange
  BY <1>1, <1>2, <1>3, <1>4, <1>5
<1>7. x - d \in Int /\ x - d < HalfRange
  BY <1>1, <1>2
<1>8. Lead(t, u) = x - d
  BY <1>3, <1>4, <1>6, <1>7, LeadOnly
<1> QED
  BY <1>8 DEF x, u

\* The unsigned difference of two times is the difference of their leads.
LEMMA DiffLead ==
  ASSUME NEW t \in Clock, NEW c \in Clock, NEW n \in Clock,
         0 <= Lead(t, n) - Lead(c, n), Lead(t, n) - Lead(c, n) < HalfRange
  PROVE  (t - c) % ClockRange = Lead(t, n) - Lead(c, n)
<1>1. HalfRange \in Nat /\ ClockRange = 2 * HalfRange
  BY ClockSizes
<1>2. Lead(t, n) \in Int /\ Lead(c, n) \in Int
  BY LeadIs
<1>3. Lead(t, c) = Lead(t, n) - Lead(c, n)
  BY <1>1, <1>2, LeadFrom
<1>4. (t - c) % ClockRange \in 0 .. ClockRange - 1
  BY DiffIs, <1>1 DEF Clock
<1> QED
  BY <1>1, <1>2, <1>3, <1>4 DEF Lead

-----------------------------------------------------------------------------
(* The list. *)

LEMMA InsertAtIs ==
  ASSUME NEW S, NEW l \in Seq(S), NEW e \in S, NEW at \in 1 .. Len(l) + 1
  PROVE  /\ InsertAt(l, at, e) \in Seq(S)
         /\ Len(InsertAt(l, at, e)) = Len(l) + 1
         /\ \A i \in 1 .. Len(l) + 1 :
              InsertAt(l, at, e)[i]
                = IF i < at THEN l[i] ELSE IF i = at THEN e ELSE l[i - 1]
<1> DEFINE a == SubSeq(l, 1, at - 1)
           b == SubSeq(l, at, Len(l))
<1>1. Len(l) \in Nat /\ at \in Nat /\ at >= 1 /\ at <= Len(l) + 1
  OBVIOUS
<1>2. a \in Seq(S) /\ Len(a) = at - 1 /\ \A i \in 1 .. at - 1 : a[i] = l[i]
  BY <1>1
<1>3. /\ b \in Seq(S) /\ Len(b) = (Len(l) - at) + 1
      /\ \A i \in 1 .. (Len(l) - at) + 1 : b[i] = l[(at + i) - 1]
  BY <1>1
<1>4. InsertAt(l, at, e) = (a \o <<e>>) \o b
  BY DEF InsertAt
<1> HIDE DEF a, b
<1> DEFINE c == a \o <<e>>
<1>5. c \in Seq(S) /\ Len(c) = at /\ c[at] = e /\ \A i \in 1 .. at - 1 : c[i] = l[i]
  BY <1>1, <1>2
<1> HIDE DEF c
<1>6. c \o b \in Seq(S) /\ Len(c \o b) = Len(l) + 1
  BY <1>1, <1>3, <1>5
<1>7. ASSUME NEW i \in 1 .. Len(l) + 1
      PROVE  (c \o b)[i] = IF i < at THEN l[i] ELSE IF i = at THEN e ELSE l[i - 1]
  <2>1. CASE i <= at
    <3>1. (c \o b)[i] = c[i]
      BY <1>1, <1>3, <1>5, <2>1
    <3>2. i = at \/ (i < at /\ i \in 1 .. at - 1)
      BY <1>1, <2>1
    <3> QED BY <3>1, <3>2, <1>1, <1>5
  <2>2. CASE i > at
    <3>1. (c \o b)[i] = b[i - at]
      BY <1>1, <1>3, <1>5, <2>2
    <3>2. i - at \in 1 .. (Len(l) - at) + 1 /\ (at + (i - at)) - 1 = i - 1 /\ ~(i < at) /\ i # at
      BY <1>1, <2>2
    <3>3. b[i - at] = l[i - 1]
      BY <3>2, <1>3
    <3> QED BY <3>1, <3>2, <3>3
  <2>3. i <= at \/ i > at
    BY <1>1
  <2> QED BY <2>1, <2>2, <2>3
<1>8. InsertAt(l, at, e) = c \o b
  BY <1>4 DEF c
<1> QED
  BY <1>6, <1>7, <1>8

\* Every lead the list may hold: they are within half the range of each other.
Leads == {d \in Int : -(LongestMs + 2 * TurnMs) <= d /\ d <= LongestMs}

\* sys_timeout_abs keeps the list in order and adds the one timer.
LEMMA InsertIs ==
  ASSUME NEW l \in Seq(SysTimeo), NEW n \in Clock, InOrder(l, n),
         \A i \in 1 .. Len(l) : Lead(l[i].time, n) \in Leads,
         NEW h \in Timers, h \notin HandlersIn(l),
         NEW time \in Clock, Lead(time, n) \in Leads
  PROVE  LET r == Insert(l, h, time)
         IN /\ r \in Seq(SysTimeo) /\ Len(r) = Len(l) + 1 /\ InOrder(r, n)
            /\ HandlersIn(r) = HandlersIn(l) \cup {h}
            /\ \A i \in 1 .. Len(r) :
                 \/ r[i] = [h |-> h, time |-> time]
                 \/ \E j \in 1 .. Len(l) : r[i] = l[j]
<1> DEFINE later == {i \in 1 .. Len(l) : TimeLessThan(time, l[i].time)}
           at == IF later = {} THEN Len(l) + 1 ELSE Min(later)
           e == [h |-> h, time |-> time]
           r == Insert(l, h, time)
<1>1. e \in SysTimeo /\ e.h = h /\ e.time = time
  BY DEF SysTimeo
<1>2. \A i \in 1 .. Len(l) : l[i] \in SysTimeo /\ l[i].h \in Timers /\ l[i].time \in Clock
  <2>1. \A i \in 1 .. Len(l) : l[i] \in SysTimeo
    OBVIOUS
  <2>2. \A x \in SysTimeo : x.h \in Timers /\ x.time \in Clock
    BY DEF SysTimeo
  <2> QED BY <2>1, <2>2
<1>3. Len(l) \in Nat
  OBVIOUS
<1>4. \A i \in 1 .. Len(l) :
        TimeLessThan(time, l[i].time) <=> Lead(time, n) < Lead(l[i].time, n)
  <2> TAKE i \in 1 .. Len(l)
  <2>1. /\ -HalfRange <= Lead(time, n) - Lead(l[i].time, n)
        /\ Lead(time, n) - Lead(l[i].time, n) < HalfRange
    <3>1. Lead(time, n) \in Leads /\ Lead(l[i].time, n) \in Leads
      OBVIOUS
    <3> QED
      BY <3>1, ClockSizes DEF Leads
  <2>2. Lead(time, l[i].time) = Lead(time, n) - Lead(l[i].time, n)
    BY <2>1, <1>2, LeadFrom
  <2>3. Lead(time, n) \in Int /\ Lead(l[i].time, n) \in Int
    BY <1>2, LeadIs
  <2> QED
    BY <2>2, <2>3, <1>2, LessIs
<1>5. /\ at \in 1 .. Len(l) + 1
      /\ \A i \in 1 .. Len(l) : i < at => ~TimeLessThan(time, l[i].time)
      /\ at <= Len(l) => TimeLessThan(time, l[at].time)
  <2>1. CASE later = {}
    BY <2>1, <1>3
  <2>2. CASE later # {}
    <3>1. later \in SUBSET Nat /\ later \subseteq 1 .. Len(l)
      OBVIOUS
    <3>2. PICK m \in later : \A y \in later : m <= y
      <4> HIDE DEF later
      <4> QED BY <2>2, <3>1, LeastExists
    <3>3. Min(later) \in later /\ \A y \in later : Min(later) <= y
      <4> HIDE DEF later
      <4> QED BY <3>2 DEF Min
    <3>4. at = Min(later)
      BY <2>2
    <3> HIDE DEF at
    <3>5. at \in later /\ \A y \in later : at <= y
      BY <3>3, <3>4
    <3> QED
      BY <3>5, <1>3
  <2> QED BY <2>1, <2>2
<1>6. r = InsertAt(l, at, e)
  BY DEF Insert
<1> HIDE DEF at, r, e, later
<1>7. /\ r \in Seq(SysTimeo) /\ Len(r) = Len(l) + 1
      /\ \A i \in 1 .. Len(l) + 1 :
           r[i] = IF i < at THEN l[i] ELSE IF i = at THEN e ELSE l[i - 1]
  <2>1. e \in SysTimeo /\ at \in 1 .. Len(l) + 1
    BY <1>1, <1>5
  <2>2. /\ InsertAt(l, at, e) \in Seq(SysTimeo)
        /\ Len(InsertAt(l, at, e)) = Len(l) + 1
        /\ \A i \in 1 .. Len(l) + 1 :
             InsertAt(l, at, e)[i]
               = IF i < at THEN l[i] ELSE IF i = at THEN e ELSE l[i - 1]
    BY <2>1, InsertAtIs
  <2> QED BY <2>2, <1>6
<1>8. \A i, j \in 1 .. Len(l) :
        i < j => l[i].h # l[j].h /\ Lead(l[i].time, n) <= Lead(l[j].time, n)
  BY DEF InOrder
<1>9. \A i \in 1 .. Len(l) : l[i].h # h
  BY DEF HandlersIn
<1>10. \A i \in 1 .. Len(l) : Lead(l[i].time, n) \in Int
  BY <1>2, LeadIs
<1>11. Lead(time, n) \in Int
  BY LeadIs
<1>12. \A i \in 1 .. Len(l) : i < at => Lead(l[i].time, n) <= Lead(time, n)
  BY <1>4, <1>5, <1>10, <1>11
<1>13. \A i \in 1 .. Len(l) : i >= at => Lead(time, n) <= Lead(l[i].time, n)
  <2> SUFFICES ASSUME NEW i \in 1 .. Len(l), i >= at
               PROVE  Lead(time, n) <= Lead(l[i].time, n)
    OBVIOUS
  <2>1. at \in 1 .. Len(l) /\ (at = i \/ at < i)
    BY <1>3, <1>5
  <2>2. Lead(time, n) < Lead(l[at].time, n)
    BY <2>1, <1>4, <1>5
  <2>3. Lead(l[at].time, n) <= Lead(l[i].time, n)
    BY <2>1, <1>8, <1>10
  <2> QED
    BY <2>1, <2>2, <2>3, <1>10, <1>11
<1>14. InOrder(r, n)
  <2> SUFFICES ASSUME NEW i \in 1 .. Len(l) + 1, NEW j \in 1 .. Len(l) + 1, i < j
               PROVE  r[i].h # r[j].h /\ Lead(r[i].time, n) <= Lead(r[j].time, n)
    BY <1>7 DEF InOrder
  <2>1. CASE j < at
    <3>1. i < at /\ i \in 1 .. Len(l) /\ j \in 1 .. Len(l)
      BY <2>1, <1>3, <1>5
    <3>2. r[i] = l[i] /\ r[j] = l[j]
      BY <3>1, <2>1, <1>7
    <3> QED BY <3>1, <3>2, <1>8
  <2>2. CASE j = at
    <3>1. i < at /\ i \in 1 .. Len(l) /\ ~(j < at)
      BY <2>2, <1>3, <1>5
    <3>2. r[i] = l[i] /\ r[j] = e
      BY <3>1, <2>2, <1>7
    <3> QED BY <3>1, <3>2, <1>1, <1>9, <1>12
  <2>3. CASE j > at
    <3>1. j - 1 \in 1 .. Len(l) /\ j - 1 >= at /\ ~(j < at) /\ j # at
      BY <2>3, <1>3, <1>5
    <3>2. r[j] = l[j - 1]
      BY <3>1, <1>7
    <3>3. CASE i < at
      <4>1. i \in 1 .. Len(l) /\ i < j - 1
        BY <3>1, <3>3, <1>3, <1>5
      <4>2. r[i] = l[i]
        BY <3>3, <1>7
      <4> QED BY <4>1, <4>2, <3>1, <3>2, <1>8
    <3>4. CASE i = at
      <4>1. r[i] = e
        BY <3>4, <1>5, <1>7
      <4> QED BY <4>1, <3>1, <3>2, <1>1, <1>9, <1>13
    <3>5. CASE i > at
      <4>1. i - 1 \in 1 .. Len(l) /\ i - 1 < j - 1 /\ ~(i < at) /\ i # at
        BY <3>1, <3>5, <1>3, <1>5
      <4>2. r[i] = l[i - 1]
        BY <4>1, <1>7
      <4> QED BY <4>1, <4>2, <3>1, <3>2, <1>8
    <3> QED BY <3>3, <3>4, <3>5, <1>5
  <2> QED BY <2>1, <2>2, <2>3, <1>5
<1>15. \A i \in 1 .. Len(r) : r[i] = e \/ \E j \in 1 .. Len(l) : r[i] = l[j]
  <2> SUFFICES ASSUME NEW i \in 1 .. Len(l) + 1, r[i] # e
               PROVE  \E j \in 1 .. Len(l) : r[i] = l[j]
    BY <1>7
  <2>1. CASE i < at
    <3>1. i \in 1 .. Len(l) /\ r[i] = l[i]
      BY <2>1, <1>3, <1>5, <1>7
    <3> QED BY <3>1
  <2>2. CASE i > at
    <3>1. i - 1 \in 1 .. Len(l) /\ r[i] = l[i - 1]
      BY <2>2, <1>3, <1>5, <1>7
    <3> QED BY <3>1
  <2>3. i # at
    BY <1>5, <1>7
  <2> QED BY <2>1, <2>2, <2>3, <1>5
<1>16. \A j \in 1 .. Len(l) : \E i \in 1 .. Len(r) : r[i] = l[j]
  <2> TAKE j \in 1 .. Len(l)
  <2>1. CASE j < at
    <3>1. j \in 1 .. Len(l) + 1 /\ r[j] = l[j]
      BY <2>1, <1>3, <1>7
    <3> QED BY <3>1, <1>7
  <2>2. CASE j >= at
    <3>1. j + 1 \in 1 .. Len(l) + 1 /\ ~(j + 1 < at) /\ j + 1 # at /\ (j + 1) - 1 = j
      BY <2>2, <1>3, <1>5
    <3>2. r[j + 1] = l[j]
      BY <3>1, <1>7
    <3> QED BY <3>1, <3>2, <1>7
  <2> QED BY <2>1, <2>2, <1>5
<1>17. at \in 1 .. Len(r) /\ r[at] = e
  BY <1>5, <1>7
<1>18. HandlersIn(r) = HandlersIn(l) \cup {h}
  <2>1. ASSUME NEW x \in HandlersIn(r) PROVE x \in HandlersIn(l) \cup {h}
    <3>1. PICK i \in 1 .. Len(r) : x = r[i].h
      BY DEF HandlersIn
    <3> QED BY <3>1, <1>1, <1>15 DEF HandlersIn
  <2>2. ASSUME NEW x \in HandlersIn(l) PROVE x \in HandlersIn(r)
    <3>1. PICK j \in 1 .. Len(l) : x = l[j].h
      BY DEF HandlersIn
    <3>2. PICK i \in 1 .. Len(r) : r[i] = l[j]
      BY <1>16
    <3>3. x = r[i].h
      BY <3>1, <3>2
    <3> QED BY <3>3 DEF HandlersIn
  <2>3. h \in HandlersIn(r)
    BY <1>1, <1>17 DEF HandlersIn
  <2> QED BY <2>1, <2>2, <2>3
<1> QED
  BY <1>7, <1>14, <1>15, <1>18 DEF r, e

\* A timer leaves the list with its entry.
LEMMA TailIs ==
  ASSUME NEW l \in Seq(SysTimeo), NEW n \in Clock, InOrder(l, n), l # << >>
  PROVE  /\ Len(l) \in Nat /\ 1 \in 1 .. Len(l) /\ Head(l) = l[1] /\ Head(l) \in SysTimeo
         /\ \A i \in 1 .. Len(l) : Lead(Head(l).time, n) <= Lead(l[i].time, n)
         /\ Tail(l) \in Seq(SysTimeo) /\ InOrder(Tail(l), n)
         /\ HandlersIn(Tail(l)) = HandlersIn(l) \ {Head(l).h}
         /\ \A i \in 1 .. Len(Tail(l)) :
              /\ \E j \in 1 .. Len(l) : Tail(l)[i] = l[j]
              /\ Tail(l)[i].h # Head(l).h
<1>1. Len(l) \in Nat /\ 1 \in 1 .. Len(l) /\ Head(l) = l[1] /\ Head(l) \in SysTimeo
  OBVIOUS
<1>2. /\ Tail(l) \in Seq(SysTimeo) /\ Len(Tail(l)) = Len(l) - 1
      /\ \A i \in 1 .. Len(l) - 1 : Tail(l)[i] = l[i + 1]
  OBVIOUS
<1>3. \A i, j \in 1 .. Len(l) :
        i < j => l[i].h # l[j].h /\ Lead(l[i].time, n) <= Lead(l[j].time, n)
  BY DEF InOrder
<1>4. \A i \in 1 .. Len(l) : Lead(Head(l).time, n) <= Lead(l[i].time, n)
  <2> TAKE i \in 1 .. Len(l)
  <2>1. CASE i = 1
    <3>1. l[1].time \in Clock
      BY <1>1 DEF SysTimeo
    <3>2. Lead(l[1].time, n) \in Int
      BY <3>1, LeadIs
    <3> QED BY <2>1, <3>2, <1>1
  <2>2. CASE i # 1
    <3>1. 1 < i
      BY <2>2, <1>1
    <3> QED BY <3>1, <1>1, <1>3
  <2> QED BY <2>1, <2>2
<1>5. \A i \in 1 .. Len(l) - 1 : i + 1 \in 1 .. Len(l) /\ 1 < i + 1
  BY <1>1
<1>6. InOrder(Tail(l), n)
  <2> SUFFICES ASSUME NEW i \in 1 .. Len(l) - 1, NEW j \in 1 .. Len(l) - 1, i < j
               PROVE  /\ Tail(l)[i].h # Tail(l)[j].h
                      /\ Lead(Tail(l)[i].time, n) <= Lead(Tail(l)[j].time, n)
    BY <1>2 DEF InOrder
  <2>1. i + 1 \in 1 .. Len(l) /\ j + 1 \in 1 .. Len(l) /\ i + 1 < j + 1
    BY <1>1
  <2> QED
    BY <2>1, <1>2, <1>3
<1>7. \A i \in 1 .. Len(Tail(l)) :
        /\ \E j \in 1 .. Len(l) : Tail(l)[i] = l[j]
        /\ Tail(l)[i].h # Head(l).h
  <2> SUFFICES ASSUME NEW i \in 1 .. Len(l) - 1
               PROVE  /\ \E j \in 1 .. Len(l) : Tail(l)[i] = l[j]
                      /\ Tail(l)[i].h # Head(l).h
    BY <1>2
  <2>1. Tail(l)[i] = l[i + 1] /\ i + 1 \in 1 .. Len(l) /\ 1 < i + 1
    BY <1>2, <1>5
  <2> QED
    BY <2>1, <1>1, <1>3
<1>8. HandlersIn(Tail(l)) = HandlersIn(l) \ {Head(l).h}
  <2>1. ASSUME NEW x \in HandlersIn(Tail(l)) PROVE x \in HandlersIn(l) \ {Head(l).h}
    BY <2>1, <1>7 DEF HandlersIn
  <2>2. ASSUME NEW x \in HandlersIn(l), x # Head(l).h PROVE x \in HandlersIn(Tail(l))
    <3>1. PICK j \in 1 .. Len(l) : x = l[j].h
      BY <2>2 DEF HandlersIn
    <3>2. j # 1
      BY <3>1, <2>2, <1>1
    <3>3. j - 1 \in 1 .. Len(l) - 1 /\ (j - 1) + 1 = j
      BY <3>2, <1>1
    <3>4. Tail(l)[j - 1] = l[j] /\ j - 1 \in 1 .. Len(Tail(l))
      BY <3>3, <1>2
    <3>5. x = Tail(l)[j - 1].h
      BY <3>1, <3>4
    <3> QED
      BY <3>4, <3>5 DEF HandlersIn
  <2> QED
    BY <2>1, <2>2
<1> QED
  BY <1>1, <1>2, <1>4, <1>6, <1>7, <1>8

\* What is in order has every timer at most once.
LEMMA CountIs ==
  ASSUME NEW l \in Seq(SysTimeo), NEW n \in Clock, InOrder(l, n), NEW h
  PROVE  /\ Cardinality({i \in 1 .. Len(l) : l[i].h = h})
              = IF h \in HandlersIn(l) THEN 1 ELSE 0
         /\ Len(l) <= Cardinality(Timers)
<1> DEFINE S == {i \in 1 .. Len(l) : l[i].h = h}
           f == [i \in 1 .. Len(l) |-> l[i].h]
<1>1. Len(l) \in Nat
  OBVIOUS
<1>2. \A i, j \in 1 .. Len(l) : l[i].h = l[j].h => i = j
  <2> SUFFICES ASSUME NEW i \in 1 .. Len(l), NEW j \in 1 .. Len(l), l[i].h = l[j].h
               PROVE  i = j
    OBVIOUS
  <2>1. i < j \/ j < i \/ i = j
    OBVIOUS
  <2>2. ~(i < j) /\ ~(j < i)
    BY DEF InOrder
  <2> QED BY <2>1, <2>2
<1>3. ASSUME h \in HandlersIn(l) PROVE Cardinality(S) = 1
  <2>1. PICK i \in 1 .. Len(l) : h = l[i].h
    BY <1>3 DEF HandlersIn
  <2>2. S = {i}
    BY <2>1, <1>2
  <2>3. Cardinality({i}) = 1
    BY FS_Singleton
  <2> QED BY <2>2, <2>3
<1>4. ASSUME h \notin HandlersIn(l) PROVE Cardinality(S) = 0
  <2>1. S = {}
    BY <1>4 DEF HandlersIn
  <2> QED BY <2>1, FS_EmptySet
<1>5. Len(l) <= Cardinality(Timers)
  <2>1. \A i \in 1 .. Len(l) : l[i].h \in Timers
    <3>1. \A i \in 1 .. Len(l) : l[i] \in SysTimeo
      OBVIOUS
    <3> QED BY <3>1 DEF SysTimeo
  <2>2. f \in Injection(1 .. Len(l), Timers)
    BY <2>1, <1>2 DEF Injection, IsInjective
  <2>3. IsFiniteSet(Timers)
    BY TimeoutsAssumption, FS_AddElement DEF Timers
  <2>4. Cardinality(1 .. Len(l)) <= Cardinality(Timers)
    <3> HIDE DEF f
    <3> QED BY <2>2, <2>3, FS_Injection
  <2>5. Cardinality(1 .. Len(l)) = IF 1 > Len(l) THEN 0 ELSE (Len(l) - 1) + 1
    BY <1>1, FS_Interval
  <2>6. Cardinality(1 .. Len(l)) = Len(l)
    BY <1>1, <2>5
  <2> QED BY <2>4, <2>6
<1> QED
  BY <1>3, <1>4, <1>5

-----------------------------------------------------------------------------
(* What the invariant says of a state. *)

LEMMA NoTimer == "" \notin Timers /\ Tcp \notin Cyclic /\ Cyclic \subseteq Timers /\ Tcp \in Timers
BY TimeoutsAssumption DEF Timers, Tcp

LEMMA TardyIs ==
  ASSUME NEW b \in 0 .. MaxBusy, NEW h, NEW p
  PROVE  /\ Tardy(h, p, b) \in Nat /\ Tardy(h, p, b) <= LongestMs + 2 * TurnMs
         /\ h # Tcp => Tardy(h, p, b) <= 2 * TurnMs
         /\ p \in {"fetch", "handle"} => Tardy(h, p, b) <= LongestMs + TurnMs
         /\ p \notin {"fetch", "handle"} => TurnMs <= Tardy(h, p, b)
         /\ Ms(b) \in Nat /\ Ms(b) <= TurnMs /\ Ms(b) <= Tardy(h, p, b)
<1>1. Ms(b) \in Nat /\ Ms(b) <= TurnMs
  BY MsIs
<1>2. LongestMs \in Nat /\ TurnMs \in Nat
  BY ClockSizes
<1> QED
  BY <1>1, <1>2 DEF Tardy

LEMMA EntriesAre ==
  ASSUME TimeoutsInv
  PROVE  /\ Len(next_timeout) \in Nat
         /\ \A i \in 1 .. Len(next_timeout) :
              LET e == next_timeout[i]
              IN /\ e \in SysTimeo /\ e.h \in Timers /\ e.time \in Clock /\ e.h \in Armed
                 /\ EntryOk(e, now, pc, busy, wait, last) /\ Lead(e.time, now) \in Int /\ Lead(e.time, now) \in Leads
         /\ pc # "run" => next_timeout # << >>
<1>1. next_timeout \in Seq(SysTimeo) /\ now \in Clock /\ busy \in 0 .. MaxBusy
  BY DEF TimeoutsInv
<1>2. Len(next_timeout) \in Nat
  BY <1>1
<1>3. \A i \in 1 .. Len(next_timeout) : next_timeout[i] \in SysTimeo
  BY <1>1
<1>4. \A i \in 1 .. Len(next_timeout) : next_timeout[i].h \in Armed
  BY DEF TimeoutsInv, HandlersIn
<1>5. \A i \in 1 .. Len(next_timeout) : EntryOk(next_timeout[i], now, pc, busy, wait, last)
  BY DEF TimeoutsInv
<1>6. \A e \in SysTimeo : e.h \in Timers /\ e.time \in Clock
  BY DEF SysTimeo
<1>7. ASSUME NEW e \in SysTimeo, EntryOk(e, now, pc, busy, wait, last)
      PROVE  Lead(e.time, now) \in Int /\ Lead(e.time, now) \in Leads
  <2>1. Lead(e.time, now) \in Int
    BY <1>1, <1>6, LeadIs
  <2>2. -Tardy(e.h, pc, busy) <= Lead(e.time, now) /\ Lead(e.time, now) <= LongestMs
    BY <1>7 DEF EntryOk
  <2>3. Tardy(e.h, pc, busy) \in Nat /\ Tardy(e.h, pc, busy) <= LongestMs + 2 * TurnMs
    BY <1>1, TardyIs
  <2> QED
    BY <2>1, <2>2, <2>3, ClockSizes DEF Leads
<1>8. ASSUME pc # "run" PROVE next_timeout # << >>
  <2>1. running = ""
    BY <1>8 DEF TimeoutsInv, RunInv
  <2>2. PICK h \in Cyclic : TRUE
    BY TimeoutsAssumption
  <2>3. h \in Armed
    BY <2>1, NoTimer DEF Armed
  <2>4. h \in HandlersIn(next_timeout)
    BY <2>3 DEF TimeoutsInv
  <2> QED
    BY <2>4, <1>2 DEF HandlersIn
<1> QED
  BY <1>2, <1>3, <1>4, <1>5, <1>6, <1>7, <1>8

\* An entry stays as it is when more lateness is allowed or the sleep ends.
LEMMA EntryKept ==
  ASSUME NEW e \in SysTimeo, NEW n \in Clock, NEW p, NEW b \in 0 .. MaxBusy,
         NEW w \in Nat, NEW l, EntryOk(e, n, p, b, w, l),
         NEW q, NEW c \in 0 .. MaxBusy, Tardy(e.h, p, b) <= Tardy(e.h, q, c), NEW v \in {w, 0}
  PROVE  EntryOk(e, n, q, c, v, l)
<1>1. e.time \in Clock
  BY DEF SysTimeo
<1>2. Lead(e.time, n) \in Int
  BY <1>1, LeadIs
<1>3. Tardy(e.h, p, b) \in Nat /\ Tardy(e.h, q, c) \in Nat
  BY TardyIs
<1>4. -Tardy(e.h, p, b) <= Lead(e.time, n)
  BY DEF EntryOk
<1>5. -Tardy(e.h, q, c) <= Lead(e.time, n)
  BY <1>2, <1>3, <1>4
<1> QED
  BY <1>5 DEF EntryOk

\* sys_timeouts_sleeptime: nothing is due before it.
LEMMA SleeptimeIs ==
  ASSUME TimeoutsInv, pc # "run"
  PROVE  /\ Sleeptime \in 0 .. LongestMs
         /\ Sleeptime # 0 => \A i \in 1 .. Len(next_timeout) :
                               Sleeptime <= Lead(next_timeout[i].time, now)
<1> DEFINE t == Head(next_timeout).time
<1>1. /\ next_timeout \in Seq(SysTimeo) /\ now \in Clock /\ InOrder(next_timeout, now)
      /\ next_timeout # << >>
  BY EntriesAre DEF TimeoutsInv
<1>2. /\ Head(next_timeout) = next_timeout[1] /\ 1 \in 1 .. Len(next_timeout)
      /\ \A i \in 1 .. Len(next_timeout) : Lead(t, now) <= Lead(next_timeout[i].time, now)
  BY <1>1, TailIs
<1>3. t \in Clock /\ Lead(t, now) \in Int /\ Lead(t, now) <= LongestMs
  <2>1. EntryOk(Head(next_timeout), now, pc, busy, wait, last) /\ t \in Clock
    BY <1>2, EntriesAre
  <2> QED
    BY <2>1, <1>1, LeadIs DEF EntryOk
<1>4. Sleeptime = IF TimeLessThan(t, now) THEN 0 ELSE (t - now) % ClockRange
  BY DEF Sleeptime
<1>5. TimeLessThan(t, now) <=> Lead(t, now) < 0
  BY <1>1, <1>3, LessIs
<1>6. ~(Lead(t, now) < 0) => (t - now) % ClockRange = Lead(t, now)
  <2>1. (t - now) % ClockRange \in 0 .. ClockRange - 1
    BY <1>1, <1>3, DiffIs, ClockSizes DEF Clock
  <2> QED
    BY <2>1, ClockSizes DEF Lead
<1> HIDE DEF t
<1>7. Sleeptime = IF Lead(t, now) < 0 THEN 0 ELSE Lead(t, now)
  BY <1>4, <1>5, <1>6
<1>8. Sleeptime \in 0 .. LongestMs /\ (Sleeptime # 0 => Sleeptime = Lead(t, now))
  BY <1>3, <1>7, ClockSizes
<1> QED
  BY <1>2, <1>8

-----------------------------------------------------------------------------
(* The steps. *)

LEMMA StillStep ==
  ASSUME TimeoutsInv, UNCHANGED timeoutsVars
  PROVE  TimeoutsInv'
BY DEF TimeoutsInv, timeoutsVars, Armed, RunInv, SleepInv

\* Steps that leave the time and the list alone.
LEMMA ListStays ==
  ASSUME TimeoutsInv, UNCHANGED <<now, next_timeout, running, tcpActive, last>>,
         busy' \in 0 .. MaxBusy, wait' \in {wait, 0},
         \A h \in Timers : Tardy(h, pc, busy) <= Tardy(h, pc', busy')
  PROVE  /\ HandlersIn(next_timeout') = Armed' /\ InOrder(next_timeout', now')
         /\ \A i \in 1 .. Len(next_timeout') :
              EntryOk(next_timeout'[i], now', pc', busy', wait', last')
<1>1. HandlersIn(next_timeout') = Armed' /\ InOrder(next_timeout', now')
  BY DEF TimeoutsInv, Armed
<1>2. ASSUME NEW i \in 1 .. Len(next_timeout)
      PROVE  EntryOk(next_timeout[i], now, pc', busy', wait', last)
  <2>1. /\ next_timeout[i] \in SysTimeo /\ next_timeout[i].h \in Timers
        /\ EntryOk(next_timeout[i], now, pc, busy, wait, last)
    BY EntriesAre
  <2>2. now \in Clock /\ busy \in 0 .. MaxBusy /\ wait \in Nat
    BY DEF TimeoutsInv
  <2>3. Tardy(next_timeout[i].h, pc, busy) <= Tardy(next_timeout[i].h, pc', busy')
    BY <2>1
  <2> QED
    BY <2>1, <2>2, <2>3, EntryKept
<1> QED
  BY <1>1, <1>2

LEMMA AgainStep ==
  ASSUME TimeoutsInv, Again
  PROVE  TimeoutsInv'
<1>1. now \in Clock /\ wait = 0 /\ busy \in 0 .. MaxBusy /\ pc = "again" /\ running = ""
  BY DEF TimeoutsInv, RunInv, SleepInv, Again
<1>2. UNCHANGED <<now, next_timeout, due, running, busy, tcpActive, tcpPcbs, last>>
  BY DEF Again
<1>3. Ms(busy) \in Nat /\ Ms(0) = 0 /\ LongestMs \in Nat
  BY <1>1, TardyIs, MsIs, ClockSizes
<1>4. CASE Sleeptime = 0
  <2>1. pc' = "check" /\ snap' = now /\ wait' = 0
    BY <1>1, <1>4 DEF Again
  <2>2. RunInv'
    <3>1. Lead(now, now) = 0 /\ -Ms(busy) <= 0 /\ 0 <= 0
      <4>1. Lead(now, now) = 0
        BY <1>1, LeadSelf
      <4>2. \A a \in Nat : -a <= 0
        OBVIOUS
      <4>3. -Ms(busy) <= 0
        BY <4>2, <1>3, Zenon
      <4> QED
        BY <4>1, <4>3
    <3>2. Lead(snap', now') = 0 /\ -Ms(busy') <= 0
      BY <2>1, <3>1, <1>2, Zenon
    <3> QED
      BY <2>1, <3>1, <3>2, <1>1, <1>2, NoTimer DEF RunInv
  <2>3. SleepInv'
    BY <2>1, <1>3 DEF SleepInv
  <2>4. \A h \in Timers : Tardy(h, pc', busy') = Tardy(h, pc, busy) /\ Tardy(h, pc, busy) \in Nat
    BY <2>1, <1>1, <1>2, TardyIs DEF Tardy
  <2>5. /\ HandlersIn(next_timeout') = Armed' /\ InOrder(next_timeout', now')
        /\ \A i \in 1 .. Len(next_timeout') :
             EntryOk(next_timeout'[i], now', pc', busy', wait', last')
    <3>1. busy' \in 0 .. MaxBusy /\ wait' \in {wait, 0}
      BY <2>1, <1>1, <1>2
    <3>2. \A a \in Nat : a <= a
      OBVIOUS
    <3>3. \A h \in Timers : Tardy(h, pc, busy) <= Tardy(h, pc', busy')
      BY <2>4, <3>2, Zenon
    <3> QED
      BY <3>1, <3>3, <1>2, ListStays
  <2> QED
    BY <2>1, <2>2, <2>3, <2>5, <1>1, <1>2 DEF TimeoutsInv
<1>5. CASE Sleeptime # 0
  <2>1. pc' = "fetch" /\ snap' = snap /\ wait' = FetchTicks
    BY <1>5 DEF Again
  <2>2. /\ Sleeptime \in Nat /\ Sleeptime <= LongestMs
        /\ \A i \in 1 .. Len(next_timeout) : Sleeptime <= Lead(next_timeout[i].time, now)
    <3>1. pc # "run"
      BY <1>1
    <3>2. /\ Sleeptime \in 0 .. LongestMs
          /\ \A i \in 1 .. Len(next_timeout) : Sleeptime <= Lead(next_timeout[i].time, now)
      BY <3>1, <1>5, SleeptimeIs, Zenon
    <3> QED
      BY <3>2, <1>3
  <2>3. wait' \in Nat /\ Ms(wait') \in Nat /\ Ms(wait') <= Sleeptime
    <3>1. \A s, d \in Nat : d # 0 => s \div d \in Nat /\ (s \div d) * d <= s /\ (s \div d) * d \in Nat
      OBVIOUS
    <3> QED
      BY <2>1, <2>2, <3>1, ClockSizes DEF FetchTicks, Ms
  <2>4. RunInv'
    BY <2>1, <1>1, <1>2, NoTimer DEF RunInv
  <2>5. SleepInv'
    BY <2>1, <2>2, <2>3, <1>3 DEF SleepInv
  <2>6. ASSUME NEW i \in 1 .. Len(next_timeout)
        PROVE  EntryOk(next_timeout[i], now, pc', busy, wait', last)
    <3> DEFINE e == next_timeout[i]
               x == Lead(e.time, now)
    <3>1. EntryOk(e, now, pc, busy, wait, last) /\ x \in Int /\ Sleeptime <= x
      BY <2>2, EntriesAre
    <3>2. Tardy(e.h, pc', busy) \in Nat
      BY <1>1, TardyIs
    <3>3. -Tardy(e.h, pc', busy) <= x
      BY <3>1, <3>2, <2>2
    <3>4. Ms(wait') - (IF e.h = Tcp THEN LongestMs ELSE 0) <= x
      BY <3>1, <2>2, <2>3, <1>3
    <3> QED
      BY <3>1, <3>3, <3>4 DEF EntryOk
  <2>7. HandlersIn(next_timeout') = Armed' /\ InOrder(next_timeout', now')
    BY <1>2 DEF TimeoutsInv, Armed
  <2> QED
    BY <2>1, <2>3, <2>4, <2>5, <2>6, <2>7, <1>2 DEF TimeoutsInv
<1> QED
  BY <1>4, <1>5

LEMMA FetchTimesOutStep ==
  ASSUME TimeoutsInv, FetchTimesOut
  PROVE  TimeoutsInv'
<1>1. now \in Clock /\ wait = 0 /\ busy \in 0 .. MaxBusy /\ pc = "fetch" /\ running = ""
  BY DEF TimeoutsInv, RunInv, SleepInv, FetchTimesOut
<1>2. /\ UNCHANGED <<now, next_timeout, due, running, wait, busy, tcpActive, tcpPcbs, last>>
      /\ pc' = "check" /\ snap' = now
  BY DEF FetchTimesOut
<1>3. Ms(busy) \in Nat /\ Ms(0) = 0 /\ LongestMs \in Nat /\ TurnMs \in Nat
  BY <1>1, TardyIs, MsIs, ClockSizes
<1>4. RunInv'
  <2>1. Lead(now, now) = 0 /\ -Ms(busy) <= 0 /\ 0 <= 0
    <3>1. Lead(now, now) = 0
      BY <1>1, LeadSelf
    <3>2. \A a \in Nat : -a <= 0
      OBVIOUS
    <3>3. -Ms(busy) <= 0
      BY <3>2, <1>3, Zenon
    <3> QED
      BY <3>1, <3>3
  <2>2. Lead(snap', now') = 0 /\ -Ms(busy') <= 0
    BY <2>1, <1>2, Zenon
  <2> QED
    BY <2>1, <2>2, <1>1, <1>2, NoTimer DEF RunInv
<1>5. SleepInv'
  <2>1. wait' = 0
    BY <1>1, <1>2
  <2>2. Ms(wait') = 0
    BY <2>1, <1>3, Zenon
  <2> QED
    BY <2>1, <2>2, <1>3 DEF SleepInv
<1>6. \A h \in Timers : Tardy(h, pc, busy) <= Tardy(h, pc', busy')
  <2> TAKE h \in Timers
  <2>1. /\ Tardy(h, pc, busy) = (IF h = Tcp THEN LongestMs ELSE 0) + 0 + Ms(busy)
        /\ Tardy(h, pc', busy') = (IF h = Tcp THEN LongestMs ELSE 0) + TurnMs + Ms(busy)
    BY <1>1, <1>2 DEF Tardy
  <2> QED
    BY <2>1, <1>3
<1>7. /\ HandlersIn(next_timeout') = Armed' /\ InOrder(next_timeout', now')
      /\ \A i \in 1 .. Len(next_timeout') :
           EntryOk(next_timeout'[i], now', pc', busy', wait', last')
  <2>1. busy' \in 0 .. MaxBusy /\ wait' \in {wait, 0}
    BY <1>1, <1>2
  <2> QED
    BY <2>1, <1>2, <1>6, ListStays
<1> QED
  BY <1>1, <1>2, <1>4, <1>5, <1>7 DEF TimeoutsInv

LEMMA FetchMessageStep ==
  ASSUME TimeoutsInv, FetchMessage
  PROVE  TimeoutsInv'
<1>1. busy \in 0 .. MaxBusy /\ pc = "fetch" /\ running = ""
  BY DEF TimeoutsInv, RunInv, FetchMessage
<1>2. /\ UNCHANGED <<now, next_timeout, due, running, snap, busy, tcpActive, tcpPcbs, last>>
      /\ pc' = "handle" /\ wait' = 0
  BY DEF FetchMessage
<1>3. RunInv'
  BY <1>1, <1>2, NoTimer DEF RunInv
<1>4. SleepInv'
  BY <1>2, MsIs, ClockSizes DEF SleepInv
<1>5. \A h \in Timers : Tardy(h, pc', busy') = Tardy(h, pc, busy) /\ Tardy(h, pc, busy) \in Nat
  BY <1>1, <1>2, TardyIs DEF Tardy
<1>6. /\ HandlersIn(next_timeout') = Armed' /\ InOrder(next_timeout', now')
      /\ \A i \in 1 .. Len(next_timeout') :
           EntryOk(next_timeout'[i], now', pc', busy', wait', last')
  <2>1. busy' \in 0 .. MaxBusy /\ wait' \in {wait, 0}
    BY <1>1, <1>2
  <2>2. \A a \in Nat : a <= a
    OBVIOUS
  <2>3. \A h \in Timers : Tardy(h, pc, busy) <= Tardy(h, pc', busy')
    BY <2>2, <1>5, Zenon
  <2> QED
    BY <2>1, <2>3, <1>2, ListStays
<1> QED
  BY <1>1, <1>2, <1>3, <1>4, <1>6 DEF TimeoutsInv

LEMMA CheckDoneStep ==
  ASSUME TimeoutsInv, CheckDone
  PROVE  TimeoutsInv'
<1>1. /\ now \in Clock /\ snap \in Clock /\ next_timeout \in Seq(SysTimeo)
      /\ InOrder(next_timeout, now)
      /\ wait = 0 /\ busy \in 0 .. MaxBusy /\ pc = "check" /\ running = ""
      /\ -Ms(busy) <= Lead(snap, now) /\ Lead(snap, now) <= 0
  BY DEF TimeoutsInv, RunInv, SleepInv, CheckDone
<1>2. /\ UNCHANGED <<now, next_timeout, due, running, snap, wait, tcpActive, tcpPcbs, last>>
      /\ pc' = "again" /\ busy' = 0
  BY DEF CheckDone, NextTurn
<1>3. /\ Ms(busy) \in Nat /\ Ms(busy) <= TurnMs /\ Ms(0) = 0 /\ TurnMs \in Nat
      /\ LongestMs \in Nat /\ HalfRange \in Nat /\ 2 * LongestMs + 2 * TurnMs < HalfRange
  BY <1>1, TardyIs, MsIs, ClockSizes
<1>4. RunInv'
  BY <1>1, <1>2, NoTimer DEF RunInv
<1>5. SleepInv'
  <2>1. wait' = 0
    BY <1>1, <1>2
  <2>2. Ms(wait') = 0
    BY <2>1, <1>3, Zenon
  <2> QED
    BY <2>1, <2>2, <1>3 DEF SleepInv
<1>6. busy' \in 0 .. MaxBusy
  BY <1>2, ClockSizes
<1> DEFINE t == Head(next_timeout).time
           s == Lead(snap, now)
<1>7. next_timeout # << >>
  BY <1>1, EntriesAre
<1>8. /\ 1 \in 1 .. Len(next_timeout) /\ Head(next_timeout) = next_timeout[1]
      /\ \A i \in 1 .. Len(next_timeout) : Lead(t, now) <= Lead(next_timeout[i].time, now)
  BY <1>1, <1>7, TailIs
<1>9. t \in Clock /\ Lead(t, now) \in Leads /\ Lead(t, now) \in Int
  BY <1>8, EntriesAre
<1>10. s \in Int /\ -TurnMs <= s /\ s <= 0
  <2>1. s \in Int
    BY <1>1, LeadIs
  <2>2. -Ms(busy) <= s /\ s <= 0
    BY <1>1
  <2> HIDE DEF s
  <2> QED
    BY <2>1, <2>2, <1>3
<1>11. TimeLessThan(snap, t)
  BY <1>7 DEF CheckDone
<1>12. s < Lead(t, now)
  <2>1. -HalfRange <= s - Lead(t, now) /\ s - Lead(t, now) < HalfRange
    <3> HIDE DEF s, t
    <3>1. -(LongestMs + 2 * TurnMs) <= Lead(t, now) /\ Lead(t, now) <= LongestMs
      BY <1>9 DEF Leads
    <3> QED
      BY <3>1, <1>3, <1>9, <1>10
  <2>2. Lead(snap, t) = s - Lead(t, now)
    BY <2>1, <1>1, <1>9, LeadFrom
  <2>3. Lead(snap, t) < 0
    BY <1>1, <1>9, <1>11, LessIs
  <2> HIDE DEF s
  <2> QED
    BY <2>2, <2>3, <1>9, <1>10
<1> HIDE DEF s, t
<1>13. ASSUME NEW i \in 1 .. Len(next_timeout)
       PROVE  EntryOk(next_timeout[i], now, pc', busy', wait, last)
  <2> DEFINE e == next_timeout[i]
             x == Lead(e.time, now)
  <2>1. EntryOk(e, now, pc, busy, wait, last) /\ x \in Int
    BY EntriesAre
  <2>2. Lead(t, now) <= x
    BY <1>8
  <2>3. Tardy(e.h, pc', busy') \in Nat /\ TurnMs <= Tardy(e.h, pc', busy')
    BY <1>2, <1>6, TardyIs
  <2>4. -Tardy(e.h, pc', busy') <= x
    <3> HIDE DEF x
    <3> QED BY <2>1, <2>2, <2>3, <1>3, <1>9, <1>10, <1>12
  <2> QED
    BY <2>1, <2>4, <1>1 DEF EntryOk
<1>14. HandlersIn(next_timeout') = Armed' /\ InOrder(next_timeout', now')
  BY <1>2 DEF TimeoutsInv, Armed
<1> QED
  BY <1>2, <1>4, <1>5, <1>6, <1>13, <1>14 DEF TimeoutsInv

\* A timer joins the list.
LEMMA Arm ==
  ASSUME TimeoutsInv, NEW h \in Timers, h \notin Armed, NEW time \in Clock,
         NEW p, NEW b \in 0 .. MaxBusy, NEW w, NEW l,
         \A i \in 1 .. Len(next_timeout) : EntryOk(next_timeout[i], now, p, b, w, l),
         EntryOk([h |-> h, time |-> time], now, p, b, w, l)
  PROVE  LET r == Insert(next_timeout, h, time)
         IN /\ r \in Seq(SysTimeo) /\ InOrder(r, now) /\ HandlersIn(r) = Armed \cup {h}
            /\ \A i \in 1 .. Len(r) : EntryOk(r[i], now, p, b, w, l)
<1> DEFINE r == Insert(next_timeout, h, time)
           e == [h |-> h, time |-> time]
<1>1. /\ next_timeout \in Seq(SysTimeo) /\ now \in Clock /\ InOrder(next_timeout, now)
      /\ HandlersIn(next_timeout) = Armed
  BY DEF TimeoutsInv
<1>2. \A i \in 1 .. Len(next_timeout) : Lead(next_timeout[i].time, now) \in Leads
  BY EntriesAre
<1>3. Lead(time, now) \in Leads
  <2>1. e.time = time
    OBVIOUS
  <2>2. Lead(time, now) \in Int
    BY <1>1, LeadIs
  <2>3. -Tardy(e.h, p, b) <= Lead(time, now) /\ Lead(time, now) <= LongestMs
    BY <2>1 DEF EntryOk
  <2>4. Tardy(e.h, p, b) \in Nat /\ Tardy(e.h, p, b) <= LongestMs + 2 * TurnMs
    BY TardyIs
  <2>5. LongestMs \in Nat /\ TurnMs \in Nat
    BY ClockSizes
  <2> HIDE DEF e
  <2>6. -(LongestMs + 2 * TurnMs) <= Lead(time, now)
    BY <2>2, <2>3, <2>4, <2>5
  <2> QED
    BY <2>2, <2>3, <2>6 DEF Leads
<1>4. h \notin HandlersIn(next_timeout)
  BY <1>1
<1>5. /\ r \in Seq(SysTimeo) /\ InOrder(r, now)
      /\ HandlersIn(r) = HandlersIn(next_timeout) \cup {h}
      /\ \A i \in 1 .. Len(r) : r[i] = e \/ \E j \in 1 .. Len(next_timeout) : r[i] = next_timeout[j]
  BY <1>1, <1>2, <1>3, <1>4, InsertIs
<1> HIDE DEF r, e
<1>6. \A i \in 1 .. Len(r) : EntryOk(r[i], now, p, b, w, l)
  <2>1. EntryOk(e, now, p, b, w, l)
    BY DEF e
  <2> QED
    BY <2>1, <1>5
<1> QED
  BY <1>1, <1>5, <1>6 DEF r

\* sys_timeout: an interval from now.
LEMMA TimeoutIs ==
  ASSUME now \in Clock, NEW h \in Timers, NEW list
  PROVE  LET t == (now + Interval[h]) % ClockRange
         IN /\ Timeout(list, h) = Insert(list, h, t)
            /\ t \in Clock /\ Lead(t, now) = Interval[h]
            /\ Interval[h] \in Nat /\ Interval[h] <= LongestMs
<1> DEFINE t == (now + Interval[h]) % ClockRange
<1>1. /\ Interval[h] \in Nat /\ Interval[h] <= LongestMs /\ Interval[h] < HalfRange
      /\ Interval[h] \in 0 .. ClockRange
  BY ClockSizes
<1>2. t \in Clock
  BY <1>1, SumIs
<1>3. Lead(now, now) = 0
  BY LeadSelf
<1>4. Lead(t, now) = 0 + Interval[h]
  BY <1>1, <1>3, LeadPlus
<1>5. 0 + Interval[h] = Interval[h]
  BY <1>1
<1> QED
  BY <1>1, <1>2, <1>4, <1>5 DEF Timeout

\* The TCP timer when it is started.
LEMMA NewTcp ==
  ASSUME now \in Clock, NEW p, NEW b \in 0 .. MaxBusy, NEW w \in Nat, Ms(w) <= LongestMs, NEW l
  PROVE  EntryOk([h |-> Tcp, time |-> (now + Interval[Tcp]) % ClockRange], now, p, b, w, l)
<1> DEFINE t == (now + Interval[Tcp]) % ClockRange
           e == [h |-> Tcp, time |-> t]
<1>1. Lead(t, now) = Interval[Tcp] /\ Interval[Tcp] \in Nat /\ Interval[Tcp] <= LongestMs
  BY TimeoutIs, NoTimer
<1>2. Tardy(Tcp, p, b) \in Nat /\ Ms(w) \in Nat /\ LongestMs \in Nat
  BY TardyIs, MsIs, ClockSizes
<1>3. e.h = Tcp /\ e.time = t /\ Tcp \notin Cyclic
  BY NoTimer
<1> HIDE DEF t, e
<1>4. -Tardy(Tcp, p, b) <= Lead(t, now) /\ Lead(t, now) <= LongestMs
  BY <1>1, <1>2
<1>5. Ms(w) - LongestMs <= Lead(t, now)
  BY <1>1, <1>2
<1>6. EntryOk(e, now, p, b, w, l)
  BY <1>3, <1>4, <1>5 DEF EntryOk
<1> QED
  BY <1>6 DEF e, t

LEMMA HandleMessageStep ==
  ASSUME TimeoutsInv, HandleMessage
  PROVE  TimeoutsInv'
<1>1. /\ now \in Clock /\ wait = 0 /\ busy \in 0 .. MaxBusy /\ pc = "handle" /\ running = ""
      /\ next_timeout \in Seq(SysTimeo) /\ InOrder(next_timeout, now)
      /\ HandlersIn(next_timeout) = Armed /\ tcpActive \in BOOLEAN
  BY DEF TimeoutsInv, RunInv, SleepInv, HandleMessage
<1>2. /\ UNCHANGED <<now, due, running, snap, wait, last>>
      /\ pc' = "again" /\ busy' = 0 /\ tcpPcbs' \in BOOLEAN
  BY DEF HandleMessage, NextTurn
<1>3. /\ Ms(0) = 0 /\ LongestMs \in Nat /\ TurnMs \in Nat /\ Ms(busy) \in Nat
      /\ Ms(busy) <= TurnMs /\ busy' \in 0 .. MaxBusy
  <2>1. Ms(0) = 0 /\ Ms(busy) \in Nat /\ Ms(busy) <= TurnMs
    BY <1>1, MsIs, TardyIs
  <2> QED
    BY <2>1, <1>2, ClockSizes
<1>4. RunInv'
  BY <1>1, <1>2, NoTimer DEF RunInv
<1>5. Ms(wait') = 0 /\ wait' = 0
  <2>1. wait' = 0
    BY <1>1, <1>2
  <2> QED
    BY <2>1, <1>3, Zenon
<1>6. SleepInv'
  BY <1>3, <1>5 DEF SleepInv
<1>7. \A i \in 1 .. Len(next_timeout) : EntryOk(next_timeout[i], now, pc', busy', wait', last')
  <2> TAKE i \in 1 .. Len(next_timeout)
  <2> DEFINE e == next_timeout[i]
  <2>1. e \in SysTimeo /\ EntryOk(e, now, pc, busy, wait, last)
    BY EntriesAre
  <2>2. Tardy(e.h, pc, busy) <= Tardy(e.h, pc', busy')
    <3>1. /\ Tardy(e.h, pc, busy) = (IF e.h = Tcp THEN LongestMs ELSE 0) + 0 + Ms(busy)
          /\ Tardy(e.h, pc', busy') = (IF e.h = Tcp THEN LongestMs ELSE 0) + TurnMs + Ms(0)
      BY <1>1, <1>2 DEF Tardy
    <3> HIDE DEF e
    <3> QED
      BY <3>1, <1>3
  <2>3. wait \in Nat /\ wait' \in {wait, 0} /\ last' = last
    BY <1>1, <1>2
  <2> HIDE DEF e
  <2>4. EntryOk(e, now, pc', busy', wait', last)
    BY <2>1, <2>2, <2>3, <1>1, <1>3, EntryKept
  <2> QED
    BY <2>3, <2>4 DEF e
<1>8. CASE ~tcpActive /\ tcpPcbs'
  <2>1. tcpActive' = TRUE /\ next_timeout' = Timeout(next_timeout, Tcp)
    BY <1>8 DEF HandleMessage
  <2> DEFINE t == (now + Interval[Tcp]) % ClockRange
  <2>2. t \in Clock /\ next_timeout' = Insert(next_timeout, Tcp, t)
    BY <2>1, <1>1, TimeoutIs, NoTimer
  <2>3. EntryOk([h |-> Tcp, time |-> t], now, pc', busy', wait', last')
    <3>1. wait' \in Nat /\ Ms(wait') <= LongestMs
      BY <1>3, <1>5
    <3> QED
      BY <3>1, <1>1, <1>3, NewTcp
  <2>4. Tcp \notin Armed /\ Armed' = Armed \cup {Tcp} /\ Tcp \in Timers
    BY <2>1, <1>1, <1>2, <1>8, NoTimer DEF Armed
  <2> HIDE DEF t
  <2>5. LET r == Insert(next_timeout, Tcp, t)
        IN /\ r \in Seq(SysTimeo) /\ InOrder(r, now) /\ HandlersIn(r) = Armed \cup {Tcp}
           /\ \A i \in 1 .. Len(r) : EntryOk(r[i], now, pc', busy', wait', last')
    BY <2>2, <2>3, <2>4, <1>3, <1>7, Arm
  <2> QED
    BY <2>1, <2>2, <2>4, <2>5, <1>2, <1>3, <1>4, <1>5, <1>6 DEF TimeoutsInv
<1>9. CASE ~(~tcpActive /\ tcpPcbs')
  <2>1. UNCHANGED <<tcpActive, next_timeout>>
    BY <1>9 DEF HandleMessage
  <2>2. HandlersIn(next_timeout') = Armed' /\ InOrder(next_timeout', now')
    BY <2>1, <1>1, <1>2 DEF Armed
  <2> QED
    BY <2>1, <2>2, <1>2, <1>3, <1>4, <1>5, <1>6, <1>7 DEF TimeoutsInv
<1> QED
  BY <1>8, <1>9

LEMMA OtherTaskStep ==
  ASSUME TimeoutsInv, OtherTask
  PROVE  TimeoutsInv'
<1>1. /\ now \in Clock /\ wait \in Nat /\ busy \in 0 .. MaxBusy /\ pc = "fetch" /\ running = ""
      /\ next_timeout \in Seq(SysTimeo) /\ InOrder(next_timeout, now)
      /\ HandlersIn(next_timeout) = Armed /\ tcpActive \in BOOLEAN /\ tcpPcbs \in BOOLEAN
      /\ Ms(wait) <= LongestMs
  BY DEF TimeoutsInv, RunInv, SleepInv, OtherTask
<1>2. UNCHANGED <<now, due, running, snap, pc, wait, busy, last>> /\ tcpPcbs' \in BOOLEAN
  BY <1>1 DEF OtherTask
<1>3. RunInv'
  BY <1>1, <1>2, NoTimer DEF RunInv
<1>4. SleepInv'
  BY <1>1, <1>2 DEF SleepInv
<1>5. \A i \in 1 .. Len(next_timeout) : EntryOk(next_timeout[i], now, pc, busy, wait, last)
  BY EntriesAre
<1>6. CASE ~tcpActive /\ tcpPcbs'
  <2>1. tcpActive' = TRUE /\ next_timeout' = Timeout(next_timeout, Tcp)
    BY <1>6 DEF OtherTask
  <2> DEFINE t == (now + Interval[Tcp]) % ClockRange
  <2>2. t \in Clock /\ next_timeout' = Insert(next_timeout, Tcp, t)
    BY <2>1, <1>1, TimeoutIs, NoTimer
  <2>3. EntryOk([h |-> Tcp, time |-> t], now, pc, busy, wait, last)
    BY <1>1, NewTcp
  <2>4. Tcp \notin Armed /\ Armed' = Armed \cup {Tcp} /\ Tcp \in Timers
    BY <2>1, <1>1, <1>2, <1>6, NoTimer DEF Armed
  <2> HIDE DEF t
  <2>5. LET r == Insert(next_timeout, Tcp, t)
        IN /\ r \in Seq(SysTimeo) /\ InOrder(r, now) /\ HandlersIn(r) = Armed \cup {Tcp}
           /\ \A i \in 1 .. Len(r) : EntryOk(r[i], now, pc, busy, wait, last)
    BY <2>2, <2>3, <2>4, <1>1, <1>5, Arm
  <2> QED
    BY <2>1, <2>2, <2>4, <2>5, <1>2, <1>3, <1>4 DEF TimeoutsInv
<1>7. CASE ~(~tcpActive /\ tcpPcbs')
  <2>1. UNCHANGED <<tcpActive, next_timeout>>
    BY <1>7 DEF OtherTask
  <2>2. HandlersIn(next_timeout') = Armed' /\ InOrder(next_timeout', now')
    BY <2>1, <1>1, <1>2 DEF Armed
  <2> QED
    BY <2>1, <2>2, <1>2, <1>3, <1>4, <1>5 DEF TimeoutsInv
<1> QED
  BY <1>6, <1>7

\* A timer that is due is not later than the snapshot.
LEMMA ExpiredIs ==
  ASSUME TimeoutsInv, CheckExpired
  PROVE  LET e == Head(next_timeout)
         IN /\ e \in SysTimeo /\ e.h \in Armed /\ e.h \in Timers /\ e.time \in Clock
            /\ EntryOk(e, now, pc, busy, wait, last)
            /\ Lead(e.time, now) \in Int /\ Lead(e.time, now) <= 0
<1> DEFINE e == Head(next_timeout)
           s == Lead(snap, now)
           x == Lead(e.time, now)
<1>1. /\ now \in Clock /\ snap \in Clock /\ next_timeout \in Seq(SysTimeo)
      /\ InOrder(next_timeout, now) /\ busy \in 0 .. MaxBusy /\ next_timeout # << >>
      /\ -Ms(busy) <= s /\ s <= 0
  BY DEF TimeoutsInv, RunInv, CheckExpired
<1>2. 1 \in 1 .. Len(next_timeout) /\ e = next_timeout[1]
  BY <1>1, TailIs
<1>3. /\ e \in SysTimeo /\ e.h \in Armed /\ e.h \in Timers /\ e.time \in Clock
      /\ EntryOk(e, now, pc, busy, wait, last) /\ x \in Int /\ x \in Leads
  BY <1>2, EntriesAre
<1>4. s \in Int /\ Ms(busy) \in Nat /\ Ms(busy) <= TurnMs
  BY <1>1, LeadIs, TardyIs
<1>5. ~TimeLessThan(snap, e.time)
  BY DEF CheckExpired
<1>6. ~(Lead(snap, e.time) < 0)
  BY <1>1, <1>3, <1>5, LessIs
<1>7. -HalfRange <= s - x /\ s - x < HalfRange
  <2>1. -(LongestMs + 2 * TurnMs) <= x /\ x <= LongestMs
    BY <1>3 DEF Leads
  <2>2. -Ms(busy) <= s /\ s <= 0
    BY <1>1
  <2> HIDE DEF x, s
  <2> QED
    BY <2>1, <2>2, <1>3, <1>4, ClockSizes
<1>8. Lead(snap, e.time) = s - x
  BY <1>1, <1>3, <1>7, LeadFrom
<1>9. x <= 0
  <2>1. s <= 0
    BY <1>1
  <2> HIDE DEF s, x, e
  <2> QED
    BY <2>1, <1>3, <1>4, <1>6, <1>8
<1> QED
  BY <1>3, <1>9

LEMMA CheckExpiredStep ==
  ASSUME TimeoutsInv, CheckExpired
  PROVE  TimeoutsInv'
<1> DEFINE e == Head(next_timeout)
           x == Lead(e.time, now)
<1>1. /\ now \in Clock /\ next_timeout \in Seq(SysTimeo) /\ InOrder(next_timeout, now)
      /\ HandlersIn(next_timeout) = Armed /\ next_timeout # << >>
      /\ busy \in 0 .. MaxBusy /\ wait = 0 /\ pc = "check" /\ running = ""
      /\ -Ms(busy) <= Lead(snap, now) /\ Lead(snap, now) <= 0
      /\ last \in [Cyclic -> Clock] /\ tcpActive \in BOOLEAN
  BY DEF TimeoutsInv, RunInv, SleepInv, CheckExpired
<1>2. /\ UNCHANGED <<now, snap, wait, busy, tcpActive, tcpPcbs>>
      /\ due' = e.time /\ running' = e.h /\ next_timeout' = Tail(next_timeout) /\ pc' = "run"
      /\ last' = IF e.h \in Cyclic THEN [last EXCEPT ![e.h] = e.time] ELSE last
  BY DEF CheckExpired
<1>3. /\ e \in SysTimeo /\ e.h \in Armed /\ e.h \in Timers /\ e.time \in Clock
      /\ EntryOk(e, now, pc, busy, wait, last) /\ x \in Int /\ x <= 0
  BY ExpiredIs
<1>4. /\ Tail(next_timeout) \in Seq(SysTimeo) /\ InOrder(Tail(next_timeout), now)
      /\ HandlersIn(Tail(next_timeout)) = HandlersIn(next_timeout) \ {e.h}
      /\ \A i \in 1 .. Len(Tail(next_timeout)) :
           /\ \E j \in 1 .. Len(next_timeout) : Tail(next_timeout)[i] = next_timeout[j]
           /\ Tail(next_timeout)[i].h # e.h
  BY <1>1, TailIs
<1>5. HandlersIn(next_timeout') = Armed'
  <2>1. Armed' = Armed \ {e.h}
    BY <1>1, <1>2, NoTimer DEF Armed
  <2> QED
    BY <2>1, <1>1, <1>2, <1>4
<1>6. /\ last' \in [Cyclic -> Clock] /\ (e.h \in Cyclic => last'[e.h] = e.time)
      /\ \A h \in Cyclic : h # e.h => last'[h] = last[h]
  <2> HIDE DEF e
  <2> QED
    BY <1>1, <1>2, <1>3
<1>7. \A h : Tardy(h, pc', busy') = Tardy(h, pc, busy)
  BY <1>1, <1>2 DEF Tardy
<1>8. RunInv'
  <2>1. running' # "" /\ (running' = Tcp => tcpActive')
    <3>1. e.h # ""
      BY <1>3, NoTimer
    <3>2. e.h = Tcp => tcpActive
      BY <1>3, NoTimer DEF Armed
    <3> QED
      BY <3>1, <3>2, <1>2
  <2>2. -Ms(busy') <= Lead(snap', now') /\ Lead(snap', now') <= 0
    BY <1>1, <1>2, Zenon
  <2>3. -Tardy(e.h, pc, busy) <= x /\ x <= 0
    BY <1>3 DEF EntryOk
  <2>4. -Tardy(running', pc', busy') <= Lead(due', now') /\ Lead(due', now') <= 0
    BY <2>3, <1>2, <1>7, Zenon
  <2>5. running' \in Cyclic => last'[running'] = due'
    BY <1>2, <1>6
  <2> QED
    BY <2>1, <2>2, <2>4, <2>5, <1>2 DEF RunInv
<1>9. SleepInv'
  <2>1. wait' = 0
    BY <1>1, <1>2
  <2>2. Ms(wait') = 0
    BY <2>1, MsIs, Zenon
  <2> QED
    BY <2>1, <2>2, ClockSizes DEF SleepInv
<1>10. ASSUME NEW i \in 1 .. Len(Tail(next_timeout))
       PROVE  EntryOk(Tail(next_timeout)[i], now, pc', busy', wait', last')
  <2>1. PICK j \in 1 .. Len(next_timeout) : Tail(next_timeout)[i] = next_timeout[j]
    BY <1>4
  <2> DEFINE f == next_timeout[j]
  <2>2. EntryOk(f, now, pc, busy, wait, last)
    BY EntriesAre
  <2>3. f.h # e.h
    BY <2>1, <1>4
  <2>4. f.h \in Cyclic => last'[f.h] = last[f.h]
    BY <2>3, <1>6
  <2>5. wait' = wait /\ Tardy(f.h, pc', busy') = Tardy(f.h, pc, busy)
    BY <1>2, <1>7
  <2> HIDE DEF f
  <2>6. EntryOk(f, now, pc', busy', wait', last')
    BY <2>2, <2>4, <2>5 DEF EntryOk
  <2> QED
    BY <2>1, <2>6 DEF f
<1>11. InOrder(next_timeout', now') /\ next_timeout' \in Seq(SysTimeo)
  BY <1>2, <1>4
<1>12. /\ now' \in Clock /\ due' \in Clock /\ snap' \in Clock
       /\ running' \in Timers \cup {""} /\ pc' = "run"
       /\ wait' \in Nat /\ busy' \in 0 .. MaxBusy
       /\ tcpActive' \in BOOLEAN /\ tcpPcbs' \in BOOLEAN
  BY <1>1, <1>2, <1>3 DEF TimeoutsInv
<1>13. \A i \in 1 .. Len(next_timeout') :
         EntryOk(next_timeout'[i], now', pc', busy', wait', last')
  BY <1>2, <1>10
<1> QED
  BY <1>5, <1>6, <1>8, <1>9, <1>11, <1>12, <1>13 DEF TimeoutsInv

\* A cyclic timer is put back for its next beat, or for an interval from now
\* if that is past.
LEMMA RearmIs ==
  ASSUME TimeoutsInv, pc = "run", running \in Cyclic, RearmCyclic
  PROVE  \E t \in Clock :
           /\ next_timeout' = Insert(next_timeout, running, t)
           /\ Lead(t, now) \in Int /\ 0 <= Lead(t, now) /\ Lead(t, now) <= LongestMs
           /\ (t - due) % ClockRange \in Interval[running] .. Interval[running] + 2 * TurnMs
<1> DEFINE I == Interval[running]
           d == Lead(due, now)
           t == (due + I) % ClockRange
           u == (now + I) % ClockRange
<1>1. /\ now \in Clock /\ due \in Clock /\ busy \in 0 .. MaxBusy /\ running \in Timers
      /\ -Tardy(running, pc, busy) <= d /\ d <= 0
  BY NoTimer DEF TimeoutsInv, RunInv
<1>2. /\ I \in Nat /\ I <= LongestMs /\ LongestMs \in Nat /\ TurnMs \in Nat /\ HalfRange \in Nat
      /\ 2 * LongestMs + 2 * TurnMs < HalfRange /\ I \in 0 .. ClockRange
  BY <1>1, ClockSizes
<1>3. d \in Int /\ -(2 * TurnMs) <= d /\ d <= 0
  <2>1. d \in Int
    BY <1>1, LeadIs
  <2>2. Tardy(running, pc, busy) \in Nat /\ Tardy(running, pc, busy) <= 2 * TurnMs
    BY <1>1, TardyIs, NoTimer
  <2>3. -Tardy(running, pc, busy) <= d /\ d <= 0
    BY <1>1
  <2> HIDE DEF d
  <2> QED
    BY <2>1, <2>2, <2>3, <1>2
<1>4. t \in Clock /\ u \in Clock
  BY <1>1, <1>2, SumIs
<1>5. Lead(t, now) = d + I
  <2>1. d + I < HalfRange
    <3> HIDE DEF d, I
    <3> QED BY <1>2, <1>3
  <2> QED
    BY <2>1, <1>1, <1>2, LeadPlus
<1>6. Lead(u, now) = I /\ Timeout(next_timeout, running) = Insert(next_timeout, running, u)
  BY <1>1, TimeoutIs
<1>7. next_timeout' = IF TimeLessThan(t, now) THEN Timeout(next_timeout, running)
                      ELSE Insert(next_timeout, running, t)
  BY DEF RearmCyclic
<1> HIDE DEF I, d
<1>8. CASE TimeLessThan(t, now)
  <2>1. next_timeout' = Insert(next_timeout, running, u)
    BY <1>6, <1>7, <1>8
  <2>2. Lead(u, now) \in Int /\ 0 <= Lead(u, now) /\ Lead(u, now) <= LongestMs
    <3> HIDE DEF u
    <3> QED BY <1>2, <1>6
  <2>3. (u - due) % ClockRange = I - d
    <3>1. Lead(due, now) = d
      BY DEF d
    <3>2. Lead(u, now) - Lead(due, now) = I - d /\ 0 <= I - d /\ I - d < HalfRange
      <4> HIDE DEF u
      <4> QED BY <3>1, <1>2, <1>3, <1>6
    <3> HIDE DEF u
    <3> QED
      BY <3>2, <1>1, <1>4, DiffLead
  <2>4. I - d \in I .. I + 2 * TurnMs
    BY <1>2, <1>3
  <2>5. (u - due) % ClockRange \in Interval[running] .. Interval[running] + 2 * TurnMs
    BY <2>3, <2>4 DEF I
  <2> HIDE DEF u
  <2> QED
    BY <2>1, <2>2, <2>5, <1>4
<1>9. CASE ~TimeLessThan(t, now)
  <2>1. next_timeout' = Insert(next_timeout, running, t)
    BY <1>7, <1>9
  <2>2. ~(Lead(t, now) < 0)
    BY <1>1, <1>4, <1>9, LessIs
  <2> HIDE DEF t
  <2>3. Lead(t, now) \in Int /\ 0 <= Lead(t, now) /\ Lead(t, now) <= LongestMs
    BY <2>2, <1>2, <1>3, <1>5
  <2>4. (t - due) % ClockRange = I
    <3>1. Lead(due, now) = d
      BY DEF d
    <3>2. Lead(t, now) - Lead(due, now) = I /\ 0 <= I /\ I < HalfRange
      BY <3>1, <1>2, <1>3, <1>5
    <3> QED
      BY <3>2, <1>1, <1>4, DiffLead
  <2>5. I \in I .. I + 2 * TurnMs
    BY <1>2
  <2>6. (t - due) % ClockRange \in Interval[running] .. Interval[running] + 2 * TurnMs
    BY <2>4, <2>5 DEF I
  <2> QED
    BY <2>1, <2>3, <2>6, <1>4
<1> QED
  BY <1>8, <1>9

LEMMA HandlerEndsStep ==
  ASSUME TimeoutsInv, HandlerEnds
  PROVE  TimeoutsInv'
<1>1. /\ now \in Clock /\ due \in Clock /\ snap \in Clock /\ next_timeout \in Seq(SysTimeo)
      /\ InOrder(next_timeout, now) /\ HandlersIn(next_timeout) = Armed
      /\ busy \in 0 .. MaxBusy /\ wait = 0 /\ pc = "run" /\ running \in Timers
      /\ -Ms(busy) <= Lead(snap, now) /\ Lead(snap, now) <= 0
      /\ last \in [Cyclic -> Clock] /\ tcpActive \in BOOLEAN /\ tcpPcbs \in BOOLEAN
      /\ (running = Tcp => tcpActive) /\ (running \in Cyclic => last[running] = due)
  BY DEF TimeoutsInv, RunInv, SleepInv, HandlerEnds
<1>2. /\ UNCHANGED <<now, due, snap, wait, busy, last>> /\ running' = "" /\ pc' = "check"
      /\ \/ running \in Cyclic /\ RearmCyclic /\ UNCHANGED <<tcpActive, tcpPcbs>>
         \/ running = Tcp /\ RearmTcp
  BY DEF HandlerEnds
<1>3. /\ Ms(0) = 0 /\ LongestMs \in Nat /\ TurnMs \in Nat
  BY MsIs, ClockSizes
<1>4. RunInv'
  <2>1. -Ms(busy') <= Lead(snap', now') /\ Lead(snap', now') <= 0
    BY <1>1, <1>2, Zenon
  <2> QED
    BY <2>1, <1>2, NoTimer DEF RunInv
<1>5. Ms(wait') = 0 /\ wait' = 0
  <2>1. wait' = 0
    BY <1>1, <1>2
  <2> QED
    BY <2>1, <1>3, Zenon
<1>6. SleepInv'
  BY <1>3, <1>5 DEF SleepInv
<1>7. \A i \in 1 .. Len(next_timeout) : EntryOk(next_timeout[i], now, pc', busy', wait', last')
  <2> TAKE i \in 1 .. Len(next_timeout)
  <2>1. EntryOk(next_timeout[i], now, pc, busy, wait, last)
    BY EntriesAre
  <2>2. \A h : Tardy(h, pc', busy') = Tardy(h, pc, busy)
    BY <1>1, <1>2 DEF Tardy
  <2>3. wait' = wait /\ last' = last
    BY <1>2
  <2> QED
    BY <2>1, <2>2, <2>3 DEF EntryOk
<1>8. /\ now' \in Clock /\ due' \in Clock /\ snap' \in Clock
      /\ running' \in Timers \cup {""} /\ wait' \in Nat /\ busy' \in 0 .. MaxBusy
      /\ last' \in [Cyclic -> Clock] /\ tcpActive' \in BOOLEAN /\ tcpPcbs' \in BOOLEAN
  <2>1. tcpActive' \in BOOLEAN /\ tcpPcbs' \in BOOLEAN
    BY <1>1, <1>2 DEF RearmTcp
  <2> QED
    BY <2>1, <1>1, <1>2
<1>9. running \notin Armed
  BY DEF Armed
<1>10. CASE running \in Cyclic
  <2>1. RearmCyclic /\ UNCHANGED <<tcpActive, tcpPcbs>>
    BY <1>2, <1>10, NoTimer
  <2>2. PICK t \in Clock :
           /\ next_timeout' = Insert(next_timeout, running, t)
           /\ Lead(t, now) \in Int /\ 0 <= Lead(t, now) /\ Lead(t, now) <= LongestMs
           /\ (t - due) % ClockRange \in Interval[running] .. Interval[running] + 2 * TurnMs
    BY <2>1, <1>1, <1>10, RearmIs
  <2> DEFINE e == [h |-> running, time |-> t]
  <2>3. EntryOk(e, now, pc', busy', wait', last')
    <3>1. e.h = running /\ e.time = t
      OBVIOUS
    <3> HIDE DEF e
    <3>2. Tardy(e.h, pc', busy') \in Nat
      BY <1>8, TardyIs
    <3>3. -Tardy(e.h, pc', busy') <= Lead(t, now)
      BY <2>2, <3>2
    <3>4. (t - last'[running]) % ClockRange
            \in Interval[running] .. Interval[running] + 2 * TurnMs
      <4>1. last'[running] = due
        BY <1>1, <1>2, <1>10
      <4> QED
        BY <4>1, <2>2
    <3>5. ~(wait' > 0)
      BY <1>5
    <3> QED
      BY <2>2, <3>1, <3>3, <3>4, <3>5 DEF EntryOk
  <2>4. Armed' = Armed \cup {running}
    BY <2>1, <1>2, <1>10, NoTimer DEF Armed
  <2>5. LET r == Insert(next_timeout, running, t)
        IN /\ r \in Seq(SysTimeo) /\ InOrder(r, now) /\ HandlersIn(r) = Armed \cup {running}
           /\ \A i \in 1 .. Len(r) : EntryOk(r[i], now, pc', busy', wait', last')
    BY <2>3, <1>1, <1>7, <1>8, <1>9, Arm
  <2> QED
    BY <2>2, <2>4, <2>5, <1>2, <1>4, <1>6, <1>8 DEF TimeoutsInv
<1>11. CASE running = Tcp
  <2>1. /\ tcpActive' = tcpPcbs'
        /\ next_timeout' = IF tcpPcbs' THEN Timeout(next_timeout, Tcp) ELSE next_timeout
    BY <1>2, <1>11, NoTimer DEF RearmTcp
  <2>2. CASE tcpPcbs'
    <3> DEFINE t == (now + Interval[Tcp]) % ClockRange
    <3>1. t \in Clock /\ next_timeout' = Insert(next_timeout, Tcp, t)
      BY <2>1, <2>2, <1>1, TimeoutIs, NoTimer
    <3>2. EntryOk([h |-> Tcp, time |-> t], now, pc', busy', wait', last')
      <4>1. wait' \in Nat /\ Ms(wait') <= LongestMs
        BY <1>3, <1>5
      <4> QED
        BY <4>1, <1>1, <1>8, NewTcp
    <3>3. Tcp \notin Armed /\ Armed' = Armed \cup {Tcp} /\ Tcp \in Timers
      BY <2>1, <2>2, <1>1, <1>2, <1>9, <1>11, NoTimer DEF Armed
    <3> HIDE DEF t
    <3>4. LET r == Insert(next_timeout, Tcp, t)
          IN /\ r \in Seq(SysTimeo) /\ InOrder(r, now) /\ HandlersIn(r) = Armed \cup {Tcp}
             /\ \A i \in 1 .. Len(r) : EntryOk(r[i], now, pc', busy', wait', last')
      BY <3>1, <3>2, <3>3, <1>7, <1>8, Arm
    <3> QED
      BY <3>1, <3>3, <3>4, <1>2, <1>4, <1>6, <1>8 DEF TimeoutsInv
  <2>3. CASE ~tcpPcbs'
    <3>1. next_timeout' = next_timeout /\ tcpActive' = FALSE
      BY <2>1, <2>3, <1>8
    <3>2. Armed' = Armed
      BY <3>1, <1>1, <1>2, <1>11, NoTimer DEF Armed
    <3> QED
      BY <3>1, <3>2, <1>1, <1>2, <1>4, <1>6, <1>7, <1>8 DEF TimeoutsInv
  <2> QED
    BY <2>2, <2>3
<1> QED
  BY <1>2, <1>10, <1>11

\* The tick brings every time one tick nearer; it takes from the sleep, or adds
\* to the turn.
LEMMA TickStep ==
  ASSUME TimeoutsInv, Tick
  PROVE  TimeoutsInv'
<1>1. /\ now \in Clock /\ due \in Clock /\ snap \in Clock /\ next_timeout \in Seq(SysTimeo)
      /\ InOrder(next_timeout, now) /\ HandlersIn(next_timeout) = Armed
      /\ busy \in 0 .. MaxBusy /\ wait \in Nat /\ Ms(wait) <= LongestMs
      /\ (pc # "fetch" => wait = 0)
  BY DEF TimeoutsInv, SleepInv
<1>2. /\ now' = (now + TickMs) % ClockRange
      /\ UNCHANGED <<next_timeout, due, running, snap, pc, tcpActive, tcpPcbs, last>>
  BY DEF Tick
<1>3. /\ LongestMs \in Nat /\ TurnMs \in Nat /\ HalfRange \in Nat /\ TickMs \in Nat
      /\ 2 * LongestMs + 2 * TurnMs < HalfRange /\ ClockRange = 2 * HalfRange
      /\ MaxBusy \in Nat
  BY ClockSizes
<1>4. Ms(busy) \in Nat /\ Ms(busy) <= TurnMs /\ Ms(wait) \in Nat
  BY <1>1, TardyIs, MsIs
\* What either kind of tick does to the bounds.
<1>5. /\ busy' \in 0 .. MaxBusy /\ wait' \in Nat /\ Ms(wait') \in Nat /\ Ms(wait') <= LongestMs
      /\ (pc # "fetch" => wait' = 0) /\ Ms(busy') \in Nat /\ Ms(busy') <= TurnMs
      /\ \/ /\ pc = "fetch" /\ wait > 0 /\ busy' = busy /\ Ms(busy') = Ms(busy)
            /\ Ms(wait) = Ms(wait') + TickMs
         \/ wait' = 0 /\ wait = 0 /\ Ms(busy') = Ms(busy) + TickMs
  <2>1. CASE pc = "fetch" /\ wait > 0
    <3>1. wait' = wait - 1 /\ busy' = busy
      BY <2>1 DEF Tick
    <3>2. wait' \in Nat /\ wait = wait' + 1
      BY <3>1, <2>1, <1>1
    <3>3. Ms(wait') \in Nat /\ Ms(wait' + 1) = Ms(wait') + TickMs
      BY <3>2, MsIs
    <3>4. Ms(wait) = Ms(wait') + TickMs
      BY <3>2, <3>3, Zenon
    <3>5. Ms(busy') = Ms(busy)
      BY <3>1
    <3>6. Ms(wait') <= LongestMs
      BY <3>3, <3>4, <1>1, <1>3
    <3> QED
      BY <2>1, <3>1, <3>2, <3>3, <3>4, <3>5, <3>6, <1>1, <1>4
  <2>2. CASE ~(pc = "fetch" /\ wait > 0)
    <3>1. busy < MaxBusy /\ busy' = busy + 1 /\ wait' = wait
      BY <2>2 DEF Tick
    <3>2. wait = 0
      BY <2>2, <1>1
    <3>3. busy \in Nat /\ busy' \in 0 .. MaxBusy
      BY <3>1, <1>1, <1>3
    <3>4. Ms(busy + 1) = Ms(busy) + TickMs
      BY <3>3, MsIs
    <3>5. Ms(busy') = Ms(busy) + TickMs
      BY <3>1, <3>4, Zenon
    <3>6. Ms(busy') \in Nat /\ Ms(busy') <= TurnMs
      BY <3>3, TardyIs
    <3>7. Ms(wait') = Ms(wait)
      BY <3>1
    <3> QED
      BY <3>1, <3>2, <3>3, <3>5, <3>6, <3>7, <1>1, <1>4
  <2> QED
    BY <2>1, <2>2
<1>6. TickMs <= LongestMs \/ TickMs <= TurnMs
  BY <1>3, <1>4, <1>5, <1>1
<1>7. now' \in Clock /\ TickMs \in 0 .. ClockRange
  <2>1. TickMs \in 0 .. ClockRange
    BY <1>3, <1>6
  <2> QED
    BY <2>1, <1>1, <1>2, SumIs
<1>8. ASSUME NEW t \in Clock, -HalfRange <= Lead(t, now) - TickMs
      PROVE  Lead(t, now') = Lead(t, now) - TickMs
  BY <1>1, <1>2, <1>7, <1>8, LeadLater
<1>9. ASSUME NEW i \in 1 .. Len(next_timeout)
      PROVE  /\ Lead(next_timeout[i].time, now') = Lead(next_timeout[i].time, now) - TickMs
             /\ EntryOk(next_timeout[i], now', pc, busy', wait', last)
  <2> DEFINE e == next_timeout[i]
             x == Lead(e.time, now)
             y == Lead(e.time, now')
             k == IF e.h = Tcp THEN LongestMs ELSE 0
             r == IF pc \in {"fetch", "handle"} THEN 0 ELSE TurnMs
  <2>1. e.time \in Clock /\ EntryOk(e, now, pc, busy, wait, last) /\ x \in Int
    BY EntriesAre
  <2>2. k \in Nat /\ k <= LongestMs /\ r \in Nat /\ r <= TurnMs
    BY <1>3
  <2>3. Tardy(e.h, pc, busy) = k + r + Ms(busy) /\ Tardy(e.h, pc, busy') = k + r + Ms(busy')
    BY DEF Tardy
  <2>4. -Tardy(e.h, pc, busy) <= x /\ x <= LongestMs /\ (wait > 0 => Ms(wait) - k <= x)
    BY <2>1 DEF EntryOk
  <2>5. -HalfRange <= x - TickMs => y = x - TickMs
    BY <2>1, <1>8
  <2> HIDE DEF x, k, r
  <2>6. -(k + r + Ms(busy')) <= x - TickMs /\ (wait' > 0 => Ms(wait') - k <= x - TickMs)
    <3>1. CASE /\ wait > 0 /\ Ms(busy') = Ms(busy) /\ Ms(wait) = Ms(wait') + TickMs
      <4>1. Ms(wait') - k <= x - TickMs
        BY <3>1, <2>1, <2>2, <2>4, <1>3, <1>5
      <4> QED
        BY <4>1, <2>1, <2>2, <1>3, <1>5
    <3>2. CASE wait' = 0 /\ Ms(busy') = Ms(busy) + TickMs
      <4>1. -(k + r + Ms(busy)) <= x
        BY <2>3, <2>4
      <4>2. -(k + r + Ms(busy')) <= x - TickMs
        BY <3>2, <4>1, <2>1, <2>2, <1>3, <1>4
      <4>3. ~(wait' > 0)
        BY <3>2
      <4> QED
        BY <4>2, <4>3
    <3> QED
      BY <3>1, <3>2, <1>5
  <2>7. -HalfRange <= x - TickMs
    BY <2>1, <2>2, <2>6, <1>3, <1>5
  <2>8. y = x - TickMs
    BY <2>5, <2>7
  <2> HIDE DEF y
  <2>9. /\ -Tardy(e.h, pc, busy') <= y /\ y <= LongestMs
        /\ wait' > 0 => Ms(wait') - k <= y
    BY <2>1, <2>3, <2>4, <2>6, <2>8, <1>3
  <2>10. EntryOk(e, now', pc, busy', wait', last)
    BY <2>1, <2>9 DEF EntryOk, y, k
  <2> QED
    BY <2>8, <2>10 DEF x, y
<1>10. InOrder(next_timeout, now')
  <2> SUFFICES ASSUME NEW i \in 1 .. Len(next_timeout), NEW j \in 1 .. Len(next_timeout), i < j
               PROVE  /\ next_timeout[i].h # next_timeout[j].h
                      /\ Lead(next_timeout[i].time, now') <= Lead(next_timeout[j].time, now')
    BY DEF InOrder
  <2>1. /\ next_timeout[i].h # next_timeout[j].h
        /\ Lead(next_timeout[i].time, now) <= Lead(next_timeout[j].time, now)
    BY <1>1 DEF InOrder
  <2>2. Lead(next_timeout[i].time, now) \in Int /\ Lead(next_timeout[j].time, now) \in Int
    BY EntriesAre
  <2>3. /\ Lead(next_timeout[i].time, now') = Lead(next_timeout[i].time, now) - TickMs
        /\ Lead(next_timeout[j].time, now') = Lead(next_timeout[j].time, now) - TickMs
    BY <1>9
  <2> QED
    BY <2>1, <2>2, <2>3, <1>3
<1>11. HandlersIn(next_timeout) = Armed'
  BY <1>1, <1>2 DEF Armed
<1>12. RunInv'
  <2>1. CASE pc \in {"check", "run"}
    <3>1. -Ms(busy) <= Lead(snap, now) /\ Lead(snap, now) <= 0
      BY <2>1 DEF TimeoutsInv, RunInv
    <3>2. Lead(snap, now) \in Int
      BY <1>1, LeadIs
    <3>3. wait' = 0 /\ Ms(busy') = Ms(busy) + TickMs
      BY <2>1, <1>5
    <3>4. -HalfRange <= Lead(snap, now) - TickMs
      BY <3>1, <3>2, <3>3, <1>3, <1>4, <1>5
    <3>5. Lead(snap, now') = Lead(snap, now) - TickMs
      BY <3>4, <1>1, <1>8
    <3>6. -Ms(busy') <= Lead(snap, now') /\ Lead(snap, now') <= 0
      BY <3>1, <3>2, <3>3, <3>5, <1>3, <1>4
    <3>7. ASSUME pc = "run"
          PROVE  -Tardy(running, pc, busy') <= Lead(due, now') /\ Lead(due, now') <= 0
      <4> DEFINE x == Lead(due, now)
                 k == IF running = Tcp THEN LongestMs ELSE 0
      <4>1. -Tardy(running, pc, busy) <= x /\ x <= 0
        BY <3>7 DEF TimeoutsInv, RunInv
      <4>2. x \in Int
        BY <1>1, LeadIs
      <4>3. k \in Nat /\ k <= LongestMs
        BY <1>3
      <4>4. /\ Tardy(running, pc, busy) = k + TurnMs + Ms(busy)
            /\ Tardy(running, pc, busy') = k + TurnMs + Ms(busy')
        BY <3>7 DEF Tardy
      <4>5. -HalfRange <= x - TickMs => Lead(due, now') = x - TickMs
        BY <1>1, <1>8
      <4> HIDE DEF x, k
      <4>6. -Tardy(running, pc, busy') <= x - TickMs /\ x - TickMs <= 0
        BY <3>3, <4>1, <4>2, <4>3, <4>4, <1>3, <1>4
      <4>7. -HalfRange <= x - TickMs
        BY <4>2, <4>3, <4>4, <4>6, <1>3, <1>5
      <4> QED
        BY <4>5, <4>6, <4>7
    <3>8. /\ (running = "" <=> pc # "run") /\ (running = Tcp => tcpActive)
          /\ (pc = "run" /\ running \in Cyclic => last[running] = due)
      BY DEF TimeoutsInv, RunInv
    <3> QED
      BY <3>6, <3>7, <3>8, <1>2 DEF RunInv
  <2>2. CASE pc \notin {"check", "run"}
    BY <2>2, <1>2 DEF TimeoutsInv, RunInv
  <2> QED
    BY <2>1, <2>2
<1>13. SleepInv'
  BY <1>2, <1>5 DEF SleepInv
<1> QED
  BY <1>1, <1>2, <1>5, <1>7, <1>9, <1>10, <1>11, <1>12, <1>13 DEF TimeoutsInv

-----------------------------------------------------------------------------
(* sys_timeouts_init. *)

StartTurn(order, n, f, i) ==
  IF i = 0 THEN << >>
  ELSE Insert(f[i - 1], order[i], (n + Interval[order[i]]) % ClockRange)

LEMMA StartSolved ==
  ASSUME NEW order, NEW at, NEW m \in Nat
  PROVE  \E f : f = [i \in 0 .. m |-> StartTurn(order, at, f, i)]
<1> DEFINE Def(f, i) == StartTurn(order, at, f, i)
           Solved(n) == \E f : f = [i \in 0 .. n |-> Def(f, i)]
           T == {n \in Nat : Solved(n)}
<1>1. Solved(0)
  <2> DEFINE f == [i \in 0 .. 0 |-> << >>]
  <2>1. f = [i \in 0 .. 0 |-> Def(f, i)]
    BY DEF StartTurn
  <2> QED BY <2>1
<1>2. ASSUME NEW n \in Nat, Solved(n) PROVE Solved(n + 1)
  <2> PICK f : f = [i \in 0 .. n |-> Def(f, i)]
    BY <1>2
  <2> DEFINE z == Def(f, n + 1)
             g == [i \in 0 .. n + 1 |-> IF i <= n THEN f[i] ELSE z]
  <2>0. \A i \in 0 .. n : f[i] = Def(f, i)
    OBVIOUS
  <2>1. \A i \in 0 .. n : g[i] = f[i]
    <3> HIDE DEF z
    <3> QED OBVIOUS
  <2>2. g[n + 1] = z
    <3> HIDE DEF z
    <3> QED OBVIOUS
  <2>3. ASSUME NEW i \in 0 .. n + 1 PROVE g[i] = Def(g, i)
    <3> HIDE DEF g
    <3>1. CASE i <= n
      <4>1. i \in 0 .. n /\ (i = 0 \/ i - 1 \in 0 .. n)
        BY <3>1
      <4> QED BY <2>0, <2>1, <4>1 DEF StartTurn
    <3>2. CASE i = n + 1
      <4>1. g[n] = f[n] /\ n + 1 # 0 /\ (n + 1) - 1 = n
        BY <2>1
      <4> QED BY <3>2, <2>2, <4>1 DEF StartTurn
    <3> QED BY <3>1, <3>2
  <2>4. g = [i \in 0 .. n + 1 |-> Def(g, i)]
    BY <2>3
  <2> QED BY <2>4
<1>3. \A n \in Nat : n \in T
  <2>1. 0 \in T /\ \A n \in Nat : n \in T => n + 1 \in T
    <3> HIDE DEF Solved
    <3> QED BY <1>1, <1>2
  <2> HIDE DEF T
  <2> QED BY <2>1, SetInduction
<1>4. Solved(m)
  <2> HIDE DEF Solved
  <2> QED BY <1>3
<1> QED
  BY <1>4

\* The timers of the table are all started, each for its interval.
LEMMA StartedIs ==
  ASSUME NEW order \in SetToSeqs(Cyclic), NEW n \in Clock
  PROVE  LET r == Started(order, n)
         IN /\ r \in Seq(SysTimeo) /\ InOrder(r, n) /\ HandlersIn(r) = Cyclic
            /\ \A i \in 1 .. Len(r) : r[i].time = (n + Interval[r[i].h]) % ClockRange
<1> DEFINE m == Cardinality(Cyclic)
           At(h) == (n + Interval[h]) % ClockRange
           Good(i, r) == /\ r \in Seq(SysTimeo) /\ InOrder(r, n)
                         /\ HandlersIn(r) = {order[j] : j \in 1 .. i}
                         /\ \A k \in 1 .. Len(r) : r[k].time = At(r[k].h)
           c == CHOOSE f : f = [i \in 0 .. m |-> StartTurn(order, n, f, i)]
           T == {i \in Nat : i <= m => Good(i, c[i])}
<1>1. m \in Nat /\ IsFiniteSet(Cyclic)
  BY TimeoutsAssumption, FS_CardinalityType
<1>2. order \in [1 .. m -> Cyclic] /\ \A i, j \in 1 .. m : i # j => order[i] # order[j]
  BY DEF SetToSeqs
<1>3. Len(order) = m
  BY <1>1, <1>2
<1>4. {order[j] : j \in 1 .. m} = Cyclic
  <2>1. order \in Injection(1 .. m, Cyclic)
    BY <1>2 DEF Injection, IsInjective
  <2>2. Cardinality(1 .. m) = IF 1 > m THEN 0 ELSE (m - 1) + 1
    BY <1>1, FS_Interval
  <2>3. Cardinality(1 .. m) = m
    BY <1>1, <2>2
  <2>4. order \in Surjection(1 .. m, Cyclic)
    BY <2>1, <2>3, <1>1, FS_Injection
  <2> QED
    BY <2>4, <1>2 DEF Surjection
<1>5. \A h \in Timers : At(h) \in Clock /\ Lead(At(h), n) \in Leads
  <2> TAKE h \in Timers
  <2>1. /\ Interval[h] \in Nat /\ Interval[h] <= LongestMs /\ Interval[h] < HalfRange
        /\ Interval[h] \in 0 .. ClockRange /\ LongestMs \in Nat /\ TurnMs \in Nat
    BY ClockSizes
  <2>2. At(h) \in Clock
    BY <2>1, SumIs
  <2>3. Lead(n, n) = 0
    BY LeadSelf
  <2>4. Lead(At(h), n) = 0 + Interval[h]
    BY <2>1, <2>3, LeadPlus
  <2> HIDE DEF At
  <2>5. Lead(At(h), n) \in Int /\ -(LongestMs + 2 * TurnMs) <= Lead(At(h), n)
        /\ Lead(At(h), n) <= LongestMs
    BY <2>1, <2>4
  <2> QED
    BY <2>2, <2>5 DEF Leads
<1>6. c = [i \in 0 .. m |-> StartTurn(order, n, c, i)]
  <2>1. \E f : f = [i \in 0 .. m |-> StartTurn(order, n, f, i)]
    BY <1>1, StartSolved
  <2> QED BY <2>1
<1>7. Started(order, n) = c[m]
  BY <1>3 DEF Started, StartTurn
<1> HIDE DEF c
<1>8. \A i \in 0 .. m : c[i] = StartTurn(order, n, c, i)
  BY <1>6
<1>9. 0 \in T
  <2>1. c[0] = << >>
    BY <1>1, <1>8 DEF StartTurn
  <2>2. << >> \in Seq(SysTimeo) /\ Len(<< >>) = 0 /\ 1 .. 0 = {}
    OBVIOUS
  <2>3. Good(0, << >>)
    BY <2>2 DEF InOrder, HandlersIn
  <2> HIDE DEF Good
  <2> QED BY <2>1, <2>3
<1>10. ASSUME NEW i \in Nat, i \in T PROVE i + 1 \in T
  <2> SUFFICES ASSUME i + 1 <= m PROVE Good(i + 1, c[i + 1])
    OBVIOUS
  <2> DEFINE r == c[i]
             h == order[i + 1]
  <2>1. i + 1 \in 1 .. m /\ i + 1 \in 0 .. m /\ i + 1 # 0 /\ (i + 1) - 1 = i /\ i <= m
    BY <1>1
  <2>2. c[i + 1] = Insert(r, h, At(h))
    BY <1>8, <2>1 DEF StartTurn
  <2>3. Good(i, r)
    BY <1>10, <2>1
  <2>4. h \in Cyclic /\ h \in Timers
    BY <1>2, <2>1, NoTimer
  <2>5. h \notin {order[j] : j \in 1 .. i}
    BY <1>1, <1>2, <2>1
  <2>6. {order[j] : j \in 1 .. i + 1} = {order[j] : j \in 1 .. i} \cup {h}
    <3>1. 1 .. i + 1 = (1 .. i) \cup {i + 1}
      OBVIOUS
    <3> QED BY <3>1
  <2>7. \A k \in 1 .. Len(r) : Lead(r[k].time, n) \in Leads
    <3>1. \A k \in 1 .. Len(r) : r[k] \in SysTimeo
      BY <2>3
    <3>2. \A k \in 1 .. Len(r) : r[k].h \in Timers
      BY <3>1 DEF SysTimeo
    <3> HIDE DEF At
    <3> QED
      BY <2>3, <3>2, <1>5
  <2>8. At(h) \in Clock /\ Lead(At(h), n) \in Leads
    BY <2>4, <1>5
  <2> DEFINE q == Insert(r, h, At(h))
             a == At(h)
  <2>9. /\ q \in Seq(SysTimeo) /\ InOrder(q, n)
        /\ HandlersIn(q) = HandlersIn(r) \cup {h}
        /\ \A k \in 1 .. Len(q) :
             q[k] = [h |-> h, time |-> a] \/ \E j \in 1 .. Len(r) : q[k] = r[j]
    <3> HIDE DEF r, h
    <3>1. h \notin HandlersIn(r)
      BY <2>3, <2>5
    <3>2. a = At(h)
      OBVIOUS
    <3> HIDE DEF a, At
    <3> QED
      BY <2>3, <2>4, <2>7, <2>8, <3>1, <3>2, InsertIs
  <2>10. \A k \in 1 .. Len(q) : q[k].time = At(q[k].h)
    <3> TAKE k \in 1 .. Len(q)
    <3>1. CASE q[k] = [h |-> h, time |-> a]
      <4>1. q[k].h = h /\ q[k].time = a
        <5> HIDE DEF q, h, a
        <5> QED BY <3>1
      <4> QED BY <4>1
    <3>2. CASE \E j \in 1 .. Len(r) : q[k] = r[j]
      <4> HIDE DEF q, r, At
      <4> QED BY <3>2, <2>3
    <3> QED
      BY <3>1, <3>2, <2>9
  <2>11. Good(i + 1, q)
    <3> HIDE DEF q, r, h, At
    <3> QED BY <2>3, <2>6, <2>9, <2>10
  <2> QED
    BY <2>2, <2>11
<1>11. \A i \in Nat : i \in T
  <2> HIDE DEF T
  <2> QED BY <1>9, <1>10, SetInduction
<1>12. Good(m, c[m])
  <2> HIDE DEF Good, m
  <2>1. m <= m
    BY <1>1
  <2> QED BY <2>1, <1>1, <1>11
<1> QED
  BY <1>4, <1>7, <1>12

LEMMA TimeoutsStart ==
  ASSUME TimeoutsInit
  PROVE  TimeoutsInv
<1>1. PICK order \in SetToSeqs(Cyclic), n \in Clock :
        /\ now = n /\ next_timeout = Started(order, n)
        /\ due = n /\ snap = n /\ last = [h \in Cyclic |-> n]
  BY DEF TimeoutsInit
<1>2. running = "" /\ pc = "again" /\ wait = 0 /\ busy = 0
  BY DEF TimeoutsInit
<1>0. tcpActive = FALSE /\ tcpPcbs = FALSE
  BY DEF TimeoutsInit
<1>3. /\ next_timeout \in Seq(SysTimeo) /\ InOrder(next_timeout, n)
      /\ HandlersIn(next_timeout) = Cyclic
      /\ \A i \in 1 .. Len(next_timeout) :
           next_timeout[i].time = (n + Interval[next_timeout[i].h]) % ClockRange
  BY <1>1, StartedIs
<1>4. Armed = Cyclic
  BY <1>0, <1>2, NoTimer, TimeoutsAssumption DEF Armed
<1>5. /\ busy \in 0 .. MaxBusy /\ LongestMs \in Nat /\ TurnMs \in Nat
      /\ ~(wait > 0) /\ wait = 0
  <2>1. 0 \in 0 .. MaxBusy /\ ~(0 > 0) /\ LongestMs \in Nat /\ TurnMs \in Nat
    BY ClockSizes
  <2> QED
    BY <2>1, <1>2, Zenon
<1>6. ASSUME NEW i \in 1 .. Len(next_timeout)
      PROVE  EntryOk(next_timeout[i], now, pc, busy, wait, last)
  <2> DEFINE e == next_timeout[i]
             I == Interval[e.h]
  <2>1. e.h \in Cyclic /\ e.h \in Timers
    BY <1>3, NoTimer DEF HandlersIn
  <2>2. I \in Nat /\ I <= LongestMs /\ I < HalfRange /\ I \in 0 .. ClockRange
    BY <2>1, ClockSizes
  <2>3. e.time = (n + I) % ClockRange /\ e.time \in Clock
    BY <2>2, <1>3, SumIs
  <2>4. Lead(n, n) = 0
    BY LeadSelf
  <2>5. Lead((n + I) % ClockRange, n) = 0 + I
    <3> HIDE DEF I
    <3> QED BY <2>2, <2>4, LeadPlus
  <2>6. Lead(e.time, n) = I
    <3> HIDE DEF I, e
    <3> QED BY <2>2, <2>3, <2>5
  <2>7. (e.time - n) % ClockRange = I
    <3>1. Lead(e.time, n) - Lead(n, n) = I /\ 0 <= I /\ I < HalfRange
      <4> HIDE DEF e, I
      <4> QED BY <2>2, <2>4, <2>6
    <3> HIDE DEF e, I
    <3> QED BY <3>1, <2>3, DiffLead
  <2>8. last[e.h] = n
    BY <2>1, <1>1
  <2>9. (e.time - last[e.h]) % ClockRange \in Interval[e.h] .. Interval[e.h] + 2 * TurnMs
    <3>1. I \in I .. I + 2 * TurnMs
      <4> HIDE DEF I
      <4> QED BY <2>2, <1>5
    <3> QED
      BY <3>1, <2>7, <2>8
  <2>10. Tardy(e.h, pc, busy) \in Nat
    BY <1>5, TardyIs
  <2>11. -Tardy(e.h, pc, busy) <= Lead(e.time, now) /\ Lead(e.time, now) <= LongestMs
    <3>1. Lead(e.time, now) = I
      BY <2>6, <1>1
    <3> HIDE DEF I, e
    <3> QED BY <3>1, <2>2, <2>10
  <2> QED
    BY <2>9, <2>11, <1>5 DEF EntryOk
<1>7. RunInv
  BY <1>2, NoTimer DEF RunInv
<1>8. SleepInv
  <2>1. Ms(wait) = 0
    BY <1>2, MsIs, Zenon
  <2>2. Ms(wait) <= LongestMs
    BY <2>1, <1>5
  <2> QED
    BY <2>2, <1>5 DEF SleepInv
<1>9. last \in [Cyclic -> Clock] /\ InOrder(next_timeout, now) /\ now \in Clock
  BY <1>1, <1>3
<1>10. tcpActive \in BOOLEAN /\ tcpPcbs \in BOOLEAN
  BY <1>0
<1>11. /\ due \in Clock /\ snap \in Clock /\ running \in Timers \cup {""}
       /\ pc \in {"again", "fetch", "check", "run", "handle"} /\ HandlersIn(next_timeout) = Armed
  BY <1>1, <1>2, <1>3, <1>4, Zenon
<1>12. wait \in Nat
  BY <1>5
<1> QED
  BY <1>3, <1>5, <1>6, <1>7, <1>8, <1>9, <1>10, <1>11, <1>12, Zenon DEF TimeoutsInv

-----------------------------------------------------------------------------

LEMMA TimeoutsStep ==
  ASSUME TimeoutsInv, [TimeoutsNext]_timeoutsVars
  PROVE  TimeoutsInv'
<1>1. \/ Again \/ FetchTimesOut \/ HandleMessage \/ CheckDone \/ CheckExpired \/ HandlerEnds
      \/ FetchMessage \/ OtherTask \/ Tick \/ UNCHANGED timeoutsVars
  BY DEF TimeoutsNext, Thread
<1>2. CASE Again
  BY <1>2, AgainStep
<1>3. CASE FetchTimesOut
  BY <1>3, FetchTimesOutStep
<1>4. CASE HandleMessage
  BY <1>4, HandleMessageStep
<1>5. CASE CheckDone
  BY <1>5, CheckDoneStep
<1>6. CASE CheckExpired
  BY <1>6, CheckExpiredStep
<1>7. CASE HandlerEnds
  BY <1>7, HandlerEndsStep
<1>8. CASE FetchMessage
  BY <1>8, FetchMessageStep
<1>9. CASE OtherTask
  BY <1>9, OtherTaskStep
<1>10. CASE Tick
  BY <1>10, TickStep
<1>11. CASE UNCHANGED timeoutsVars
  BY <1>11, StillStep
<1> QED
  BY <1>1, <1>2, <1>3, <1>4, <1>5, <1>6, <1>7, <1>8, <1>9, <1>10, <1>11

LEMMA TimeoutsAlways == TimeoutsSpec => []TimeoutsInv
<1>1. TimeoutsInit => TimeoutsInv
  BY TimeoutsStart
<1>2. TimeoutsInv /\ [TimeoutsNext]_timeoutsVars => TimeoutsInv'
  BY TimeoutsStep
<1> QED
  BY <1>1, <1>2, PTL DEF TimeoutsSpec

\* The list of sys_timeout: every cyclic timer is in it once or its handler is
\* running, the TCP timer is in it exactly while tcpip_tcp_timer_active, and it
\* is sorted over the wrap of sys_now, with other tasks starting the TCP timer
\* while tcpip_thread sleeps.
THEOREM TimerListWhole == TimeoutsSpec => []ListInv
<1>1. TimeoutsInv => ListInv
  <2> SUFFICES ASSUME TimeoutsInv PROVE ListInv
    OBVIOUS
  <2>1. /\ next_timeout \in Seq(SysTimeo) /\ now \in Clock /\ InOrder(next_timeout, now)
        /\ HandlersIn(next_timeout) = Armed /\ wait \in Nat /\ Ms(wait) <= LongestMs
    BY DEF TimeoutsInv, SleepInv
  <2>2. TimeoutsTypeOK
    <3>1. Len(next_timeout) <= Cardinality(Timers)
      BY <2>1, CountIs
    <3>2. wait \in 0 .. ClockRange
      <4>1. wait <= Ms(wait) /\ Ms(wait) \in Nat
        BY <2>1, MsIs
      <4> QED
        BY <4>1, <2>1, ClockSizes
    <3> QED
      BY <3>1, <3>2 DEF TimeoutsInv, TimeoutsTypeOK
  <2>3. EachTimerOnce
    <3> SUFFICES ASSUME NEW h \in Timers
                 PROVE  Cardinality({i \in 1 .. Len(next_timeout) : next_timeout[i].h = h})
                          = IF running = h THEN 0
                            ELSE IF h = Tcp /\ ~tcpActive THEN 0 ELSE 1
      BY DEF EachTimerOnce
    <3>1. Cardinality({i \in 1 .. Len(next_timeout) : next_timeout[i].h = h})
            = IF h \in Armed THEN 1 ELSE 0
      BY <2>1, CountIs
    <3>2. h \in Armed <=> ~(running = h) /\ ~(h = Tcp /\ ~tcpActive)
      BY NoTimer DEF Armed, Timers
    <3> QED
      BY <3>1, <3>2
  <2>4. ListSorted
    <3> SUFFICES ASSUME NEW i \in 1 .. Len(next_timeout), NEW j \in 1 .. Len(next_timeout), i < j
                 PROVE  ~TimeLessThan(next_timeout[j].time, next_timeout[i].time)
      BY DEF ListSorted
    <3> DEFINE s == next_timeout[i].time
               t == next_timeout[j].time
    <3>1. s \in Clock /\ t \in Clock /\ Lead(s, now) \in Leads /\ Lead(t, now) \in Leads
      BY EntriesAre
    <3>2. Lead(s, now) <= Lead(t, now)
      BY <2>1 DEF InOrder
    <3> HIDE DEF s, t
    <3>3. /\ -HalfRange <= Lead(t, now) - Lead(s, now) /\ Lead(t, now) - Lead(s, now) < HalfRange
          /\ ~(Lead(t, now) - Lead(s, now) < 0)
      BY <3>1, <3>2, ClockSizes DEF Leads
    <3>4. Lead(t, s) = Lead(t, now) - Lead(s, now)
      BY <3>1, <3>3, <2>1, LeadFrom
    <3>5. ~TimeLessThan(t, s)
      BY <3>1, <3>3, <3>4, LessIs
    <3> QED
      BY <3>5 DEF s, t
  <2> QED
    BY <2>2, <2>3, <2>4 DEF ListInv
<1> QED
  BY <1>1, TimeoutsAlways, PTL

\* No cyclic timer is late by more than two turns of tcpip_thread's loop, and a
\* sleep computed before the core lock is given up never passes one of them.
THEOREM CyclicNeverLate == TimeoutsSpec => []CyclicOnTime
<1>1. TimeoutsInv => CyclicOnTime
  <2> SUFFICES ASSUME TimeoutsInv, NEW i \in 1 .. Len(next_timeout),
                      next_timeout[i].h \in Cyclic
               PROVE  /\ Overdue(next_timeout[i]) <= 2 * MaxBusy * TickMs
                      /\ pc = "fetch" /\ wait > 0 =>
                           ~TimeLessThan(next_timeout[i].time,
                                         (now + wait * TickMs) % ClockRange)
    BY DEF CyclicOnTime
  <2> DEFINE e == next_timeout[i]
             x == Lead(e.time, now)
  <2>1. /\ now \in Clock /\ busy \in 0 .. MaxBusy /\ wait \in Nat /\ Ms(wait) <= LongestMs
    BY DEF TimeoutsInv, SleepInv
  <2>2. e.time \in Clock /\ EntryOk(e, now, pc, busy, wait, last) /\ x \in Int /\ e.h # Tcp
    BY EntriesAre, NoTimer
  <2>3. /\ -Tardy(e.h, pc, busy) <= x /\ x <= LongestMs
        /\ wait > 0 => Ms(wait) - 0 <= x
    BY <2>2 DEF EntryOk
  <2>4. Tardy(e.h, pc, busy) \in Nat /\ Tardy(e.h, pc, busy) <= 2 * TurnMs
    BY <2>1, <2>2, TardyIs
  <2>5. /\ LongestMs \in Nat /\ TurnMs \in Nat /\ HalfRange \in Nat /\ ClockRange = 2 * HalfRange
        /\ 2 * LongestMs + 2 * TurnMs < HalfRange
    BY ClockSizes
  <2>6. 2 * MaxBusy * TickMs = 2 * TurnMs
    BY ClockSizes DEF TurnMs
  <2>7. Overdue(e) <= 2 * TurnMs
    <3>1. Overdue(e) = IF TimeLessThan(e.time, now) THEN (now - e.time) % ClockRange ELSE 0
      BY DEF Overdue
    <3>2. CASE TimeLessThan(e.time, now)
      <4>1. x < 0
        BY <3>2, <2>1, <2>2, LessIs
      <4>2. Lead(now, now) = 0
        BY <2>1, LeadSelf
      <4>3. 0 <= Lead(now, now) - x /\ Lead(now, now) - x < HalfRange
        <5> HIDE DEF x
        <5> QED BY <4>1, <4>2, <2>2, <2>3, <2>4, <2>5
      <4>4. (now - e.time) % ClockRange = Lead(now, now) - x
        BY <4>3, <2>1, <2>2, DiffLead
      <4> HIDE DEF x, e
      <4> QED
        BY <3>1, <3>2, <4>2, <4>4, <2>2, <2>3, <2>4, <2>5
    <3>3. CASE ~TimeLessThan(e.time, now)
      <4> HIDE DEF e
      <4> QED BY <3>1, <3>3, <2>5
    <3> QED
      BY <3>2, <3>3
  <2>8. ASSUME wait > 0
        PROVE  ~TimeLessThan(e.time, (now + wait * TickMs) % ClockRange)
    <3> DEFINE w == Ms(wait)
               u == (now + w) % ClockRange
    <3>1. w \in Nat /\ w <= LongestMs /\ w - 0 <= x
      BY <2>1, <2>3, <2>8, MsIs
    <3>2. w \in 0 .. ClockRange /\ -HalfRange <= x - w /\ 0 <= x - w
      <4> HIDE DEF w, x
      <4> QED BY <3>1, <2>2, <2>5
    <3>3. Lead(e.time, u) = x - w
      <4> HIDE DEF w
      <4> QED BY <3>2, <2>1, <2>2, LeadLater
    <3>4. u \in Clock
      <4> HIDE DEF w
      <4> QED BY <3>2, <2>1, SumIs
    <3>5. ~(Lead(e.time, u) < 0)
      <4> HIDE DEF w, x, u
      <4> QED BY <3>1, <3>2, <3>3, <2>2
    <3>6. ~TimeLessThan(e.time, u)
      BY <3>4, <3>5, <2>2, LessIs
    <3> QED
      BY <3>6 DEF Ms
  <2> QED
    BY <2>6, <2>7, <2>8
<1> QED
  BY <1>1, TimeoutsAlways, PTL

\* A handler of lwip_cyclic_timers starts only when its time has come, and its
\* due times are an interval apart, more only by what the loop was late.
THEOREM CyclicKeepsBeat == TimeoutsSpec => CyclicSpacing
<1>1. ASSUME TimeoutsInv, [TimeoutsNext]_timeoutsVars, running' \in Cyclic, running = ""
      PROVE  /\ ~TimeLessThan(now, due')
             /\ (due' - last[running']) % ClockRange
                  \in Interval[running'] .. Interval[running'] + 2 * MaxBusy * TickMs
  <2>1. running' # "" /\ running' # running
    BY <1>1, NoTimer
  <2>2. CheckExpired
    <3>1. \/ Again \/ FetchTimesOut \/ HandleMessage \/ CheckDone \/ CheckExpired \/ HandlerEnds
          \/ FetchMessage \/ OtherTask \/ Tick \/ UNCHANGED timeoutsVars
      BY <1>1 DEF TimeoutsNext, Thread
    <3>2. /\ ~Again /\ ~FetchTimesOut /\ ~HandleMessage /\ ~CheckDone /\ ~HandlerEnds
          /\ ~FetchMessage /\ ~OtherTask /\ ~Tick /\ ~UNCHANGED timeoutsVars
      BY <2>1 DEF Again, FetchTimesOut, HandleMessage, CheckDone, HandlerEnds, FetchMessage,
                  OtherTask, Tick, timeoutsVars, NextTurn
    <3> QED
      BY <3>1, <3>2
  <2> DEFINE e == Head(next_timeout)
             x == Lead(e.time, now)
  <2>3. /\ e.time \in Clock /\ EntryOk(e, now, pc, busy, wait, last) /\ x \in Int /\ x <= 0
    BY <1>1, <2>2, ExpiredIs
  <2>4. due' = e.time /\ running' = e.h
    BY <2>2 DEF CheckExpired
  <2>5. now \in Clock /\ busy \in 0 .. MaxBusy
    BY <1>1 DEF TimeoutsInv
  <2>6. ~TimeLessThan(now, e.time)
    <3>1. -Tardy(e.h, pc, busy) <= x
      BY <2>3 DEF EntryOk
    <3>2. Tardy(e.h, pc, busy) \in Nat /\ Tardy(e.h, pc, busy) <= LongestMs + 2 * TurnMs
      BY <2>5, TardyIs
    <3>3. Lead(now, now) = 0
      BY <2>5, LeadSelf
    <3>4. -HalfRange <= Lead(now, now) - x /\ Lead(now, now) - x < HalfRange
      <4> HIDE DEF x
      <4> QED BY <3>1, <3>2, <3>3, <2>3, ClockSizes
    <3>5. Lead(now, e.time) = Lead(now, now) - x
      BY <3>4, <2>3, <2>5, LeadFrom
    <3>6. ~(Lead(now, e.time) < 0)
      <4> HIDE DEF x, e
      <4> QED BY <3>3, <3>5, <2>3
    <3> QED
      BY <3>6, <2>3, <2>5, LessIs
  <2>7. (e.time - last[e.h]) % ClockRange \in Interval[e.h] .. Interval[e.h] + 2 * TurnMs
    BY <1>1, <2>3, <2>4 DEF EntryOk
  <2>8. 2 * MaxBusy * TickMs = 2 * TurnMs
    BY ClockSizes DEF TurnMs
  <2> QED
    BY <2>4, <2>6, <2>7, <2>8
<1>2. TimeoutsInv /\ [TimeoutsNext]_timeoutsVars =>
        [running' \in Cyclic /\ running = "" =>
           /\ ~TimeLessThan(now, due')
           /\ (due' - last[running']) % ClockRange
                \in Interval[running'] .. Interval[running'] + 2 * MaxBusy * TickMs]_timeoutsVars
  BY <1>1
<1> QED
  BY <1>2, TimeoutsAlways, PTL DEF TimeoutsSpec, CyclicSpacing
=============================================================================
