---------------------------- MODULE Freertos_proofs ----------------------------
(***************************************************************************)
(* The queue and the kernel's lists for any tasks, any length of the queue *)
(* and any range of the tick count: the delayed lists, the blocking time,  *)
(* the wake-ups and the mailbox the queue implements; and the timer task   *)
(* with its auto-reload timer for any period and any lateness that fit in  *)
(* the range.                                                              *)
(***************************************************************************)
EXTENDS RtosQueue, SoftTimer, Structures_proofs

-----------------------------------------------------------------------------
(* The event list without the tasks that are due. *)

\* One turn of the recursion; it has a solution.
WithoutTurn(s, D, f, i) ==
  IF i = 0 THEN << >>
  ELSE IF s[i] \in D THEN f[i - 1] ELSE Append(f[i - 1], s[i])

LEMMA WithoutSolved ==
  ASSUME NEW s, NEW D, NEW m \in Nat
  PROVE  \E f : f = [i \in 0 .. m |-> WithoutTurn(s, D, f, i)]
<1> DEFINE Def(f, i) == WithoutTurn(s, D, f, i)
           Solved(n) == \E f : f = [i \in 0 .. n |-> Def(f, i)]
           T == {n \in Nat : Solved(n)}
<1>1. Solved(0)
  <2> DEFINE f == [i \in 0 .. 0 |-> << >>]
  <2>1. f = [i \in 0 .. 0 |-> Def(f, i)]
    BY DEF WithoutTurn
  <2> QED BY <2>1
<1>2. ASSUME NEW n \in Nat, Solved(n) PROVE Solved(n + 1)
  <2> PICK f : f = [i \in 0 .. n |-> Def(f, i)]
    BY <1>2
  <2> DEFINE last == Def(f, n + 1)
             g == [i \in 0 .. n + 1 |-> IF i <= n THEN f[i] ELSE last]
  <2>0. \A i \in 0 .. n : f[i] = Def(f, i)
    OBVIOUS
  <2>1. \A i \in 0 .. n : g[i] = f[i]
    <3> HIDE DEF last
    <3> QED OBVIOUS
  <2>2. g[n + 1] = last
    <3> HIDE DEF last
    <3> QED OBVIOUS
  <2>3. ASSUME NEW i \in 0 .. n + 1 PROVE g[i] = Def(g, i)
    <3> HIDE DEF g
    <3>1. CASE i <= n
      <4>1. i \in 0 .. n /\ (i = 0 \/ i - 1 \in 0 .. n)
        BY <3>1
      <4> QED BY <2>0, <2>1, <4>1 DEF WithoutTurn
    <3>2. CASE i = n + 1
      <4>1. g[n] = f[n] /\ n + 1 # 0 /\ (n + 1) - 1 = n
        BY <2>1
      <4> QED BY <3>2, <2>2, <4>1 DEF WithoutTurn
    <3> QED BY <3>1, <3>2
  <2>4. g = [i \in 0 .. n + 1 |-> Def(g, i)]
    BY <2>3
  <2> QED BY <2>4
<1>3. \A n \in Nat : n \in T
  <2>1. 0 \in T /\ \A n \in Nat : n \in T => n + 1 \in T
    <3> HIDE DEF Solved
    <3> QED BY <1>1, <1>2
  <2> HIDE DEF T
  <2> QED BY <2>1, SetInduction
<1>4. Solved(m)
  <2> HIDE DEF Solved
  <2> QED BY <1>3
<1> QED
  BY <1>4

\* The list holds no element twice.
Once(s) == \A i, j \in 1 .. Len(s) : s[i] = s[j] => i = j

Members(s) == {s[i] : i \in 1 .. Len(s)}

LEMMA AppendMembers ==
  ASSUME NEW S, NEW s \in Seq(S), NEW x \in S
  PROVE  /\ Append(s, x) \in Seq(S)
         /\ Members(Append(s, x)) = Members(s) \cup {x}
         /\ Once(s) /\ x \notin Members(s) => Once(Append(s, x))
<1> DEFINE a == Append(s, x)
<1>1. a \in Seq(S) /\ Len(a) = Len(s) + 1 /\ Len(s) \in Nat /\ a[Len(s) + 1] = x
      /\ \A j \in 1 .. Len(s) : a[j] = s[j]
  OBVIOUS
<1>2. \A j : j \in 1 .. Len(s) + 1 <=> j \in 1 .. Len(s) \/ j = Len(s) + 1
  BY <1>1
<1> HIDE DEF a
<1>3. \A y : y \in Members(a) <=> y \in Members(s) \/ y = x
  <2> TAKE y
  <2>1. ASSUME y \in Members(a) PROVE y \in Members(s) \/ y = x
    <3> PICK j \in 1 .. Len(a) : y = a[j]
      BY <2>1 DEF Members
    <3> QED BY <1>1, <1>2 DEF Members
  <2>2. ASSUME y \in Members(s) PROVE y \in Members(a)
    <3> PICK j \in 1 .. Len(s) : y = s[j]
      BY <2>2 DEF Members
    <3>1. j \in 1 .. Len(a) /\ a[j] = y
      BY <1>1
    <3> QED BY <3>1 DEF Members
  <2>3. x \in Members(a)
    <3>1. Len(s) + 1 \in 1 .. Len(a)
      BY <1>1
    <3> QED BY <1>1, <3>1 DEF Members
  <2> QED BY <2>1, <2>2, <2>3
<1>4. ASSUME Once(s), x \notin Members(s) PROVE Once(a)
  <2> SUFFICES ASSUME NEW i \in 1 .. Len(a), NEW j \in 1 .. Len(a), a[i] = a[j]
               PROVE  i = j
    BY DEF Once
  <2>1. \A m \in 1 .. Len(s) : s[m] # x
    BY <1>4 DEF Members
  <2> QED
    BY <1>1, <1>2, <1>4, <2>1 DEF Once
<1> QED
  <2>1. Members(a) = Members(s) \cup {x}
    BY <1>3
  <2> QED BY <1>1, <1>4, <2>1 DEF a

\* Whom the list holds afterwards, and that nobody is in it twice.
LEMMA WithoutIs ==
  ASSUME NEW S, NEW s \in Seq(S), NEW D
  PROVE  /\ Without(s, D) \in Seq(S)
         /\ Members(Without(s, D)) = Members(s) \ D
         /\ Once(s) => Once(Without(s, D))
<1> DEFINE w == CHOOSE f : f = [i \in 0 .. Len(s) |-> WithoutTurn(s, D, f, i)]
<1>0. Len(s) \in Nat
  OBVIOUS
<1>1. w = [i \in 0 .. Len(s) |-> WithoutTurn(s, D, w, i)]
  <2>1. \E f : f = [i \in 0 .. Len(s) |-> WithoutTurn(s, D, f, i)]
    BY <1>0, WithoutSolved
  <2> QED BY <2>1
<1>2. Without(s, D) = w[Len(s)]
  BY DEF Without, WithoutTurn
<1> HIDE DEF w
<1>3. \A i \in 0 .. Len(s) : w[i] = WithoutTurn(s, D, w, i)
  BY <1>1
<1> DEFINE Good(n) == /\ w[n] \in Seq(S)
                      /\ Members(w[n]) = {s[i] : i \in 1 .. n} \ D
                      /\ Once(s) => Once(w[n])
           T == {n \in Nat : n <= Len(s) => Good(n)}
<1>4. Good(0)
  <2>1. w[0] = << >>
    BY <1>0, <1>3 DEF WithoutTurn
  <2> QED BY <2>1 DEF Members, Once
<1>5. ASSUME NEW n \in Nat, n + 1 <= Len(s), Good(n) PROVE Good(n + 1)
  <2> DEFINE x == s[n + 1]
  <2>1. n + 1 \in 0 .. Len(s) /\ n + 1 # 0 /\ (n + 1) - 1 = n /\ n + 1 \in 1 .. Len(s)
    BY <1>0, <1>5
  <2>2. w[n + 1] = IF x \in D THEN w[n] ELSE Append(w[n], x)
    BY <2>1, <1>3 DEF WithoutTurn
  <2>3. x \in S
    BY <2>1
  <2>4. {s[i] : i \in 1 .. n + 1} = {s[i] : i \in 1 .. n} \cup {x}
    BY <2>1
  <2> HIDE DEF x
  <2>5. CASE x \in D
    BY <1>5, <2>2, <2>4, <2>5
  <2>6. CASE x \notin D
    <3>1. w[n + 1] = Append(w[n], x) /\ w[n + 1] \in Seq(S)
      BY <2>2, <2>3, <2>6, <1>5
    <3>4. Members(w[n + 1]) = Members(w[n]) \cup {x}
      BY <3>1, <2>3, <1>5, AppendMembers
    <3>5. Once(s) => x \notin Members(w[n])
      <4> SUFFICES ASSUME Once(s), x \in Members(w[n]) PROVE FALSE
        OBVIOUS
      <4>1. PICK i \in 1 .. n : s[i] = x
        BY <1>5
      <4>2. i \in 1 .. Len(s) /\ i # n + 1
        BY <2>1
      <4> QED BY <4>1, <4>2, <2>1 DEF Once, x
    <3>6. Once(s) => Once(w[n + 1])
      BY <1>5, <3>1, <3>5, <2>3, AppendMembers
    <3> QED
      BY <3>1, <3>4, <3>6, <2>4, <2>6, <1>5
  <2> QED BY <2>5, <2>6
<1>6. Good(Len(s))
  <2>1. 0 \in T /\ \A n \in Nat : n \in T => n + 1 \in T
    <3> HIDE DEF Good
    <3> QED BY <1>0, <1>4, <1>5
  <2>2. \A n \in Nat : n \in T
    <3> HIDE DEF T
    <3> QED BY <2>1, SetInduction
  <2> HIDE DEF Good
  <2> QED BY <2>2, <1>0
<1> QED
  BY <1>2, <1>6 DEF Members

-----------------------------------------------------------------------------
(* The kernel's record. *)

Lists == {"ready", "delayed", "overflow", "suspended"}
Timed == {"delayed", "overflow"}
Ticks == 0 .. TickRange - 1

\* DelayListsSound, of any kernel record.
Sound(q) ==
  \A t \in Tasks :
    /\ q.list[t] = "delayed"  => q.tick < q.wake[t] /\ q.next <= q.wake[t]
    /\ q.list[t] = "overflow" => q.wake[t] < q.tick

LEMMA Sizes ==
  /\ TickRange \in Nat /\ TickRange > 1 /\ OverflowRange \in Nat /\ OverflowRange > 1
  /\ MaxPended \in Nat /\ IsFiniteSet(Tasks) /\ NoTask \notin Tasks
  /\ portMAX_DELAY = TickRange - 1 /\ portMAX_DELAY \in Ticks /\ 0 \in Ticks
BY KernelAssumption DEF portMAX_DELAY, Ticks

LEMMA Fields ==
  ASSUME NEW q \in KernelType
  PROVE  /\ q.tick \in Ticks /\ q.ovf \in 0 .. OverflowRange - 1 /\ q.next \in Ticks
         /\ q.list \in [Tasks -> Lists] /\ q.wake \in [Tasks -> Ticks]
         /\ q.ev \in [EventLists -> Seq(Tasks)]
BY DEF KernelType, Ticks, Lists

LEMMA SetTick ==
  ASSUME NEW q \in KernelType, NEW n \in Ticks
  PROVE  LET r == [q EXCEPT !.tick = n]
         IN /\ r \in KernelType /\ r.tick = n /\ r.ovf = q.ovf /\ r.next = q.next
            /\ r.list = q.list /\ r.wake = q.wake /\ r.ev = q.ev
BY DEF KernelType, Ticks

LEMMA SetNext ==
  ASSUME NEW q \in KernelType, NEW n \in Ticks
  PROVE  LET r == [q EXCEPT !.next = n]
         IN /\ r \in KernelType /\ r.tick = q.tick /\ r.ovf = q.ovf /\ r.next = n
            /\ r.list = q.list /\ r.wake = q.wake /\ r.ev = q.ev
BY DEF KernelType, Ticks

LEMMA SetOvf ==
  ASSUME NEW q \in KernelType, NEW n \in 0 .. OverflowRange - 1
  PROVE  LET r == [q EXCEPT !.ovf = n]
         IN /\ r \in KernelType /\ r.tick = q.tick /\ r.ovf = n /\ r.next = q.next
            /\ r.list = q.list /\ r.wake = q.wake /\ r.ev = q.ev
BY DEF KernelType, Ticks

LEMMA SetList ==
  ASSUME NEW q \in KernelType, NEW l \in [Tasks -> Lists]
  PROVE  LET r == [q EXCEPT !.list = l]
         IN /\ r \in KernelType /\ r.tick = q.tick /\ r.ovf = q.ovf /\ r.next = q.next
            /\ r.list = l /\ r.wake = q.wake /\ r.ev = q.ev
BY DEF KernelType, Ticks, Lists

LEMMA SetWake ==
  ASSUME NEW q \in KernelType, NEW w \in [Tasks -> Ticks]
  PROVE  LET r == [q EXCEPT !.wake = w]
         IN /\ r \in KernelType /\ r.tick = q.tick /\ r.ovf = q.ovf /\ r.next = q.next
            /\ r.list = q.list /\ r.wake = w /\ r.ev = q.ev
BY DEF KernelType, Ticks

LEMMA SetEv ==
  ASSUME NEW q \in KernelType, NEW v \in [EventLists -> Seq(Tasks)]
  PROVE  LET r == [q EXCEPT !.ev = v]
         IN /\ r \in KernelType /\ r.tick = q.tick /\ r.ovf = q.ovf /\ r.next = q.next
            /\ r.list = q.list /\ r.wake = q.wake /\ r.ev = v
BY DEF KernelType, Ticks

LEMMA ReadyIs ==
  ASSUME NEW q \in KernelType, NEW S
  PROVE  /\ Ready(q, S) \in KernelType
         /\ Ready(q, S).tick = q.tick /\ Ready(q, S).ovf = q.ovf
         /\ Ready(q, S).next = q.next /\ Ready(q, S).ev = q.ev
         /\ \A t \in Tasks :
              /\ Ready(q, S).list[t] = IF t \in S THEN "ready" ELSE q.list[t]
              /\ Ready(q, S).wake[t] = IF t \in S THEN 0 ELSE q.wake[t]
<1> DEFINE l == [t \in Tasks |-> IF t \in S THEN "ready" ELSE q.list[t]]
           w == [t \in Tasks |-> IF t \in S THEN 0 ELSE q.wake[t]]
           r == [q EXCEPT !.list = l]
<1>1. l \in [Tasks -> Lists] /\ w \in [Tasks -> Ticks]
  BY Fields, Sizes DEF Lists
<1>2. Ready(q, S) = [r EXCEPT !.wake = w]
  BY DEF Ready
<1>3. \A t \in Tasks : /\ l[t] = IF t \in S THEN "ready" ELSE q.list[t]
                       /\ w[t] = IF t \in S THEN 0 ELSE q.wake[t]
  OBVIOUS
<1> HIDE DEF l, w
<1>4. /\ r \in KernelType /\ r.tick = q.tick /\ r.ovf = q.ovf /\ r.next = q.next
      /\ r.list = l /\ r.wake = q.wake /\ r.ev = q.ev
  BY <1>1, SetList
<1> HIDE DEF r
<1> QED
  BY <1>1, <1>2, <1>3, <1>4, SetWake

\* The head of the delayed list has the earliest wake time.
LEMMA NextUnblockIs ==
  ASSUME NEW l \in [Tasks -> Lists], NEW w \in [Tasks -> Ticks]
  PROVE  /\ NextUnblock(l, w) \in Ticks
         /\ \A t \in Tasks : l[t] = "delayed" => NextUnblock(l, w) <= w[t]
<1> DEFINE S == {w[t] : t \in OnDelayedList(l)}
<1>1. CASE OnDelayedList(l) = {}
  BY <1>1, Sizes DEF NextUnblock, OnDelayedList
<1>2. CASE OnDelayedList(l) # {}
  <2>1. S \in SUBSET Nat /\ S # {} /\ S \subseteq Ticks
    BY <1>2 DEF OnDelayedList, Ticks
  <2>2. \E x \in S : \A y \in S : x <= y
    <3> HIDE DEF S
    <3> QED BY <2>1, LeastExists
  <2>3. Min(S) \in S /\ \A y \in S : Min(S) <= y
    <3> HIDE DEF S
    <3> QED BY <2>2 DEF Min
  <2>4. NextUnblock(l, w) = Min(S)
    BY <1>2 DEF NextUnblock
  <2> QED
    BY <2>1, <2>3, <2>4 DEF OnDelayedList
<1> QED
  BY <1>1, <1>2

\* The wrap: the lists are exchanged.
LEMMA SwitchIs ==
  ASSUME NEW q \in KernelType
  PROVE  LET r == SwitchDelayedLists(q)
         IN /\ r \in KernelType /\ r.tick = q.tick
            /\ r.ovf = (q.ovf + 1) % OverflowRange
            /\ r.wake = q.wake /\ r.ev = q.ev
            /\ \A t \in Tasks :
                 /\ q.list[t] = "delayed" => r.list[t] = "overflow"
                 /\ q.list[t] = "overflow" => r.list[t] = "delayed"
                 /\ q.list[t] \notin Timed => r.list[t] = q.list[t]
                 /\ r.list[t] = "delayed" => r.next <= r.wake[t]
<1> DEFINE swapped == [t \in Tasks |-> CASE q.list[t] = "delayed"  -> "overflow"
                                         [] q.list[t] = "overflow" -> "delayed"
                                         [] OTHER -> q.list[t]]
           o == (q.ovf + 1) % OverflowRange
           n == NextUnblock(swapped, q.wake)
           a == [q EXCEPT !.list = swapped]
           b == [a EXCEPT !.ovf = o]
<1>1. swapped \in [Tasks -> Lists] /\ o \in 0 .. OverflowRange - 1
  BY Fields, Sizes DEF Lists
<1>2. \A t \in Tasks :
        /\ q.list[t] = "delayed" => swapped[t] = "overflow"
        /\ q.list[t] = "overflow" => swapped[t] = "delayed"
        /\ q.list[t] \notin Timed => swapped[t] = q.list[t]
  BY DEF Timed
<1>3. SwitchDelayedLists(q) = [b EXCEPT !.next = n]
  BY DEF SwitchDelayedLists
<1> HIDE DEF swapped, o
<1>4. n \in Ticks /\ \A t \in Tasks : swapped[t] = "delayed" => n <= q.wake[t]
  BY <1>1, Fields, NextUnblockIs
<1>5. /\ a \in KernelType /\ a.tick = q.tick /\ a.list = swapped
      /\ a.wake = q.wake /\ a.ev = q.ev
  BY <1>1, SetList
<1> HIDE DEF a, n
<1>6. /\ b \in KernelType /\ b.tick = q.tick /\ b.list = swapped /\ b.ovf = o
      /\ b.wake = q.wake /\ b.ev = q.ev
  BY <1>1, <1>5, SetOvf
<1> HIDE DEF b
<1>7. LET r == [b EXCEPT !.next = n]
      IN /\ r \in KernelType /\ r.tick = b.tick /\ r.ovf = b.ovf /\ r.next = n
         /\ r.list = b.list /\ r.wake = b.wake /\ r.ev = b.ev
  BY <1>4, <1>6, SetNext
<1> QED
  BY <1>2, <1>3, <1>4, <1>6, <1>7 DEF o

\* Those who are due are ready and in no event list, the others as before.
Left(q, r, D) ==
  /\ \A t \in Tasks :
       /\ t \in D => r.list[t] = "ready"
       /\ t \notin D => r.wake[t] = q.wake[t]
  /\ \A e \in EventLists :
       /\ Members(r.ev[e]) = Members(q.ev[e]) \ D
       /\ Once(q.ev[e]) => Once(r.ev[e])

LEMMA UnblockIs ==
  ASSUME NEW q \in KernelType
  PROVE  LET r == UnblockDue(q)
             due == {t \in Tasks : q.list[t] = "delayed" /\ q.wake[t] <= q.tick}
         IN /\ r \in KernelType /\ r.tick = q.tick /\ r.ovf = q.ovf
            /\ Left(q, r, due)
            /\ \A t \in Tasks : t \notin due => r.list[t] = q.list[t]
            /\ \A t \in Tasks : r.list[t] = "delayed" => r.next <= r.wake[t]
<1> DEFINE due == {t \in Tasks : q.list[t] = "delayed" /\ q.wake[t] <= q.tick}
           a == Ready(q, due)
           v == [e \in EventLists |-> Without(q.ev[e], due)]
           n == NextUnblock(a.list, a.wake)
           b == [a EXCEPT !.ev = v]
<1>0. q.ev \in [EventLists -> Seq(Tasks)]
  BY Fields
<1>1. due = {t \in OnDelayedList(q.list) : q.wake[t] <= q.tick}
  BY DEF OnDelayedList
<1>2. UnblockDue(q) = [b EXCEPT !.next = n]
  BY <1>1 DEF UnblockDue
<1>3. \A t \in Tasks : t \in due <=> q.list[t] = "delayed" /\ q.wake[t] <= q.tick
  OBVIOUS
<1>4. ASSUME NEW e \in EventLists
      PROVE  /\ v[e] \in Seq(Tasks) /\ Members(v[e]) = Members(q.ev[e]) \ due
             /\ Once(q.ev[e]) => Once(v[e])
  <2>1. v[e] = Without(q.ev[e], due) /\ q.ev[e] \in Seq(Tasks)
    BY <1>0
  <2> HIDE DEF due, v
  <2> QED BY <2>1, WithoutIs
<1>5. v \in [EventLists -> Seq(Tasks)]
  BY <1>4
<1> HIDE DEF due
<1>6. /\ a \in KernelType /\ a.tick = q.tick /\ a.ovf = q.ovf
      /\ \A t \in Tasks : /\ t \in due => a.list[t] = "ready"
                          /\ t \notin due => a.list[t] = q.list[t] /\ a.wake[t] = q.wake[t]
  BY ReadyIs
<1> HIDE DEF a, v
<1>7. n \in Ticks /\ \A t \in Tasks : a.list[t] = "delayed" => n <= a.wake[t]
  BY <1>6, Fields, NextUnblockIs
<1> HIDE DEF n
<1>8. /\ b \in KernelType /\ b.tick = a.tick /\ b.ovf = a.ovf
      /\ b.list = a.list /\ b.wake = a.wake /\ b.ev = v
  BY <1>5, <1>6, SetEv
<1> HIDE DEF b
<1>9. LET r == [b EXCEPT !.next = n]
      IN /\ r \in KernelType /\ r.tick = b.tick /\ r.ovf = b.ovf /\ r.next = n
         /\ r.list = b.list /\ r.wake = b.wake /\ r.ev = b.ev
  BY <1>7, <1>8, SetNext
<1> DEFINE r == UnblockDue(q)
<1>10. /\ r \in KernelType /\ r.tick = q.tick /\ r.ovf = q.ovf /\ r.next = n
       /\ r.list = a.list /\ r.wake = a.wake /\ r.ev = v
  BY <1>2, <1>6, <1>8, <1>9
<1> HIDE DEF r
<1>11. Left(q, r, due)
  BY <1>4, <1>6, <1>10 DEF Left
<1> QED
  BY <1>6, <1>7, <1>10, <1>11 DEF due, r

-----------------------------------------------------------------------------
(* One tick. *)

\* The ticks until a wake time comes round.
Until(at, now) == (at - now) % TickRange

LEMMA UntilIs ==
  ASSUME NEW at \in Ticks, NEW now \in Ticks
  PROVE  Until(at, now) = IF now <= at THEN at - now ELSE at - now + TickRange
BY Sizes, SMT DEF Until, Ticks

LEMMA TickStep ==
  ASSUME NEW now \in Ticks
  PROVE  /\ (now + 1) % TickRange \in Ticks
         /\ (now + 1) % TickRange = IF now = TickRange - 1 THEN 0 ELSE now + 1
BY Sizes, SMT DEF Ticks

\* What one tick does to the lists: some tasks are woken, the others keep their
\* wake times and stay blocked, or not, as they were.
Ticked(q, r) ==
  /\ r \in KernelType /\ Sound(r)
  /\ r.tick = (q.tick + 1) % TickRange
  /\ r.ovf = IF r.tick = 0 THEN (q.ovf + 1) % OverflowRange ELSE q.ovf
  /\ \E D \in SUBSET Tasks :
       /\ Left(q, r, D)
       /\ \A t \in Tasks :
            t \notin D => /\ r.list[t] \in Timed <=> q.list[t] \in Timed
                          /\ q.list[t] \notin Timed => r.list[t] = q.list[t]

LEMMA IncrementIs ==
  ASSUME NEW q \in KernelType, Sound(q)
  PROVE  Ticked(q, IncrementTick(q))
<1> DEFINE n  == (q.tick + 1) % TickRange
           q1 == [q EXCEPT !.tick = n]
           q2 == IF n = 0 THEN SwitchDelayedLists(q1) ELSE q1
           due == {t \in Tasks : q2.list[t] = "delayed" /\ q2.wake[t] <= q2.tick}
           r  == IncrementTick(q)
<1>0. r = IF n >= q2.next THEN UnblockDue(q2) ELSE q2
  BY DEF IncrementTick
<1>1. n \in Ticks /\ n = IF q.tick = TickRange - 1 THEN 0 ELSE q.tick + 1
  BY Fields, TickStep
<1> HIDE DEF n
<1>2. /\ q1 \in KernelType /\ q1.tick = n /\ q1.ovf = q.ovf /\ q1.next = q.next
      /\ q1.list = q.list /\ q1.wake = q.wake /\ q1.ev = q.ev
  BY <1>1, SetTick
<1> HIDE DEF q1
<1>t. /\ \A t \in Tasks : q.list[t] \in Lists /\ q.wake[t] \in Ticks
      /\ q.tick \in Ticks /\ q.next \in Ticks
  BY Fields
<1>3. /\ q2 \in KernelType /\ q2.tick = n /\ q2.wake = q.wake /\ q2.ev = q.ev
      /\ q2.ovf = IF n = 0 THEN (q.ovf + 1) % OverflowRange ELSE q.ovf
      /\ \A t \in Tasks :
           /\ q2.list[t] \in Timed <=> q.list[t] \in Timed
           /\ q.list[t] \notin Timed => q2.list[t] = q.list[t]
           /\ q2.list[t] = "delayed" => n <= q2.wake[t] /\ q2.next <= q2.wake[t]
           /\ q2.list[t] = "overflow" => q2.wake[t] < n
  <2>1. CASE n = 0
    <3>1. \A t \in Tasks : q.list[t] # "delayed"
      BY <1>1, <1>t, <2>1, Sizes, SMT DEF Sound, Ticks
    <3>2. q2 = SwitchDelayedLists(q1)
      BY <2>1
    <3> HIDE DEF q2
    <3>3. /\ q2 \in KernelType /\ q2.tick = n /\ q2.wake = q.wake /\ q2.ev = q.ev
          /\ q2.ovf = (q.ovf + 1) % OverflowRange
          /\ \A t \in Tasks :
               /\ q.list[t] = "delayed" => q2.list[t] = "overflow"
               /\ q.list[t] = "overflow" => q2.list[t] = "delayed"
               /\ q.list[t] \notin Timed => q2.list[t] = q.list[t]
               /\ q2.list[t] = "delayed" => q2.next <= q2.wake[t]
      BY <1>2, <3>2, SwitchIs
    <3>4. \A t \in Tasks : 0 <= q.wake[t]
      BY <1>t DEF Ticks
    <3> QED
      BY <2>1, <3>1, <3>3, <3>4, <1>t DEF Timed, Lists
  <2>2. CASE n # 0
    <3>1. n = q.tick + 1
      BY <1>1, <2>2
    <3>2. q2 = q1
      BY <2>2
    <3> HIDE DEF q2
    <3>3. \A t \in Tasks : /\ q.list[t] = "delayed" => n <= q.wake[t] /\ q.next <= q.wake[t]
                           /\ q.list[t] = "overflow" => q.wake[t] < n
      BY <3>1, <1>t, SMT DEF Sound, Ticks
    <3> QED
      BY <2>2, <3>2, <3>3, <1>2
  <2> QED BY <2>1, <2>2
<1> HIDE DEF q2
<1>w. \A t \in Tasks : q2.wake[t] \in Ticks
  BY <1>t, <1>3
<1>4. CASE n >= q2.next
  <2>1. /\ r \in KernelType /\ r.tick = q2.tick /\ r.ovf = q2.ovf
        /\ Left(q2, r, due)
        /\ \A t \in Tasks : t \notin due => r.list[t] = q2.list[t]
        /\ \A t \in Tasks : r.list[t] = "delayed" => r.next <= r.wake[t]
    <3>1. r = UnblockDue(q2) /\ q2 \in KernelType
      BY <1>0, <1>3, <1>4
    <3> HIDE DEF r
    <3> QED BY <3>1, UnblockIs
  <2>2. \A t \in Tasks : t \in due <=> q2.list[t] = "delayed" /\ q2.wake[t] <= q2.tick
    OBVIOUS
  <2>3. due \in SUBSET Tasks
    OBVIOUS
  <2> HIDE DEF due, r
  <2>4. Left(q, r, due)
    BY <2>1, <1>3 DEF Left
  <2>5. Sound(r)
    <3> SUFFICES ASSUME NEW t \in Tasks
                 PROVE  /\ r.list[t] = "delayed" => r.tick < r.wake[t] /\ r.next <= r.wake[t]
                        /\ r.list[t] = "overflow" => r.wake[t] < r.tick
      BY DEF Sound
    <3>1. CASE t \in due
      BY <3>1, <2>1 DEF Left
    <3>2. CASE t \notin due
      <4>1. r.list[t] = q2.list[t] /\ r.wake[t] = q2.wake[t] /\ r.tick = n
        BY <3>2, <2>1, <1>3 DEF Left
      <4>2. q2.list[t] = "delayed" => ~(q2.wake[t] <= n)
        BY <3>2, <2>2, <1>3
      <4>3. q2.list[t] = "delayed" => n < q2.wake[t]
        BY <4>2, <1>w, <1>1, SMT DEF Ticks
      <4> QED BY <4>1, <4>3, <1>3, <2>1
    <3> QED BY <3>1, <3>2
  <2>6. \A t \in Tasks :
          t \notin due => /\ r.list[t] \in Timed <=> q.list[t] \in Timed
                          /\ q.list[t] \notin Timed => r.list[t] = q.list[t]
    BY <2>1, <1>3
  <2>7. r.tick = n /\ r.ovf = IF n = 0 THEN (q.ovf + 1) % OverflowRange ELSE q.ovf
    BY <2>1, <1>3
  <2> QED
    BY <2>1, <2>3, <2>4, <2>5, <2>6, <2>7 DEF Ticked, n, r
<1>5. CASE ~(n >= q2.next)
  <2>1. r = q2
    BY <1>0, <1>5
  <2>2. Sound(q2)
    <3>1. q2.next \in Ticks
      BY <1>3, Fields
    <3>2. n < q2.next
      BY <3>1, <1>1, <1>5, SMT DEF Ticks
    <3> SUFFICES ASSUME NEW t \in Tasks
                 PROVE  /\ q2.list[t] = "delayed" => q2.tick < q2.wake[t] /\ q2.next <= q2.wake[t]
                        /\ q2.list[t] = "overflow" => q2.wake[t] < q2.tick
      BY DEF Sound
    <3>3. q2.next <= q2.wake[t] => n < q2.wake[t]
      BY <3>1, <3>2, <1>w, <1>1, SMT DEF Ticks
    <3> QED BY <1>3, <3>3
  <2>3. Left(q, q2, {})
    BY <1>3 DEF Left
  <2>4. {} \in SUBSET Tasks
    OBVIOUS
  <2> QED
    BY <2>1, <2>2, <2>3, <2>4, <1>3 DEF Ticked, n
<1> QED
  BY <1>4, <1>5

-----------------------------------------------------------------------------
(* The pended ticks, one after the other. *)

CatchTurn(q, f, i) == IF i = 0 THEN q ELSE IncrementTick(f[i - 1])

LEMMA CatchSolved ==
  ASSUME NEW q, NEW m \in Nat
  PROVE  \E f : f = [i \in 0 .. m |-> CatchTurn(q, f, i)]
<1> DEFINE Def(f, i) == CatchTurn(q, f, i)
           Solved(n) == \E f : f = [i \in 0 .. n |-> Def(f, i)]
           T == {n \in Nat : Solved(n)}
<1>1. Solved(0)
  <2> DEFINE f == [i \in 0 .. 0 |-> q]
  <2>1. f = [i \in 0 .. 0 |-> Def(f, i)]
    BY DEF CatchTurn
  <2> QED BY <2>1
<1>2. ASSUME NEW n \in Nat, Solved(n) PROVE Solved(n + 1)
  <2> PICK f : f = [i \in 0 .. n |-> Def(f, i)]
    BY <1>2
  <2> DEFINE last == Def(f, n + 1)
             g == [i \in 0 .. n + 1 |-> IF i <= n THEN f[i] ELSE last]
  <2>0. \A i \in 0 .. n : f[i] = Def(f, i)
    OBVIOUS
  <2>1. \A i \in 0 .. n : g[i] = f[i]
    <3> HIDE DEF last
    <3> QED OBVIOUS
  <2>2. g[n + 1] = last
    <3> HIDE DEF last
    <3> QED OBVIOUS
  <2>3. ASSUME NEW i \in 0 .. n + 1 PROVE g[i] = Def(g, i)
    <3> HIDE DEF g
    <3>1. CASE i <= n
      <4>1. i \in 0 .. n /\ (i = 0 \/ i - 1 \in 0 .. n)
        BY <3>1
      <4> QED BY <2>0, <2>1, <4>1 DEF CatchTurn
    <3>2. CASE i = n + 1
      <4>1. g[n] = f[n] /\ n + 1 # 0 /\ (n + 1) - 1 = n
        BY <2>1
      <4> QED BY <3>2, <2>2, <4>1 DEF CatchTurn
    <3> QED BY <3>1, <3>2
  <2>4. g = [i \in 0 .. n + 1 |-> Def(g, i)]
    BY <2>3
  <2> QED BY <2>4
<1>3. \A n \in Nat : n \in T
  <2>1. 0 \in T /\ \A n \in Nat : n \in T => n + 1 \in T
    <3> HIDE DEF Solved
    <3> QED BY <1>1, <1>2
  <2> HIDE DEF T
  <2> QED BY <2>1, SetInduction
<1>4. Solved(m)
  <2> HIDE DEF Solved
  <2> QED BY <1>3
<1> QED
  BY <1>4

\* What holds of the kernel before the pended ticks, and is kept by each of
\* them, holds after them.
LEMMA CatchUpIn ==
  ASSUME NEW q, NEW P, <<0, q>> \in P,
         \A i \in 0 .. MaxPended - 1 : \A r :
           <<i, r>> \in P => <<i + 1, IncrementTick(r)>> \in P,
         NEW n \in 0 .. MaxPended
  PROVE  <<n, CatchUp(q, n)>> \in P
<1> DEFINE c == CHOOSE f : f = [i \in 0 .. MaxPended |-> CatchTurn(q, f, i)]
           T == {i \in Nat : i <= MaxPended => <<i, c[i]>> \in P}
<1>0. MaxPended \in Nat
  BY Sizes
<1>1. c = [i \in 0 .. MaxPended |-> CatchTurn(q, c, i)]
  <2>1. \E f : f = [i \in 0 .. MaxPended |-> CatchTurn(q, f, i)]
    BY <1>0, CatchSolved
  <2> QED BY <2>1
<1>2. CatchUp(q, n) = c[n]
  BY DEF CatchUp, CatchTurn
<1> HIDE DEF c
<1>3. \A i \in 0 .. MaxPended : c[i] = CatchTurn(q, c, i)
  BY <1>1
<1>4. 0 \in T
  <2>1. c[0] = q
    BY <1>0, <1>3 DEF CatchTurn
  <2> QED BY <2>1
<1>5. ASSUME NEW i \in Nat, i \in T PROVE i + 1 \in T
  <2> SUFFICES ASSUME i + 1 <= MaxPended PROVE <<i + 1, c[i + 1]>> \in P
    OBVIOUS
  <2>1. /\ i \in 0 .. MaxPended - 1 /\ i + 1 \in 0 .. MaxPended /\ i + 1 # 0
        /\ (i + 1) - 1 = i /\ i <= MaxPended
    BY <1>0
  <2>2. c[i + 1] = IncrementTick(c[i])
    BY <1>3, <2>1 DEF CatchTurn
  <2>3. <<i, c[i]>> \in P
    BY <1>5, <2>1
  <2> QED BY <2>1, <2>2, <2>3
<1>6. \A i \in Nat : i \in T
  <2> HIDE DEF T
  <2> QED BY <1>4, <1>5, SetInduction
<1>7. n \in Nat /\ n <= MaxPended
  BY <1>0
<1> QED
  BY <1>2, <1>6, <1>7

-----------------------------------------------------------------------------
(* Blocking. *)

LEMMA SumTicks ==
  ASSUME NEW n \in Ticks, NEW x \in 1 .. portMAX_DELAY
  PROVE  /\ (n + x) % TickRange \in Ticks /\ (n + x) % TickRange # n
         /\ (n + x) % TickRange
              = IF n + x < TickRange THEN n + x ELSE n + x - TickRange
         /\ Until((n + x) % TickRange, n) = x
<1> DEFINE a == (n + x) % TickRange
<1>1. TickRange \in Nat /\ n \in Nat /\ x \in Nat /\ n < TickRange /\ 0 < x /\ x < TickRange
  BY Sizes DEF Ticks
<1>2. a = IF n + x < TickRange THEN n + x ELSE n + x - TickRange
  BY <1>1, SMT
<1> HIDE DEF a
<1>3. a \in Ticks /\ a # n
  BY <1>1, <1>2 DEF Ticks
<1>4. Until(a, n) = IF n <= a THEN a - n ELSE a - n + TickRange
  BY <1>3, UntilIs
<1>5. Until(a, n) = x
  BY <1>1, <1>2, <1>4
<1> QED
  BY <1>2, <1>3, <1>5 DEF a

\* The running task joins a list of delayed tasks, due after the ticks given,
\* or the suspended ones.
LEMMA AddIs ==
  ASSUME NEW q \in KernelType, Sound(q), NEW t \in Tasks,
         NEW ticks \in 1 .. portMAX_DELAY, NEW forever \in BOOLEAN
  PROVE  LET r == AddCurrentTaskToDelayedList(q, t, ticks, forever)
         IN /\ r \in KernelType /\ Sound(r)
            /\ r.tick = q.tick /\ r.ovf = q.ovf /\ r.ev = q.ev
            /\ \A u \in Tasks :
                 u # t => r.list[u] = q.list[u] /\ r.wake[u] = q.wake[u]
            /\ forever => r.list[t] = "suspended"
            /\ ~forever => r.list[t] \in Timed /\ Until(r.wake[t], r.tick) = ticks
<1> DEFINE at == (q.tick + ticks) % TickRange
           r == AddCurrentTaskToDelayedList(q, t, ticks, forever)
           Put(l) == [q EXCEPT !.list = [q.list EXCEPT ![t] = l]]
           Due(l) == [Put(l) EXCEPT !.wake = [q.wake EXCEPT ![t] = at]]
<1>f. /\ q.tick \in Ticks /\ q.next \in Ticks /\ q.list \in [Tasks -> Lists]
      /\ q.wake \in [Tasks -> Ticks]
  BY Fields
<1>1. /\ at \in Ticks /\ at # q.tick
      /\ at = IF q.tick + ticks < TickRange THEN q.tick + ticks ELSE q.tick + ticks - TickRange
  BY <1>f, SumTicks
<1>2. Until(at, q.tick) = ticks
  BY <1>f, SumTicks
<1>3. r = IF forever THEN Put("suspended")
          ELSE IF at < q.tick THEN Due("overflow")
          ELSE [Due("delayed") EXCEPT !.next = IF at < q.next THEN at ELSE q.next]
  BY DEF AddCurrentTaskToDelayedList, KernelType
<1> HIDE DEF at, r
<1>4. ASSUME NEW l \in Lists
      PROVE  /\ Put(l) \in KernelType /\ Put(l).tick = q.tick /\ Put(l).ovf = q.ovf
             /\ Put(l).next = q.next /\ Put(l).ev = q.ev /\ Put(l).wake = q.wake
             /\ Put(l).list[t] = l
             /\ \A u \in Tasks : u # t => Put(l).list[u] = q.list[u]
  <2> DEFINE m == [q.list EXCEPT ![t] = l]
  <2>1. m \in [Tasks -> Lists] /\ m[t] = l /\ \A u \in Tasks : u # t => m[u] = q.list[u]
    BY <1>f
  <2>2. Put(l) = [q EXCEPT !.list = m]
    OBVIOUS
  <2> HIDE DEF m, Put
  <2> QED BY <2>1, <2>2, SetList
<1>5. ASSUME NEW l \in Lists
      PROVE  /\ Due(l) \in KernelType /\ Due(l).tick = q.tick /\ Due(l).ovf = q.ovf
             /\ Due(l).next = q.next /\ Due(l).ev = q.ev
             /\ Due(l).wake[t] = at /\ Due(l).list[t] = l
             /\ \A u \in Tasks :
                  u # t => Due(l).list[u] = q.list[u] /\ Due(l).wake[u] = q.wake[u]
  <2> DEFINE m == [q.wake EXCEPT ![t] = at]
  <2>1. m \in [Tasks -> Ticks] /\ m[t] = at /\ \A u \in Tasks : u # t => m[u] = q.wake[u]
    BY <1>f, <1>1
  <2>2. /\ Put(l) \in KernelType /\ Put(l).tick = q.tick /\ Put(l).ovf = q.ovf
        /\ Put(l).next = q.next /\ Put(l).ev = q.ev
        /\ Put(l).list[t] = l
        /\ \A u \in Tasks : u # t => Put(l).list[u] = q.list[u]
    BY <1>4
  <2>3. Due(l) = [Put(l) EXCEPT !.wake = m]
    OBVIOUS
  <2> HIDE DEF Put, Due, m
  <2> QED BY <2>1, <2>2, <2>3, SetWake
<1> HIDE DEF Put, Due
<1>s. \A u \in Tasks :
        /\ q.list[u] = "delayed"  => q.tick < q.wake[u] /\ q.next <= q.wake[u]
        /\ q.list[u] = "overflow" => q.wake[u] < q.tick
  BY DEF Sound
<1>8. CASE forever
  <2>1. r = Put("suspended") /\ "suspended" \in Lists
    BY <1>3, <1>8 DEF Lists
  <2>2. /\ r \in KernelType /\ r.tick = q.tick /\ r.ovf = q.ovf /\ r.next = q.next
        /\ r.ev = q.ev /\ r.wake = q.wake /\ r.list[t] = "suspended"
        /\ \A u \in Tasks : u # t => r.list[u] = q.list[u]
    BY <2>1, <1>4
  <2>3. Sound(r)
    BY <2>2, <1>s DEF Sound
  <2> QED BY <1>8, <2>2, <2>3 DEF r
<1>9. CASE ~forever /\ at < q.tick
  <2>1. r = Due("overflow") /\ "overflow" \in Lists
    BY <1>3, <1>9 DEF Lists
  <2>2. /\ r \in KernelType /\ r.tick = q.tick /\ r.ovf = q.ovf /\ r.next = q.next
        /\ r.ev = q.ev /\ r.wake[t] = at /\ r.list[t] = "overflow"
        /\ \A u \in Tasks : u # t => r.list[u] = q.list[u] /\ r.wake[u] = q.wake[u]
    BY <2>1, <1>5
  <2>3. Sound(r)
    BY <2>2, <1>s, <1>9 DEF Sound
  <2> QED BY <1>2, <1>9, <2>2, <2>3 DEF r, Timed
<1>10. CASE ~forever /\ ~(at < q.tick)
  <2> DEFINE n == IF at < q.next THEN at ELSE q.next
             d == Due("delayed")
  <2>1. r = [d EXCEPT !.next = n] /\ "delayed" \in Lists
    BY <1>3, <1>10 DEF Lists
  <2>n. n \in Ticks /\ n <= at /\ n <= q.next /\ q.tick < at
    BY <1>1, <1>f, <1>10, SMT DEF Ticks
  <2> HIDE DEF n
  <2>2. /\ d \in KernelType /\ d.tick = q.tick /\ d.ovf = q.ovf
        /\ d.ev = q.ev /\ d.wake[t] = at /\ d.list[t] = "delayed"
        /\ \A u \in Tasks : u # t => d.list[u] = q.list[u] /\ d.wake[u] = q.wake[u]
    BY <2>1, <1>5
  <2> HIDE DEF d
  <2>3. /\ r \in KernelType /\ r.tick = q.tick /\ r.ovf = q.ovf /\ r.next = n
        /\ r.ev = q.ev /\ r.wake[t] = at /\ r.list[t] = "delayed"
        /\ \A u \in Tasks : u # t => r.list[u] = q.list[u] /\ r.wake[u] = q.wake[u]
    BY <2>1, <2>2, <2>n, SetNext
  <2>4. \A u \in Tasks : q.next <= q.wake[u] => n <= q.wake[u]
    BY <2>n, <1>f, SMT DEF Ticks
  <2>5. Sound(r)
    <3> SUFFICES ASSUME NEW u \in Tasks
                 PROVE  /\ r.list[u] = "delayed" => r.tick < r.wake[u] /\ r.next <= r.wake[u]
                        /\ r.list[u] = "overflow" => r.wake[u] < r.tick
      BY DEF Sound
    <3>1. CASE u = t
      BY <3>1, <2>3, <2>n
    <3>2. CASE u # t
      BY <3>2, <2>3, <2>4, <1>s
    <3> QED BY <3>1, <3>2
  <2> QED BY <1>2, <1>10, <2>3, <2>5 DEF r, Timed
<1> QED
  BY <1>8, <1>9, <1>10

\* The same, with a place in an event list.
LEMMA PlaceIs ==
  ASSUME NEW q \in KernelType, Sound(q), NEW t \in Tasks, NEW e \in EventLists,
         NEW ticks \in 1 .. portMAX_DELAY
  PROVE  LET r == PlaceOnEventList(q, t, e, ticks)
         IN /\ r \in KernelType /\ Sound(r)
            /\ r.tick = q.tick /\ r.ovf = q.ovf
            /\ r.ev[e] = Append(q.ev[e], t)
            /\ \A f \in EventLists : f # e => r.ev[f] = q.ev[f]
            /\ \A u \in Tasks :
                 u # t => r.list[u] = q.list[u] /\ r.wake[u] = q.wake[u]
            /\ r.list[t] # "ready"
            /\ r.list[t] \in Timed => ticks # portMAX_DELAY /\ Until(r.wake[t], r.tick) = ticks
<1> DEFINE v == [q.ev EXCEPT ![e] = Append(q.ev[e], t)]
           d == [q EXCEPT !.ev = v]
           forever == ticks = portMAX_DELAY
           r == PlaceOnEventList(q, t, e, ticks)
<1>1. v \in [EventLists -> Seq(Tasks)]
  BY Fields
<1>2. /\ v[e] = Append(q.ev[e], t)
      /\ \A f \in EventLists : f # e => v[f] = q.ev[f]
  BY Fields
<1>3. r = AddCurrentTaskToDelayedList(d, t, ticks, forever)
  BY DEF PlaceOnEventList, KernelType
<1> HIDE DEF v
<1>4. /\ d \in KernelType /\ d.tick = q.tick /\ d.ovf = q.ovf /\ d.next = q.next
      /\ d.list = q.list /\ d.wake = q.wake /\ d.ev = v
  BY <1>1, SetEv
<1>5. Sound(d)
  BY <1>4 DEF Sound
<1> HIDE DEF d, r, forever
<1>6. forever \in BOOLEAN
  BY DEF forever
<1>7. /\ r \in KernelType /\ Sound(r)
      /\ r.tick = d.tick /\ r.ovf = d.ovf /\ r.ev = d.ev
      /\ \A u \in Tasks :
           u # t => r.list[u] = d.list[u] /\ r.wake[u] = d.wake[u]
      /\ forever => r.list[t] = "suspended"
      /\ ~forever => r.list[t] \in Timed /\ Until(r.wake[t], r.tick) = ticks
  BY <1>3, <1>4, <1>5, <1>6, AddIs
<1>8. r.list[t] # "ready" /\ (r.list[t] \in Timed => ~forever)
  BY <1>7 DEF Timed
<1> QED
  BY <1>2, <1>4, <1>7, <1>8 DEF r, forever

-----------------------------------------------------------------------------
(* Waking. *)

LEMMA FirstOnes ==
  ASSUME NEW s \in Seq(Tasks), Once(s), NEW m \in 0 .. Len(s)
  PROVE  LET W == {s[i] : i \in 1 .. m}
             r == SubSeq(s, m + 1, Len(s))
         IN /\ IsFiniteSet(W) /\ Cardinality(W) = m /\ W \in SUBSET Tasks
            /\ W \subseteq Members(s)
            /\ r \in Seq(Tasks) /\ Len(r) = Len(s) - m /\ Once(r)
            /\ Members(r) = Members(s) \ W
<1> DEFINE W == {s[i] : i \in 1 .. m}
           r == SubSeq(s, m + 1, Len(s))
           f == [i \in 1 .. m |-> s[i]]
<1>0. Len(s) \in Nat /\ m \in Nat /\ m <= Len(s)
  OBVIOUS
<1>1. f \in Bijection(1 .. m, W)
  <2>1. f \in Injection(1 .. m, W)
    BY <1>0 DEF Injection, IsInjective, Once
  <2>2. \A x \in W : \E i \in 1 .. m : f[i] = x
    OBVIOUS
  <2> QED BY <2>1, <2>2 DEF Bijection, Surjection, Injection
<1>2. IsFiniteSet(1 .. m) /\ Cardinality(1 .. m) = m
  BY <1>0, FS_Interval
<1>3. IsFiniteSet(W) /\ Cardinality(W) = m
  <2> HIDE DEF W, f
  <2> QED BY <1>1, <1>2, FS_Bijection DEF ExistsBijection
<1>4. W \in SUBSET Tasks /\ W \subseteq Members(s)
  BY <1>0 DEF Members
<1>5. /\ r \in Seq(Tasks) /\ Len(r) = Len(s) - m
      /\ \A i \in 1 .. Len(s) - m : r[i] = s[m + i]
  BY <1>0
<1> HIDE DEF r
<1>6. Once(r)
  <2> SUFFICES ASSUME NEW i \in 1 .. Len(r), NEW j \in 1 .. Len(r), r[i] = r[j]
               PROVE  i = j
    BY DEF Once
  <2>1. /\ m + i \in 1 .. Len(s) /\ m + j \in 1 .. Len(s)
        /\ r[i] = s[m + i] /\ r[j] = s[m + j] /\ (m + i = m + j => i = j)
    BY <1>0, <1>5
  <2> QED BY <2>1 DEF Once
<1>7. \A x : x \in Members(r) <=> x \in Members(s) /\ x \notin W
  <2> TAKE x
  <2>1. ASSUME x \in Members(r) PROVE x \in Members(s) /\ x \notin W
    <3> PICK i \in 1 .. Len(r) : x = r[i]
      BY <2>1 DEF Members
    <3>1. m + i \in 1 .. Len(s) /\ x = s[m + i]
      BY <1>0, <1>5
    <3>2. \A j \in 1 .. m : s[j] # s[m + i]
      <4> SUFFICES ASSUME NEW j \in 1 .. m, s[j] = s[m + i] PROVE FALSE
        OBVIOUS
      <4>1. j \in 1 .. Len(s) /\ j # m + i
        BY <1>0, <1>5
      <4> QED BY <4>1, <3>1 DEF Once
    <3> QED BY <3>1, <3>2 DEF Members
  <2>2. ASSUME x \in Members(s), x \notin W PROVE x \in Members(r)
    <3> PICK i \in 1 .. Len(s) : x = s[i]
      BY <2>2 DEF Members
    <3>1. i - m \in 1 .. Len(r) /\ r[i - m] = x
      <4>1. ~(i \in 1 .. m)
        BY <2>2
      <4>2. i - m \in 1 .. Len(s) - m /\ m + (i - m) = i
        BY <4>1, <1>0
      <4> QED BY <4>2, <1>5
    <3> QED BY <3>1 DEF Members
  <2> QED BY <2>1, <2>2
<1>8. Members(r) = Members(s) \ W
  <2> HIDE DEF W
  <2> QED BY <1>7
<1> QED
  BY <1>3, <1>4, <1>5, <1>6, <1>8 DEF r

\* What xTaskRemoveFromEventList, called for the first n waiting tasks, does
\* to the tasks W it wakes.
Removed(e, n, W) ==
  /\ W \in SUBSET Tasks /\ W \subseteq Members(k.ev[e]) /\ IsFiniteSet(W)
  /\ k'.ev[e] # << >> => Cardinality(W) = n
  /\ k' \in KernelType /\ k'.tick = k.tick /\ k'.ovf = k.ovf /\ k'.next = k.next
  /\ Members(k'.ev[e]) = Members(k.ev[e]) \ W /\ Once(k'.ev[e])
  /\ \A f \in EventLists : f # e => k'.ev[f] = k.ev[f]
  /\ suspender = NoTask =>
       /\ pendingReady' = pendingReady
       /\ \A t \in Tasks : /\ t \in W => k'.list[t] = "ready"
                           /\ t \notin W => k'.list[t] = k.list[t] /\ k'.wake[t] = k.wake[t]
  /\ suspender # NoTask =>
       pendingReady' = pendingReady \cup W /\ k'.list = k.list /\ k'.wake = k.wake

LEMMA RemoveIs ==
  ASSUME k \in KernelType, NEW e \in EventLists, Once(k.ev[e]), NEW n \in Nat,
         RemoveFromEventList(e, n)
  PROVE  \E W : Removed(e, n, W)
<1> DEFINE s == k.ev[e]
           m == IF n < Len(s) THEN n ELSE Len(s)
           W == Woken(e, n)
           r == SubSeq(s, m + 1, Len(s))
           v == [k.ev EXCEPT ![e] = r]
           q == [k EXCEPT !.ev = v]
<1>1. s \in Seq(Tasks) /\ k.ev \in [EventLists -> Seq(Tasks)]
  BY Fields
<1>2. m \in 0 .. Len(s) /\ W = {s[i] : i \in 1 .. m}
  <2>1. Len(s) \in Nat
    BY <1>1
  <2> QED BY <2>1 DEF Woken
<1> HIDE DEF m, W
<1>3. /\ IsFiniteSet(W) /\ Cardinality(W) = m /\ W \in SUBSET Tasks
      /\ W \subseteq Members(s)
      /\ r \in Seq(Tasks) /\ Len(r) = Len(s) - m /\ Once(r)
      /\ Members(r) = Members(s) \ W
  <2> HIDE DEF s
  <2> QED BY <1>1, <1>2, FirstOnes DEF s
<1>4. [k EXCEPT !.ev[e] = SubSeq(@, Cardinality(W) + 1, Len(@))] = q
  BY <1>3 DEF KernelType
<1>5. r # << >> => m = n
  <2>1. Len(s) \in Nat
    BY <1>1
  <2>2. Len(r) # 0 => m = n
    BY <2>1, <1>3 DEF m
  <2>3. r # << >> => Len(r) # 0
    <3> HIDE DEF r
    <3> QED BY <1>3
  <2> QED BY <2>2, <2>3
<1> HIDE DEF r
<1>6. v \in [EventLists -> Seq(Tasks)] /\ v[e] = r
      /\ \A f \in EventLists : f # e => v[f] = k.ev[f]
  BY <1>1, <1>3
<1> HIDE DEF v
<1>7. /\ q \in KernelType /\ q.tick = k.tick /\ q.ovf = k.ovf /\ q.next = k.next
      /\ q.list = k.list /\ q.wake = k.wake /\ q.ev = v
  BY <1>6, SetEv
<1>8. IF suspender = NoTask THEN k' = Ready(q, W) /\ UNCHANGED pendingReady
      ELSE k' = q /\ pendingReady' = pendingReady \cup W
  BY <1>4 DEF RemoveFromEventList, W
<1> HIDE DEF q
<1>9. CASE suspender = NoTask
  <2>1. /\ k' \in KernelType /\ k'.tick = k.tick /\ k'.ovf = k.ovf /\ k'.next = k.next
        /\ k'.ev = v /\ pendingReady' = pendingReady
        /\ \A t \in Tasks : /\ t \in W => k'.list[t] = "ready"
                            /\ t \notin W => k'.list[t] = k.list[t] /\ k'.wake[t] = k.wake[t]
    BY <1>7, <1>8, <1>9, ReadyIs
  <2>2. Removed(e, n, W)
    BY <2>1, <1>3, <1>5, <1>6, <1>9 DEF Removed, s
  <2> QED BY <2>2
<1>10. CASE suspender # NoTask
  <2>1. k' = q /\ pendingReady' = pendingReady \cup W
    BY <1>8, <1>10
  <2>2. Removed(e, n, W)
    BY <2>1, <1>3, <1>5, <1>6, <1>7, <1>10 DEF Removed, s
  <2> QED BY <2>2
<1> QED BY <1>9, <1>10

LEMMA RemovedSound ==
  ASSUME NEW e, NEW n, NEW W, Removed(e, n, W), Sound(k)
  PROVE  Sound(k')
<1> SUFFICES ASSUME NEW t \in Tasks
             PROVE  /\ k'.list[t] = "delayed" => k'.tick < k'.wake[t] /\ k'.next <= k'.wake[t]
                    /\ k'.list[t] = "overflow" => k'.wake[t] < k'.tick
  BY DEF Sound
<1>1. k'.list[t] = "ready" \/ (k'.list[t] = k.list[t] /\ k'.wake[t] = k.wake[t])
  BY DEF Removed
<1> QED BY <1>1 DEF Removed, Sound

-----------------------------------------------------------------------------
(* The lock: who has the scheduler suspended, and what has come meanwhile. *)

Locked == {"check", "place", "unlock"}
Suspended == Locked \cup {"resume"}
Blocking == {"lock", "check", "place"}

\* While a task has the scheduler suspended nobody else runs, the ticks and
\* the woken tasks wait for it, and the queue is locked until it unlocks it.
LockInv ==
  /\ suspender = NoTask => xPendedTicks = 0 /\ pendingReady = {}
  /\ \A t \in Tasks : suspender = t <=> pc[t] \in Suspended
  /\ cTxLock # queueUNLOCKED <=> \E t \in Tasks : pc[t] \in Locked
  /\ cTxLock <= uxMessagesWaiting
  /\ \A t \in Tasks : age[t] + xPendedTicks <= MaxAge
  /\ \A t \in Tasks : pc[t] \in Blocking => call[t].xTicksToWait > 0

\* The event lists of a kernel record: nobody waits twice, fetching tasks wait
\* to receive and posting ones to send, and whoever waits is not ready.
Waiting(q) ==
  /\ \A e \in EventLists : Once(q.ev[e])
  /\ \A t \in Tasks :
       /\ t \in Members(q.ev["receive"]) => call[t].op = "fetch"
       /\ t \in Members(q.ev["send"]) => call[t].op = "post"
       /\ \A e \in EventLists : t \in Members(q.ev[e]) => q.list[t] # "ready"

\* A woken task that waits for the scheduler has left its event list, and a
\* task about to block is in none.
EventInv ==
  /\ Waiting(k)
  /\ \A t \in pendingReady :
       /\ k.list[t] # "ready"
       /\ \A e \in EventLists : t \notin Members(k.ev[e])
  /\ \A t \in Tasks : pc[t] \in {"check", "place"} => k.list[t] = "ready"

\* The calls: only a poster posts, and then not at all or for ever; a timed
\* call knows when it began before it may block, and has no time left once
\* its time is up.
CallOk(t, p, c) ==
  /\ c.op = "post" => t \in Posters /\ ~c.expired /\ c.asked \in {0, portMAX_DELAY}
  /\ c.xTicksToWait <= c.asked
  /\ c.asked = portMAX_DELAY => c.xTicksToWait = portMAX_DELAY
  /\ c.expired => c.xTicksToWait = 0
  /\ p = "idle" => c.op = "none"
  /\ p \in {"try", "unlock"} \cup Blocking => c.op \in {"fetch", "post"}
  /\ p = "resume" => c.op # "none"
  /\ p = "recheck" => c.op # "post"
  /\ p \in Blocking /\ c.asked # portMAX_DELAY => c.entrySet /\ ~c.expired

CallInv == \A t \in Tasks : CallOk(t, pc[t], call[t])

\* The inductive invariant behind QueueInv.
HeldInv == TypeOK /\ Sound(k) /\ LockInv /\ EventInv

-----------------------------------------------------------------------------
(* The records of the calls. *)

LEMMA CallFields ==
  ASSUME NEW c \in Calls
  PROVE  /\ c.op \in {"none", "fetch", "post", "sleep"}
         /\ c.asked \in Ticks /\ c.xTicksToWait \in Ticks /\ c.onEntering \in Ticks
         /\ c.entrySet \in BOOLEAN /\ c.ovf \in 0 .. OverflowRange - 1
         /\ c.expired \in BOOLEAN
BY DEF Calls, portMAX_DELAY, Ticks

LEMMA NoCallIs ==
  /\ NoCall \in Calls /\ NoCall.op = "none" /\ NoCall.asked = 0
  /\ NoCall.xTicksToWait = 0 /\ NoCall.entrySet = FALSE /\ NoCall.expired = FALSE
BY Sizes DEF NoCall, Calls, Ticks

LEMMA BeginIs ==
  ASSUME NEW op \in {"fetch", "post"}, NEW ticks \in Ticks
  PROVE  LET c == [NoCall EXCEPT !.op = op, !.asked = ticks, !.xTicksToWait = ticks]
         IN /\ c \in Calls /\ c.op = op /\ c.asked = ticks /\ c.xTicksToWait = ticks
            /\ c.entrySet = FALSE /\ c.expired = FALSE
<1> DEFINE c == [NoCall EXCEPT !.op = op, !.asked = ticks, !.xTicksToWait = ticks]
<1>1. ticks \in 0 .. portMAX_DELAY
  BY Sizes DEF Ticks
<1>2. /\ c \in Calls /\ c.op = op /\ c.asked = ticks /\ c.xTicksToWait = ticks
      /\ c.entrySet = FALSE /\ c.expired = FALSE
  BY <1>1, NoCallIs DEF Calls
<1> QED BY <1>2

LEMMA SleepIs ==
  ASSUME NEW ticks \in Ticks
  PROVE  LET c == [NoCall EXCEPT !.op = "sleep", !.asked = ticks]
         IN /\ c \in Calls /\ c.op = "sleep" /\ c.asked = ticks /\ c.xTicksToWait = 0
            /\ c.entrySet = FALSE /\ c.expired = FALSE
<1> DEFINE c == [NoCall EXCEPT !.op = "sleep", !.asked = ticks]
<1>1. ticks \in 0 .. portMAX_DELAY
  BY Sizes DEF Ticks
<1>2. /\ c \in Calls /\ c.op = "sleep" /\ c.asked = ticks /\ c.xTicksToWait = 0
      /\ c.entrySet = FALSE /\ c.expired = FALSE
  BY <1>1, NoCallIs DEF Calls
<1> QED BY <1>2

LEMMA NoteIs ==
  ASSUME NEW c \in Calls, k \in KernelType
  PROVE  LET d == TimeOutState([c EXCEPT !.entrySet = TRUE])
         IN /\ d \in Calls /\ d.op = c.op /\ d.asked = c.asked
            /\ d.xTicksToWait = c.xTicksToWait /\ d.entrySet = TRUE
            /\ d.onEntering = k.tick /\ d.ovf = k.ovf /\ d.expired = c.expired
<1>1. k.tick \in 0 .. TickRange - 1 /\ k.ovf \in 0 .. OverflowRange - 1
  BY DEF KernelType
<1> QED BY <1>1 DEF Calls, TimeOutState

\* xTaskCheckForTimeOut: for ever, expired, or the time that is left.
LEMMA CheckIs ==
  ASSUME NEW c \in Calls, k \in KernelType
  PROVE  LET d == CheckForTimeOut(c)
             elapsed == Until(k.tick, c.onEntering)
             up == \/ k.ovf # c.ovf /\ k.tick >= c.onEntering
                   \/ elapsed >= c.xTicksToWait
         IN /\ d \in Calls /\ d.op = c.op /\ d.asked = c.asked
            /\ d.entrySet = c.entrySet
            /\ c.xTicksToWait = portMAX_DELAY =>
                 /\ d.expired = FALSE /\ d.xTicksToWait = c.xTicksToWait
                 /\ d.onEntering = c.onEntering /\ d.ovf = c.ovf
            /\ c.xTicksToWait # portMAX_DELAY /\ up =>
                 d.expired = TRUE /\ d.xTicksToWait = 0
            /\ c.xTicksToWait # portMAX_DELAY /\ ~up =>
                 /\ d.expired = FALSE /\ d.xTicksToWait = c.xTicksToWait - elapsed
                 /\ d.xTicksToWait > 0
                 /\ d.onEntering = k.tick /\ d.ovf = k.ovf
<1> DEFINE d == CheckForTimeOut(c)
           elapsed == Until(k.tick, c.onEntering)
           up == \/ k.ovf # c.ovf /\ k.tick >= c.onEntering
                 \/ elapsed >= c.xTicksToWait
<1>1. k.tick \in Ticks /\ k.ovf \in 0 .. OverflowRange - 1
  BY Fields
<1>2. /\ c.xTicksToWait \in Ticks /\ c.onEntering \in Ticks
  BY CallFields
<1>3. elapsed \in Nat
  <2>1. elapsed = IF c.onEntering <= k.tick THEN k.tick - c.onEntering
                  ELSE k.tick - c.onEntering + TickRange
    BY <1>1, <1>2, UntilIs
  <2> HIDE DEF elapsed
  <2> QED BY <2>1, <1>1, <1>2, Sizes, SMT DEF Ticks
<1>d. d = CASE c.xTicksToWait = portMAX_DELAY -> [c EXCEPT !.expired = FALSE]
            [] c.xTicksToWait # portMAX_DELAY /\ up
                 -> [c EXCEPT !.expired = TRUE, !.xTicksToWait = 0]
            [] OTHER
                 -> TimeOutState([c EXCEPT !.expired = FALSE, !.xTicksToWait = @ - elapsed])
  BY DEF CheckForTimeOut, Until
<1> HIDE DEF elapsed, d
<1>4. CASE c.xTicksToWait = portMAX_DELAY
  <2>1. d = [c EXCEPT !.expired = FALSE]
    BY <1>d, <1>4
  <2>2. /\ d \in Calls /\ d.op = c.op /\ d.asked = c.asked /\ d.entrySet = c.entrySet
        /\ d.expired = FALSE /\ d.xTicksToWait = c.xTicksToWait
        /\ d.onEntering = c.onEntering /\ d.ovf = c.ovf
    BY <2>1 DEF Calls
  <2> QED BY <2>2, <1>4 DEF d, elapsed
<1>5. CASE c.xTicksToWait # portMAX_DELAY /\ up
  <2>1. d = [c EXCEPT !.expired = TRUE, !.xTicksToWait = 0]
    BY <1>d, <1>5
  <2>2. /\ d \in Calls /\ d.op = c.op /\ d.asked = c.asked /\ d.entrySet = c.entrySet
        /\ d.expired = TRUE /\ d.xTicksToWait = 0
    BY <2>1, Sizes DEF Calls, Ticks
  <2> QED BY <2>2, <1>5 DEF d, elapsed
<1>6. CASE c.xTicksToWait # portMAX_DELAY /\ ~up
  <2> DEFINE left == c.xTicksToWait - elapsed
             b == [c EXCEPT !.expired = FALSE, !.xTicksToWait = left]
  <2>0. d = TimeOutState([c EXCEPT !.expired = FALSE, !.xTicksToWait = @ - elapsed])
    BY <1>d, <1>6
  <2>a. [c EXCEPT !.expired = FALSE, !.xTicksToWait = @ - elapsed] = b
    BY DEF Calls
  <2>1. d = TimeOutState(b)
    BY <2>0, <2>a
  <2>2. left \in Ticks /\ left > 0
    <3>1. ~(elapsed >= c.xTicksToWait)
      BY <1>6
    <3> QED BY <3>1, <1>2, <1>3, Sizes, SMT DEF Ticks
  <2>3. left \in 0 .. portMAX_DELAY
    BY <2>2, Sizes DEF Ticks
  <2> HIDE DEF left
  <2>4. /\ b \in Calls /\ b.op = c.op /\ b.asked = c.asked /\ b.entrySet = c.entrySet
        /\ b.expired = FALSE /\ b.xTicksToWait = left
    BY <2>3 DEF Calls
  <2> HIDE DEF b
  <2>5. /\ d \in Calls /\ d.op = b.op /\ d.asked = b.asked /\ d.entrySet = b.entrySet
        /\ d.expired = b.expired /\ d.xTicksToWait = b.xTicksToWait
        /\ d.onEntering = k.tick /\ d.ovf = k.ovf
    BY <2>1, <2>4, <1>1 DEF Calls, TimeOutState, Ticks
  <2> QED BY <2>2, <2>4, <2>5, <1>6 DEF d, elapsed, left
<1> QED BY <1>4, <1>5, <1>6

-----------------------------------------------------------------------------
(* Who runs. *)

\* A task that has not suspended the scheduler runs while nobody has.
LEMMA FreeRun ==
  ASSUME HeldInv, NEW t \in Tasks, CanRun(t), pc[t] \notin Suspended
  PROVE  /\ suspender = NoTask /\ k.list[t] = "ready" /\ xPendedTicks = 0
         /\ pendingReady = {} /\ cTxLock = queueUNLOCKED
         /\ \A u \in Tasks : pc[u] \notin Suspended
         /\ \A e \in EventLists : t \notin Members(k.ev[e])
<1>1. suspender = NoTask /\ k.list[t] = "ready"
  BY DEF HeldInv, LockInv, CanRun
<1>2. \A u \in Tasks : pc[u] \notin Suspended /\ pc[u] \notin Locked
  BY <1>1, Sizes DEF HeldInv, LockInv, Suspended
<1> QED
  BY <1>1, <1>2 DEF HeldInv, LockInv, EventInv, Waiting

\* One that has is the only one to run.
LEMMA HeldRun ==
  ASSUME HeldInv, NEW t \in Tasks, pc[t] \in Suspended
  PROVE  /\ suspender = t /\ suspender # NoTask
         /\ \A u \in Tasks : u # t => pc[u] \notin Suspended /\ pc[u] \notin Locked
  BY Sizes DEF HeldInv, LockInv, Suspended

\* A step that only moves one free task on keeps the lock and the lists.
LEMMA PlainStep ==
  ASSUME HeldInv, NEW t \in Tasks, CanRun(t), pc[t] \notin Suspended,
         NEW x, x \notin Suspended, pc' = [pc EXCEPT ![t] = x],
         NEW c, call' = [call EXCEPT ![t] = c], x = "lock" => c.xTicksToWait > 0,
         age' = age \/ \E a \in {-1, 0} : age' = [age EXCEPT ![t] = a],
         UNCHANGED <<k, xPendedTicks, suspender, pendingReady, queueVars>>
  PROVE  Sound(k)' /\ LockInv' /\ EventInv'
<1>1. /\ suspender = NoTask /\ k.list[t] = "ready" /\ xPendedTicks = 0
      /\ pendingReady = {} /\ cTxLock = queueUNLOCKED
      /\ \A u \in Tasks : pc[u] \notin Suspended
      /\ \A e \in EventLists : t \notin Members(k.ev[e])
  BY FreeRun
<1>2. pc \in [Tasks -> {"idle", "try", "lock", "check", "place", "unlock", "resume",
                        "recheck"}]
      /\ call \in [Tasks -> Calls] /\ age \in [Tasks -> -1 .. MaxAge]
  BY DEF HeldInv, TypeOK, KernelTypeOK
<1>3. /\ pc'[t] = x /\ call'[t] = c
      /\ \A u \in Tasks : u # t => pc'[u] = pc[u] /\ call'[u] = call[u]
  BY <1>2
<1>4. \A u \in Tasks : pc'[u] \notin Suspended
  BY <1>1, <1>3
<1>5. Sound(k)'
  BY DEF HeldInv, Sound
<1>6. LockInv'
  <2>1. \A u \in Tasks : age'[u] + xPendedTicks' <= MaxAge
    <3>1. \A u \in Tasks : age'[u] = age[u] \/ age'[u] \in {-1, 0}
      BY <1>2
    <3>2. MaxAge \in Nat
      BY Sizes DEF MaxAge
    <3>3. \A u \in Tasks : age[u] + 0 <= MaxAge
      BY <1>1 DEF HeldInv, LockInv
    <3> QED BY <1>1, <3>1, <3>2, <3>3
  <2>2. \A u \in Tasks : pc'[u] \in Blocking => call'[u].xTicksToWait > 0
    <3>1. x \in Blocking => x = "lock"
      BY DEF Blocking, Suspended, Locked
    <3> QED BY <1>3, <3>1 DEF HeldInv, LockInv
  <2>3. \A u \in Tasks : pc'[u] \notin Locked
    BY <1>4 DEF Suspended
  <2>4. \A u \in Tasks : suspender' # u
    BY <1>1, Sizes
  <2>5. cTxLock' <= uxMessagesWaiting'
    BY DEF HeldInv, LockInv, queueVars
  <2> QED
    BY <1>1, <1>4, <2>1, <2>2, <2>3, <2>4, <2>5 DEF LockInv, queueVars
<1>7. EventInv'
  <2>1. Waiting(k)'
    <3>1. \A u \in Tasks : \A e \in EventLists :
            u \in Members(k.ev[e]) => call'[u] = call[u]
      BY <1>1, <1>3
    <3>2. "receive" \in EventLists /\ "send" \in EventLists
      BY DEF EventLists
    <3> QED
      BY <3>1, <3>2 DEF HeldInv, EventInv, Waiting
  <2>2. \A u \in Tasks : pc'[u] \notin {"check", "place"}
    BY <1>4 DEF Suspended, Locked
  <2> QED
    BY <1>1, <2>1, <2>2 DEF EventInv
<1> QED
  BY <1>5, <1>6, <1>7

-----------------------------------------------------------------------------
(* The steps. *)

Programs == {"idle", "try", "lock", "check", "place", "unlock", "resume", "recheck"}
Results == Messages \cup {NoMsg, Refused, TimedOut}

LEMMA Types ==
  ASSUME HeldInv
  PROVE  /\ k \in KernelType /\ xPendedTicks \in 0 .. MaxPended
         /\ suspender \in Tasks \cup {NoTask} /\ pendingReady \subseteq Tasks
         /\ age \in [Tasks -> -1 .. MaxAge] /\ MaxAge \in Nat \ {0}
         /\ buf \in [0 .. Length - 1 -> Messages \cup {NoMsg}]
         /\ pcWriteTo \in 0 .. Length - 1 /\ pcReadFrom \in 0 .. Length - 1
         /\ uxMessagesWaiting \in 0 .. Length /\ cTxLock \in -1 .. Length
         /\ pc \in [Tasks -> Programs] /\ call \in [Tasks -> Calls]
         /\ got \in [Tasks -> Results] /\ Length \in Nat \ {0}
  BY Sizes, QueueAssumption DEF HeldInv, TypeOK, KernelTypeOK, Programs, Results, MaxAge

\* Back to the caller.
LEMMA ReturnStep ==
  ASSUME HeldInv, NEW t \in Tasks, Return(t)
  PROVE  /\ pc' \in [Tasks -> Programs] /\ call' \in [Tasks -> Calls]
         /\ age' \in [Tasks -> -1 .. MaxAge]
  BY Types, NoCallIs DEF Return, Programs

LEMMA BeginStep ==
  ASSUME HeldInv, NEW t \in Tasks, NEW op \in {"fetch", "post"}, NEW ticks \in Ticks,
         Begin(t, op, ticks)
  PROVE  HeldInv'
<1> DEFINE c == [NoCall EXCEPT !.op = op, !.asked = ticks, !.xTicksToWait = ticks]
<1>1. c \in Calls
  BY BeginIs
<1>2. /\ CanRun(t) /\ pc[t] = "idle" /\ pc' = [pc EXCEPT ![t] = "try"]
      /\ call' = [call EXCEPT ![t] = c] /\ got' = [got EXCEPT ![t] = NoMsg]
      /\ UNCHANGED <<kernelVars, queueVars>>
  BY DEF Begin, Goto
<1> HIDE DEF c
<1>3. TypeOK'
  <2>1. pc' \in [Tasks -> Programs] /\ call' \in [Tasks -> Calls] /\ got' \in [Tasks -> Results]
    BY <1>1, <1>2, Types DEF Programs, Results
  <2> QED
    BY <1>2, <2>1, Types DEF TypeOK, KernelTypeOK, kernelVars, queueVars, Programs, Results
<1>4. Sound(k)' /\ LockInv' /\ EventInv'
  <2>1. "idle" \notin Suspended /\ "try" \notin Suspended /\ "try" # "lock"
    BY DEF Suspended, Locked
  <2> QED BY <1>2, <2>1, PlainStep DEF kernelVars
<1> QED BY <1>3, <1>4 DEF HeldInv

\* Nobody waits on both event lists.
LEMMA OneList ==
  ASSUME HeldInv, NEW u \in Tasks, NEW e \in EventLists, NEW f \in EventLists,
         u \in Members(k.ev[e]), u \in Members(k.ev[f])
  PROVE  e = f
  BY DEF HeldInv, EventInv, Waiting, EventLists

\* Waking tasks keeps the shape of the event lists.
LEMMA RemovedEvents ==
  ASSUME HeldInv, NEW e \in EventLists, NEW n, NEW W, Removed(e, n, W),
         \A u \in Tasks : (\E f \in EventLists : u \in Members(k.ev[f])) => call'[u].op = call[u].op
  PROVE  /\ Waiting(k)'
         /\ \A u \in pendingReady' :
              /\ k'.list[u] # "ready"
              /\ \A f \in EventLists : u \notin Members(k'.ev[f])
         /\ \A u \in Tasks : k.list[u] = "ready" => k'.list[u] = "ready"
         /\ pendingReady' \subseteq Tasks
<1>1. \A f \in EventLists : /\ Members(k'.ev[f]) \subseteq Members(k.ev[f])
                            /\ Once(k'.ev[f])
                            /\ f = e => Members(k'.ev[f]) = Members(k.ev[f]) \ W
  BY DEF Removed, HeldInv, EventInv, Waiting
<1>2. \A u \in W : u \in Tasks /\ u \in Members(k.ev[e])
  BY DEF Removed
<1>3. \A u \in W : \A f \in EventLists : u \notin Members(k'.ev[f])
  <2> SUFFICES ASSUME NEW u \in W, NEW f \in EventLists, u \in Members(k'.ev[f]) PROVE FALSE
    OBVIOUS
  <2>1. u \in Members(k.ev[f]) /\ u \in Members(k.ev[e])
    BY <1>1, <1>2
  <2>2. f = e
    BY <2>1, <1>2, OneList
  <2> QED BY <2>2, <1>1
<1>4. \A u \in Tasks : u \notin W => k'.list[u] = k.list[u]
  BY DEF Removed
<1>5. \A u \in Tasks : k.list[u] = "ready" => k'.list[u] = "ready"
  BY <1>4 DEF Removed
<1>6. Waiting(k)'
  <2>1. "receive" \in EventLists /\ "send" \in EventLists
    BY DEF EventLists
  <2>2. ASSUME NEW u \in Tasks, NEW f \in EventLists, u \in Members(k'.ev[f])
        PROVE  u \in Members(k.ev[f]) /\ k'.list[u] # "ready" /\ call'[u].op = call[u].op
    <3>1. u \in Members(k.ev[f]) /\ u \notin W
      BY <2>2, <1>1, <1>3
    <3>2. k.list[u] # "ready"
      BY <3>1 DEF HeldInv, EventInv, Waiting
    <3> QED BY <3>1, <3>2, <1>4
  <2>3. \A u \in Tasks : /\ u \in Members(k'.ev["receive"]) => call'[u].op = "fetch"
                         /\ u \in Members(k'.ev["send"]) => call'[u].op = "post"
    BY <2>1, <2>2 DEF HeldInv, EventInv, Waiting
  <2> QED BY <1>1, <2>2, <2>3 DEF Waiting
<1>7. ASSUME NEW u \in pendingReady'
      PROVE  /\ u \in Tasks /\ k'.list[u] # "ready"
             /\ \A f \in EventLists : u \notin Members(k'.ev[f])
  <2>1. CASE suspender = NoTask
    BY <2>1, <1>7 DEF Removed, HeldInv, LockInv
  <2>2. CASE suspender # NoTask
    <3>1. (u \in pendingReady \/ u \in W) /\ k'.list = k.list
      BY <2>2, <1>7 DEF Removed
    <3>2. CASE u \in pendingReady
      <4>1. u \in Tasks /\ k.list[u] # "ready" /\ \A f \in EventLists : u \notin Members(k.ev[f])
        BY <3>2, Types DEF HeldInv, EventInv
      <4> QED BY <4>1, <3>1, <1>1
    <3>3. CASE u \in W
      <4>1. u \in Tasks /\ k.list[u] # "ready"
        BY <3>3, <1>2 DEF HeldInv, EventInv, Waiting
      <4> QED BY <4>1, <3>1, <3>3, <1>3
    <3> QED BY <3>1, <3>2, <3>3
  <2> QED BY <2>1, <2>2
<1> QED
  BY <1>5, <1>6, <1>7

LEMMA CopyToStep ==
  ASSUME HeldInv, NEW m \in Messages, CopyDataToQueue(m), ~Full
  PROVE  /\ buf' \in [0 .. Length - 1 -> Messages \cup {NoMsg}]
         /\ pcWriteTo' \in 0 .. Length - 1 /\ pcReadFrom' \in 0 .. Length - 1
         /\ uxMessagesWaiting' \in 0 .. Length
         /\ uxMessagesWaiting' = uxMessagesWaiting + 1
<1>1. pcWriteTo' \in 0 .. Length - 1
  BY Types, SMT DEF CopyDataToQueue
<1>2. uxMessagesWaiting' \in 0 .. Length
  BY Types, SMT DEF CopyDataToQueue, Full
<1> QED
  BY <1>1, <1>2, Types DEF CopyDataToQueue

LEMMA CopyFromStep ==
  ASSUME HeldInv, NEW t \in Tasks, CopyDataFromQueue(t), ~Empty
  PROVE  /\ buf' \in [0 .. Length - 1 -> Messages \cup {NoMsg}]
         /\ pcWriteTo' \in 0 .. Length - 1 /\ pcReadFrom' \in 0 .. Length - 1
         /\ uxMessagesWaiting' \in 0 .. Length
         /\ uxMessagesWaiting' = uxMessagesWaiting - 1
         /\ got' \in [Tasks -> Results]
<1> DEFINE slot == (pcReadFrom + 1) % Length
<1>1. slot \in 0 .. Length - 1
  BY Types, SMT
<1>2. uxMessagesWaiting' \in 0 .. Length
  BY Types, SMT DEF CopyDataFromQueue, Empty
<1>3. pcReadFrom' = slot /\ got' = [got EXCEPT ![t] = buf[slot]]
  BY DEF CopyDataFromQueue
<1> HIDE DEF slot
<1>4. buf[slot] \in Results
  BY <1>1, Types DEF Results
<1> QED
  BY <1>1, <1>2, <1>3, <1>4, Types DEF CopyDataFromQueue

LEMMA TransferStep ==
  ASSUME HeldInv, CallInv, NEW t \in Tasks, Transfer(t)
  PROVE  HeldInv'
<1>1. CanRun(t) /\ pc[t] = "try" /\ Return(t) /\ UNCHANGED <<xPendedTicks, suspender, cTxLock>>
  BY DEF Transfer
<1>2. pc[t] \notin Suspended
  BY <1>1 DEF Suspended, Locked
<1>3. /\ suspender = NoTask /\ k.list[t] = "ready" /\ xPendedTicks = 0
      /\ pendingReady = {} /\ cTxLock = queueUNLOCKED
      /\ \A u \in Tasks : pc[u] \notin Suspended
      /\ \A e \in EventLists : t \notin Members(k.ev[e])
  BY <1>1, <1>2, FreeRun
<1>4. /\ pc' \in [Tasks -> Programs] /\ call' \in [Tasks -> Calls]
      /\ age' \in [Tasks -> -1 .. MaxAge]
  BY <1>1, ReturnStep
<1>5. /\ pc'[t] = "idle" /\ \A u \in Tasks : u # t => pc'[u] = pc[u] /\ call'[u] = call[u]
      /\ \A u \in Tasks : age'[u] = age[u] \/ age'[u] = -1
  BY <1>1, Types DEF Return
<1>6. PICK e \in EventLists : RemoveFromEventList(e, 1)
  BY DEF Transfer, EventLists
<1>7. /\ buf' \in [0 .. Length - 1 -> Messages \cup {NoMsg}]
      /\ pcWriteTo' \in 0 .. Length - 1 /\ pcReadFrom' \in 0 .. Length - 1
      /\ uxMessagesWaiting' \in 0 .. Length
      /\ got' \in [Tasks -> Results]
  <2>1. CASE call[t].op = "fetch" /\ ~Empty /\ CopyDataFromQueue(t)
    BY <2>1, CopyFromStep
  <2>2. CASE call[t].op = "post" /\ ~Full /\ CopyDataToQueue(t) /\ UNCHANGED got
    <3>1. t \in Messages
      BY <2>2 DEF Messages, CallInv, CallOk
    <3> QED BY <3>1, <2>2, CopyToStep, Types
  <2> QED BY <2>1, <2>2 DEF Transfer
<1>8. Once(k.ev[e]) /\ 1 \in Nat /\ k \in KernelType
  BY Types DEF HeldInv, EventInv, Waiting
<1>9. PICK W : Removed(e, 1, W)
  BY <1>6, <1>8, RemoveIs
<1>10. /\ Waiting(k)'
       /\ \A u \in pendingReady' :
            /\ k'.list[u] # "ready"
            /\ \A f \in EventLists : u \notin Members(k'.ev[f])
       /\ \A u \in Tasks : k.list[u] = "ready" => k'.list[u] = "ready"
       /\ pendingReady' \subseteq Tasks
  <2>1. \A u \in Tasks : (\E f \in EventLists : u \in Members(k.ev[f])) => call'[u].op = call[u].op
    BY <1>3, <1>5
  <2> QED BY <2>1, <1>9, RemovedEvents
<1>11. Sound(k')
  BY <1>9, RemovedSound DEF HeldInv
<1>12. TypeOK'
  <2>1. k' \in KernelType
    BY <1>9 DEF Removed
  <2> QED
    BY <1>1, <1>4, <1>7, <1>10, <2>1, Types DEF TypeOK, KernelTypeOK, Programs, Results
<1>13. \A u \in Tasks : pc'[u] \notin Suspended
  BY <1>3, <1>5 DEF Suspended, Locked
<1>14. LockInv'
  <2>1. \A u \in Tasks : age'[u] + xPendedTicks' <= MaxAge
    <3>1. \A u \in Tasks : age[u] + 0 <= MaxAge
      BY <1>3 DEF HeldInv, LockInv
    <3> QED BY <3>1, <1>1, <1>3, <1>5, Types
  <2>2. \A u \in Tasks : pc'[u] \in Blocking => call'[u].xTicksToWait > 0
    BY <1>5 DEF HeldInv, LockInv, Blocking
  <2>3. cTxLock' = queueUNLOCKED /\ cTxLock' <= uxMessagesWaiting'
    BY <1>1, <1>3, <1>7, SMT DEF queueUNLOCKED
  <2>4. pendingReady' = {} /\ xPendedTicks' = 0 /\ suspender' = NoTask
    BY <1>1, <1>3, <1>9 DEF Removed
  <2>5. \A u \in Tasks : suspender' # u /\ pc'[u] \notin Locked
    BY <2>4, <1>13, Sizes DEF Suspended
  <2> QED BY <2>1, <2>2, <2>3, <2>4, <2>5, <1>13 DEF LockInv
<1>15. EventInv'
  <2>1. \A u \in Tasks : pc'[u] \notin {"check", "place"}
    BY <1>13 DEF Suspended, Locked
  <2> QED BY <1>10, <2>1 DEF EventInv
<1> QED
  BY <1>11, <1>12, <1>14, <1>15 DEF HeldInv, Sound

LEMMA FailStep ==
  ASSUME HeldInv, NEW t \in Tasks, Fail(t)
  PROVE  HeldInv'
<1>1. /\ CanRun(t) /\ pc[t] = "try" /\ Return(t)
      /\ UNCHANGED <<k, xPendedTicks, suspender, pendingReady, queueVars>>
      /\ \E x \in Results : got' = [got EXCEPT ![t] = x]
  BY DEF Fail, Results
<1>2. TypeOK'
  BY <1>1, Types, ReturnStep DEF TypeOK, KernelTypeOK, queueVars, Programs, Results
<1>3. "try" \notin Suspended /\ "idle" \notin Suspended /\ "idle" # "lock"
  BY DEF Suspended, Locked
<1>4. /\ pc' = [pc EXCEPT ![t] = "idle"] /\ call' = [call EXCEPT ![t] = NoCall]
      /\ age' = [age EXCEPT ![t] = -1] /\ -1 \in {-1, 0}
  BY <1>1 DEF Return
<1>5. Sound(k)' /\ LockInv' /\ EventInv'
  BY <1>1, <1>3, <1>4, PlainStep
<1> QED BY <1>2, <1>5 DEF HeldInv

LEMMA NoteStep ==
  ASSUME HeldInv, NEW t \in Tasks, NoteTime(t)
  PROVE  HeldInv'
<1> DEFINE c == IF call[t].entrySet \/ call[t].asked = portMAX_DELAY THEN call[t]
                ELSE TimeOutState([call[t] EXCEPT !.entrySet = TRUE])
<1>1. /\ CanRun(t) /\ pc[t] = "try" /\ pc' = [pc EXCEPT ![t] = "lock"]
      /\ call[t].xTicksToWait # 0
      /\ call' = [call EXCEPT ![t] = c]
      /\ UNCHANGED <<k, xPendedTicks, suspender, pendingReady, queueVars, got>>
      /\ age' = age \/ age' = [age EXCEPT ![t] = 0]
  BY Types DEF NoteTime, Goto
<1>2. c \in Calls /\ c.xTicksToWait = call[t].xTicksToWait
  BY Types, NoteIs
<1> HIDE DEF c
<1>3. c.xTicksToWait > 0
  <2>1. call[t].xTicksToWait \in Ticks
    BY Types, CallFields
  <2> QED BY <2>1, <1>1, <1>2, SMT DEF Ticks
<1>4. TypeOK'
  <2>1. pc' \in [Tasks -> Programs] /\ call' \in [Tasks -> Calls]
    BY <1>1, <1>2, Types DEF Programs
  <2>2. age' \in [Tasks -> -1 .. MaxAge]
    BY <1>1, Types
  <2> QED
    BY <1>1, <2>1, <2>2, Types DEF TypeOK, KernelTypeOK, queueVars, Programs, Results
<1>5. "try" \notin Suspended /\ "lock" \notin Suspended
  BY DEF Suspended, Locked
<1>6. age' = age \/ \E a \in {-1, 0} : age' = [age EXCEPT ![t] = a]
  BY <1>1
<1>7. Sound(k)' /\ LockInv' /\ EventInv'
  BY <1>1, <1>3, <1>5, <1>6, PlainStep
<1> QED BY <1>4, <1>7 DEF HeldInv

LEMMA RecheckStep ==
  ASSUME HeldInv, NEW t \in Tasks, Recheck(t)
  PROVE  HeldInv'
<1>1. /\ CanRun(t) /\ pc[t] = "recheck"
      /\ UNCHANGED <<k, xPendedTicks, suspender, pendingReady, queueVars>>
  BY DEF Recheck
<1>2. "recheck" \notin Suspended /\ "idle" \notin Suspended /\ "try" \notin Suspended
      /\ "idle" # "lock" /\ "try" # "lock" /\ -1 \in {-1, 0}
  BY DEF Suspended, Locked
<1>3. CASE pc' = [pc EXCEPT ![t] = "try"] /\ UNCHANGED <<call, age, got>>
  <2>1. TypeOK'
    <3>1. pc' \in [Tasks -> Programs]
      BY <1>3, Types DEF Programs
    <3> QED
      BY <1>1, <1>3, <3>1, Types DEF TypeOK, KernelTypeOK, queueVars, Programs, Results
  <2>2. call' = [call EXCEPT ![t] = call[t]]
    BY <1>3, Types
  <2>3. Sound(k)' /\ LockInv' /\ EventInv'
    BY <1>1, <1>2, <1>3, <2>2, PlainStep
  <2> QED BY <2>1, <2>3 DEF HeldInv
<1>4. CASE Return(t) /\ got' = [got EXCEPT ![t] = IF call[t].op = "fetch" THEN TimedOut ELSE @]
  <2>1. got' \in [Tasks -> Results]
    BY <1>4, Types DEF Results
  <2>2. TypeOK'
    BY <1>1, <1>4, <2>1, Types, ReturnStep
       DEF TypeOK, KernelTypeOK, queueVars, Programs, Results
  <2>3. /\ pc' = [pc EXCEPT ![t] = "idle"] /\ call' = [call EXCEPT ![t] = NoCall]
        /\ age' = [age EXCEPT ![t] = -1]
    BY <1>4 DEF Return
  <2>4. Sound(k)' /\ LockInv' /\ EventInv'
    BY <1>1, <1>2, <2>3, PlainStep
  <2> QED BY <2>2, <2>4 DEF HeldInv
<1> QED BY <1>3, <1>4 DEF Recheck

LEMMA LockStep ==
  ASSUME HeldInv, NEW t \in Tasks, LockQueue(t)
  PROVE  HeldInv'
<1> DEFINE c == CheckForTimeOut(call[t])
           x == IF c.expired THEN "unlock" ELSE "check"
<1>1. /\ CanRun(t) /\ pc[t] = "lock" /\ suspender' = t
      /\ cTxLock' = IF cTxLock = queueUNLOCKED THEN queueLOCKED_UNMODIFIED ELSE cTxLock
      /\ call' = [call EXCEPT ![t] = c] /\ pc' = [pc EXCEPT ![t] = x]
      /\ UNCHANGED <<k, xPendedTicks, pendingReady, age, buf, pcWriteTo, pcReadFrom,
                     uxMessagesWaiting, got>>
  BY DEF LockQueue
<1>2. call[t] \in Calls /\ k \in KernelType /\ call[t].xTicksToWait > 0
  BY <1>1, Types DEF HeldInv, LockInv, Blocking
<1>3. c \in Calls /\ c.op = call[t].op /\ (~c.expired => c.xTicksToWait > 0)
  BY <1>2, CheckIs
<1> HIDE DEF c
<1>4. /\ suspender = NoTask /\ k.list[t] = "ready" /\ xPendedTicks = 0
      /\ pendingReady = {} /\ cTxLock = queueUNLOCKED
      /\ \A u \in Tasks : pc[u] \notin Suspended
  <2>1. "lock" \notin Suspended
    BY DEF Suspended, Locked
  <2> QED BY <1>1, <2>1, FreeRun
<1>5. x \in Locked /\ x \in Suspended /\ x \in Programs
  BY DEF Locked, Suspended, Programs
<1>6. /\ pc'[t] = x /\ call'[t] = c
      /\ \A u \in Tasks : u # t => pc'[u] = pc[u] /\ call'[u] = call[u]
  BY <1>1, Types
<1>7. TypeOK'
  <2>1. pc' \in [Tasks -> Programs] /\ call' \in [Tasks -> Calls]
    BY <1>1, <1>3, <1>5, Types
  <2>2. cTxLock' \in -1 .. Length
    BY <1>1, <1>4, Types DEF queueLOCKED_UNMODIFIED
  <2> QED
    BY <1>1, <2>1, <2>2, Types DEF TypeOK, KernelTypeOK, Programs, Results
<1>8. LockInv'
  <2>1. suspender' # NoTask
    BY <1>1, Sizes
  <2>2. \A u \in Tasks : suspender' = u <=> pc'[u] \in Suspended
    BY <1>1, <1>4, <1>5, <1>6
  <2>3. cTxLock' = 0 /\ cTxLock' # queueUNLOCKED /\ cTxLock' <= uxMessagesWaiting'
    BY <1>1, <1>4, Types DEF queueLOCKED_UNMODIFIED, queueUNLOCKED
  <2>4. \A u \in Tasks : pc'[u] \in Blocking => call'[u].xTicksToWait > 0
    <3>1. x \in Blocking => ~c.expired
      BY DEF Blocking
    <3> QED BY <3>1, <1>3, <1>6 DEF HeldInv, LockInv
  <2>5. \E u \in Tasks : pc'[u] \in Locked
    BY <1>5, <1>6
  <2>6. \A u \in Tasks : age'[u] + xPendedTicks' <= MaxAge
    BY <1>1 DEF HeldInv, LockInv
  <2> QED BY <2>1, <2>2, <2>3, <2>4, <2>5, <2>6 DEF LockInv
<1>9. EventInv'
  <2>1. Waiting(k)'
    <3>1. \A u \in Tasks : call'[u].op = call[u].op
      BY <1>3, <1>6
    <3> QED BY <1>1, <3>1 DEF HeldInv, EventInv, Waiting
  <2>2. \A u \in Tasks : pc'[u] \in {"check", "place"} => k.list[u] = "ready"
    BY <1>4, <1>6 DEF HeldInv, EventInv
  <2> QED BY <1>1, <1>4, <2>1, <2>2 DEF EventInv
<1> QED
  BY <1>1, <1>7, <1>8, <1>9 DEF HeldInv, Sound

LEMMA CheckStep ==
  ASSUME HeldInv, NEW t \in Tasks, CheckAgain(t)
  PROVE  HeldInv'
<1> DEFINE x == IF NotNow(t) THEN "place" ELSE "unlock"
<1>1. /\ pc[t] = "check" /\ pc' = [pc EXCEPT ![t] = x]
      /\ UNCHANGED <<kernelVars, queueVars, call, got>>
  BY DEF CheckAgain, Goto
<1>2. x \in Locked /\ x \in Suspended /\ x \in Programs
  BY DEF Locked, Suspended, Programs
<1> HIDE DEF x
<1>3. pc[t] \in Suspended /\ pc[t] \in Locked /\ pc[t] \in Blocking
  BY <1>1 DEF Suspended, Locked, Blocking
<1>4. pc'[t] = x /\ \A u \in Tasks : u # t => pc'[u] = pc[u]
  BY <1>1, Types
<1>5. TypeOK'
  <2>1. pc' \in [Tasks -> Programs]
    BY <1>1, <1>2, Types
  <2> QED
    BY <1>1, <2>1, Types DEF TypeOK, KernelTypeOK, kernelVars, queueVars, Programs, Results
<1>6. LockInv'
  <2>1. \A u \in Tasks : suspender' = u <=> pc'[u] \in Suspended
    BY <1>1, <1>2, <1>3, <1>4 DEF HeldInv, LockInv, kernelVars
  <2>2. cTxLock' # queueUNLOCKED /\ \E u \in Tasks : pc'[u] \in Locked
    BY <1>1, <1>2, <1>3, <1>4 DEF HeldInv, LockInv, queueVars
  <2>3. \A u \in Tasks : pc'[u] \in Blocking => call'[u].xTicksToWait > 0
    BY <1>1, <1>3, <1>4 DEF HeldInv, LockInv
  <2> QED
    BY <1>1, <2>1, <2>2, <2>3 DEF HeldInv, LockInv, kernelVars, queueVars
<1>7. EventInv'
  <2>1. \A u \in Tasks : pc'[u] \in {"check", "place"} => k.list[u] = "ready"
    BY <1>1, <1>4 DEF HeldInv, EventInv
  <2> QED
    BY <1>1, <2>1 DEF HeldInv, EventInv, Waiting, kernelVars
<1> QED
  BY <1>1, <1>5, <1>6, <1>7 DEF HeldInv, Sound, kernelVars

LEMMA PlaceStep ==
  ASSUME HeldInv, CallInv, NEW t \in Tasks, Place(t)
  PROVE  HeldInv'
<1> DEFINE e == IF call[t].op = "fetch" THEN "receive" ELSE "send"
           ticks == call[t].xTicksToWait
<1>1. /\ pc[t] = "place" /\ pc' = [pc EXCEPT ![t] = "unlock"]
      /\ k' = PlaceOnEventList(k, t, e, ticks)
      /\ UNCHANGED <<xPendedTicks, suspender, pendingReady, age, queueVars, call, got>>
  BY DEF Place, Goto
<1>2. e \in EventLists /\ ticks \in 1 .. portMAX_DELAY /\ k \in KernelType /\ Sound(k)
  <2>1. ticks \in Ticks /\ ticks > 0
    BY <1>1, Types, CallFields DEF HeldInv, LockInv, Blocking
  <2> QED BY <2>1, Sizes, Types DEF EventLists, Ticks, HeldInv
<1>o. call[t].op = IF e = "receive" THEN "fetch" ELSE "post"
  BY <1>1 DEF CallInv, CallOk, Blocking
<1> HIDE DEF e, ticks
<1>3. /\ k' \in KernelType /\ Sound(k')
      /\ k'.ev[e] = Append(k.ev[e], t)
      /\ \A f \in EventLists : f # e => k'.ev[f] = k.ev[f]
      /\ \A u \in Tasks : u # t => k'.list[u] = k.list[u]
      /\ k'.list[t] # "ready"
  BY <1>1, <1>2, PlaceIs
<1>4. pc[t] \in Suspended /\ pc[t] \in Locked /\ k.list[t] = "ready"
  BY <1>1 DEF Suspended, Locked, HeldInv, EventInv
<1>5. pc'[t] = "unlock" /\ \A u \in Tasks : u # t => pc'[u] = pc[u]
  BY <1>1, Types
<1>6. /\ suspender = t /\ \A u \in Tasks : u # t => pc[u] \notin Suspended
  BY <1>4, HeldRun
<1>7. t \notin pendingReady /\ \A f \in EventLists : t \notin Members(k.ev[f])
  BY <1>4 DEF HeldInv, EventInv, Waiting
<1>8. k.ev[e] \in Seq(Tasks) /\ Once(k.ev[e])
  BY <1>2, Fields DEF HeldInv, EventInv, Waiting
<1>9. Members(k'.ev[e]) = Members(k.ev[e]) \cup {t} /\ Once(k'.ev[e])
  BY <1>2, <1>3, <1>7, <1>8, AppendMembers
<1>10. TypeOK'
  <2>1. pc' \in [Tasks -> Programs]
    BY <1>1, Types DEF Programs
  <2> QED
    BY <1>1, <1>3, <2>1, Types DEF TypeOK, KernelTypeOK, queueVars, Programs, Results
<1>11. LockInv'
  <2>1. \A u \in Tasks : suspender' = u <=> pc'[u] \in Suspended
    BY <1>1, <1>4, <1>5 DEF HeldInv, LockInv, Suspended, Locked
  <2>2. cTxLock' # queueUNLOCKED /\ \E u \in Tasks : pc'[u] \in Locked
    BY <1>1, <1>4, <1>5 DEF HeldInv, LockInv, Locked, queueVars
  <2>3. \A u \in Tasks : pc'[u] \in Blocking => call'[u].xTicksToWait > 0
    BY <1>1, <1>5 DEF HeldInv, LockInv, Blocking
  <2> QED
    BY <1>1, <2>1, <2>2, <2>3 DEF HeldInv, LockInv, queueVars
<1>12. EventInv'
  <2>1. \A f \in EventLists : \A u \in Tasks :
          u \in Members(k'.ev[f]) <=> u \in Members(k.ev[f]) \/ (u = t /\ f = e)
    BY <1>3, <1>9, <1>2
  <2>2. Waiting(k)'
    <3>1. \A f \in EventLists : Once(k'.ev[f])
      BY <1>3, <1>9 DEF HeldInv, EventInv, Waiting
    <3>2. \A u \in Tasks : \A f \in EventLists : u \in Members(k'.ev[f]) => k'.list[u] # "ready"
      BY <2>1, <1>3 DEF HeldInv, EventInv, Waiting
    <3>3. "receive" \in EventLists /\ "send" \in EventLists /\ "receive" # "send"
      BY DEF EventLists
    <3>4. \A u \in Tasks : /\ u \in Members(k'.ev["receive"]) => call[u].op = "fetch"
                           /\ u \in Members(k'.ev["send"]) => call[u].op = "post"
      BY <2>1, <3>3, <1>o DEF HeldInv, EventInv, Waiting
    <3> QED BY <3>1, <3>2, <3>4, <1>1 DEF Waiting
  <2>3. \A u \in pendingReady' :
          k'.list[u] # "ready" /\ \A f \in EventLists : u \notin Members(k'.ev[f])
    <3>1. \A u \in pendingReady : u \in Tasks /\ u # t
      BY <1>7, Types
    <3> QED BY <1>1, <1>3, <2>1, <3>1 DEF HeldInv, EventInv
  <2>4. \A u \in Tasks : pc'[u] \notin {"check", "place"}
    BY <1>5, <1>6 DEF Suspended, Locked
  <2> QED BY <2>2, <2>3, <2>4 DEF EventInv
<1> QED
  BY <1>3, <1>10, <1>11, <1>12 DEF HeldInv, Sound

LEMMA MsleepStep ==
  ASSUME HeldInv, NEW t \in Tasks, Msleep(t)
  PROVE  HeldInv'
<1>0. PICK ms \in SleepMs :
        /\ ms \div TickMs > 0
        /\ pc' = [pc EXCEPT ![t] = "resume"]
        /\ call' = [call EXCEPT ![t] = [NoCall EXCEPT !.op = "sleep", !.asked = ms \div TickMs]]
        /\ k' = AddCurrentTaskToDelayedList(k, t, ms \div TickMs, FALSE)
  BY DEF Msleep
<1> DEFINE ticks == ms \div TickMs
           c == [NoCall EXCEPT !.op = "sleep", !.asked = ticks]
<1>1. /\ CanRun(t) /\ pc[t] = "idle" /\ suspender' = t /\ age' = [age EXCEPT ![t] = 0]
      /\ UNCHANGED <<xPendedTicks, pendingReady, queueVars, got>>
  BY DEF Msleep
<1>2. ticks \in 1 .. portMAX_DELAY /\ ticks \in Ticks
  <2>1. ms \in Nat /\ TickMs \in Nat \ {0} /\ ticks < portMAX_DELAY /\ ticks > 0
    BY <1>0, QueueAssumption
  <2>2. ticks \in Int
    BY <2>1
  <2> HIDE DEF ticks
  <2> QED BY <2>1, <2>2, Sizes DEF Ticks
<1>3. /\ pc' = [pc EXCEPT ![t] = "resume"] /\ call' = [call EXCEPT ![t] = c]
      /\ k' = AddCurrentTaskToDelayedList(k, t, ticks, FALSE)
  BY <1>0
<1> HIDE DEF ticks
<1>4. c \in Calls /\ c.op = "sleep"
  BY <1>2, SleepIs
<1> HIDE DEF c
<1>5. k \in KernelType /\ Sound(k) /\ FALSE \in BOOLEAN
  BY Types DEF HeldInv
<1>6. /\ k' \in KernelType /\ Sound(k') /\ k'.ev = k.ev
      /\ \A u \in Tasks : u # t => k'.list[u] = k.list[u]
  BY <1>2, <1>3, <1>5, AddIs
<1>7. /\ suspender = NoTask /\ xPendedTicks = 0
      /\ pendingReady = {} /\ cTxLock = queueUNLOCKED
      /\ \A u \in Tasks : pc[u] \notin Suspended
      /\ \A e \in EventLists : t \notin Members(k.ev[e])
  <2>1. "idle" \notin Suspended
    BY DEF Suspended, Locked
  <2> QED BY <1>1, <2>1, FreeRun
<1>8. /\ pc'[t] = "resume" /\ call'[t] = c
      /\ \A u \in Tasks : u # t => pc'[u] = pc[u] /\ call'[u] = call[u]
      /\ \A u \in Tasks : age'[u] = age[u] \/ age'[u] = 0
  BY <1>1, <1>3, Types
<1>9. TypeOK'
  <2>1. pc' \in [Tasks -> Programs] /\ call' \in [Tasks -> Calls]
        /\ age' \in [Tasks -> -1 .. MaxAge]
    BY <1>1, <1>3, <1>4, Types DEF Programs
  <2> QED
    BY <1>1, <1>6, <2>1, Types DEF TypeOK, KernelTypeOK, queueVars, Programs, Results
<1>10. LockInv'
  <2>1. suspender' # NoTask /\ \A u \in Tasks : suspender' = u <=> pc'[u] \in Suspended
    BY <1>1, <1>7, <1>8, Sizes DEF Suspended
  <2>2. \A u \in Tasks : pc'[u] \notin Locked
    BY <1>7, <1>8 DEF Suspended, Locked
  <2>3. \A u \in Tasks : pc'[u] \in Blocking => call'[u].xTicksToWait > 0
    BY <1>8 DEF HeldInv, LockInv, Blocking
  <2>4. \A u \in Tasks : age'[u] + xPendedTicks' <= MaxAge
    <3>1. \A u \in Tasks : age[u] + 0 <= MaxAge
      BY <1>7 DEF HeldInv, LockInv
    <3> QED BY <3>1, <1>1, <1>7, <1>8, Types
  <2>5. cTxLock' = queueUNLOCKED /\ cTxLock' <= uxMessagesWaiting'
    BY <1>1, <1>7 DEF HeldInv, LockInv, queueVars
  <2> QED BY <2>1, <2>2, <2>3, <2>4, <2>5 DEF LockInv
<1>11. EventInv'
  <2>1. \A u \in Tasks : \A e \in EventLists : u \in Members(k.ev[e]) => u # t
    BY <1>7
  <2>2. "receive" \in EventLists /\ "send" \in EventLists
    BY DEF EventLists
  <2>3. Waiting(k)'
    BY <2>1, <2>2, <1>6, <1>8 DEF HeldInv, EventInv, Waiting
  <2>4. \A u \in Tasks : pc'[u] \notin {"check", "place"}
    BY <1>7, <1>8 DEF Suspended, Locked
  <2> QED BY <1>1, <1>7, <2>3, <2>4 DEF EventInv
<1> QED
  BY <1>6, <1>9, <1>10, <1>11 DEF HeldInv, Sound

LEMMA UnlockStep ==
  ASSUME HeldInv, NEW t \in Tasks, UnlockQueue(t)
  PROVE  HeldInv'
<1>1. /\ pc[t] = "unlock" /\ pc' = [pc EXCEPT ![t] = "resume"]
      /\ RemoveFromEventList("receive", cTxLock) /\ cTxLock' = queueUNLOCKED
      /\ UNCHANGED <<xPendedTicks, suspender, age, buf, pcWriteTo, pcReadFrom,
                     uxMessagesWaiting, call, got>>
  BY DEF UnlockQueue, Goto
<1>2. pc[t] \in Suspended /\ pc[t] \in Locked
  BY <1>1 DEF Suspended, Locked
<1>3. /\ suspender = t /\ suspender # NoTask
      /\ \A u \in Tasks : u # t => pc[u] \notin Suspended /\ pc[u] \notin Locked
  BY <1>2, HeldRun
<1>4. cTxLock \in Nat
  <2>1. cTxLock # -1
    BY <1>2 DEF HeldInv, LockInv, queueUNLOCKED
  <2> QED BY <2>1, Types
<1>5. pc'[t] = "resume" /\ \A u \in Tasks : u # t => pc'[u] = pc[u]
  BY <1>1, Types
<1>6. Once(k.ev["receive"]) /\ k \in KernelType /\ "receive" \in EventLists
  BY Types DEF HeldInv, EventInv, Waiting, EventLists
<1>7. PICK W : Removed("receive", cTxLock, W)
  BY <1>1, <1>4, <1>6, RemoveIs
<1>8. /\ Waiting(k)'
      /\ \A u \in pendingReady' :
           /\ k'.list[u] # "ready"
           /\ \A f \in EventLists : u \notin Members(k'.ev[f])
      /\ pendingReady' \subseteq Tasks
  BY <1>1, <1>6, <1>7, RemovedEvents
<1>9. Sound(k') /\ k' \in KernelType
  BY <1>7, RemovedSound DEF HeldInv, Removed
<1>10. TypeOK'
  <2>1. pc' \in [Tasks -> Programs] /\ cTxLock' \in -1 .. Length
    BY <1>1, Types DEF Programs, queueUNLOCKED
  <2> QED
    BY <1>1, <1>8, <1>9, <2>1, Types DEF TypeOK, KernelTypeOK, Programs, Results
<1>11. LockInv'
  <2>1. \A u \in Tasks : suspender' = u <=> pc'[u] \in Suspended
    BY <1>1, <1>3, <1>5 DEF Suspended
  <2>2. \A u \in Tasks : pc'[u] \notin Locked
    BY <1>3, <1>5 DEF Locked
  <2>3. \A u \in Tasks : pc'[u] \in Blocking => call'[u].xTicksToWait > 0
    BY <1>1, <1>5 DEF HeldInv, LockInv, Blocking
  <2>4. cTxLock' <= uxMessagesWaiting'
    BY <1>1, Types DEF queueUNLOCKED
  <2> QED
    BY <1>1, <1>3, <2>1, <2>2, <2>3, <2>4 DEF HeldInv, LockInv
<1>12. EventInv'
  <2>1. \A u \in Tasks : pc'[u] \notin {"check", "place"}
    BY <1>3, <1>5 DEF Suspended, Locked
  <2> QED BY <1>8, <2>1 DEF EventInv
<1> QED
  BY <1>9, <1>10, <1>11, <1>12 DEF HeldInv, Sound

LEMMA IsrStep ==
  ASSUME HeldInv, PostFromISR
  PROVE  HeldInv'
<1>1. /\ ~Full /\ CopyDataToQueue(IsrMsg)
      /\ UNCHANGED <<xPendedTicks, suspender, age, pc, call, got>>
  BY DEF PostFromISR
<1>2. /\ buf' \in [0 .. Length - 1 -> Messages \cup {NoMsg}]
      /\ pcWriteTo' \in 0 .. Length - 1 /\ pcReadFrom' \in 0 .. Length - 1
      /\ uxMessagesWaiting' \in 0 .. Length
      /\ uxMessagesWaiting' = uxMessagesWaiting + 1
  <2>1. IsrMsg \in Messages
    BY DEF Messages
  <2> QED BY <1>1, <2>1, CopyToStep
<1>3. CASE cTxLock # queueUNLOCKED
  <2>1. cTxLock' = cTxLock + 1 /\ UNCHANGED <<k, pendingReady>>
    BY <1>3 DEF PostFromISR
  <2>2. cTxLock' <= uxMessagesWaiting' /\ cTxLock' # queueUNLOCKED /\ cTxLock' \in -1 .. Length
    <3>1. cTxLock <= uxMessagesWaiting
      BY DEF HeldInv, LockInv
    <3> QED BY <3>1, <1>2, <1>3, <2>1, Types DEF queueUNLOCKED
  <2>3. TypeOK'
    BY <1>1, <1>2, <2>1, <2>2, Types DEF TypeOK, KernelTypeOK, Programs, Results
  <2>4. LockInv'
    BY <1>1, <1>3, <2>1, <2>2 DEF HeldInv, LockInv
  <2>5. EventInv' /\ Sound(k')
    BY <1>1, <2>1 DEF HeldInv, EventInv, Waiting, Sound
  <2> QED BY <2>3, <2>4, <2>5 DEF HeldInv, Sound
<1>4. CASE cTxLock = queueUNLOCKED
  <2>1. RemoveFromEventList("receive", 1) /\ UNCHANGED cTxLock
    BY <1>4 DEF PostFromISR
  <2>2. Once(k.ev["receive"]) /\ k \in KernelType /\ "receive" \in EventLists /\ 1 \in Nat
    BY Types DEF HeldInv, EventInv, Waiting, EventLists
  <2>3. PICK W : Removed("receive", 1, W)
    BY <2>1, <2>2, RemoveIs
  <2>4. /\ Waiting(k)'
        /\ \A u \in pendingReady' :
             /\ k'.list[u] # "ready"
             /\ \A f \in EventLists : u \notin Members(k'.ev[f])
        /\ \A u \in Tasks : k.list[u] = "ready" => k'.list[u] = "ready"
        /\ pendingReady' \subseteq Tasks
    BY <1>1, <2>2, <2>3, RemovedEvents
  <2>5. Sound(k') /\ k' \in KernelType
    BY <2>3, RemovedSound DEF HeldInv, Removed
  <2>6. TypeOK'
    BY <1>1, <1>2, <2>1, <2>4, <2>5, Types DEF TypeOK, KernelTypeOK, Programs, Results
  <2>7. LockInv'
    <3>1. cTxLock' <= uxMessagesWaiting'
      BY <1>2, <1>4, <2>1, Types DEF queueUNLOCKED
    <3>2. suspender' = NoTask => pendingReady' = {}
      BY <1>1, <2>3 DEF HeldInv, LockInv, Removed
    <3> QED BY <1>1, <2>1, <3>1, <3>2 DEF HeldInv, LockInv
  <2>8. EventInv'
    BY <1>1, <2>4 DEF HeldInv, EventInv
  <2> QED BY <2>5, <2>6, <2>7, <2>8 DEF HeldInv, Sound
<1> QED BY <1>3, <1>4

\* A tick keeps the shape of the event lists.
LEMMA TickWaiting ==
  ASSUME NEW q, Waiting(q), NEW r, Ticked(q, r)
  PROVE  /\ Waiting(r)
         /\ \A t \in Tasks : q.list[t] = "ready" => r.list[t] = "ready"
         /\ \A e \in EventLists : Members(r.ev[e]) \subseteq Members(q.ev[e])
<1>1. PICK D \in SUBSET Tasks :
        /\ Left(q, r, D)
        /\ \A t \in Tasks :
             t \notin D => /\ r.list[t] \in Timed <=> q.list[t] \in Timed
                           /\ q.list[t] \notin Timed => r.list[t] = q.list[t]
  BY DEF Ticked
<1>2. \A t \in Tasks : /\ t \in D => r.list[t] = "ready"
                       /\ q.list[t] = "ready" => r.list[t] = "ready"
                       /\ t \notin D /\ q.list[t] # "ready" => r.list[t] # "ready"
  BY <1>1 DEF Left, Timed
<1>3. \A e \in EventLists : Members(r.ev[e]) = Members(q.ev[e]) \ D /\ Once(r.ev[e])
  BY <1>1 DEF Left, Waiting
<1>4. \A t \in Tasks : \A e \in EventLists :
        t \in Members(r.ev[e]) => t \in Members(q.ev[e]) /\ t \notin D
  BY <1>3
<1>5. "receive" \in EventLists /\ "send" \in EventLists
  BY DEF EventLists
<1>6. Waiting(r)
  BY <1>2, <1>3, <1>4, <1>5 DEF Waiting
<1> QED BY <1>2, <1>3, <1>6

LEMMA AgedIs ==
  ASSUME HeldInv, NEW n \in Nat, \A t \in Tasks : age[t] + n <= MaxAge
  PROVE  /\ Aged(n) \in [Tasks -> -1 .. MaxAge]
         /\ \A t \in Tasks : /\ Aged(n)[t] <= MaxAge
                             /\ age[t] >= 0 => Aged(n)[t] = age[t] + n
                             /\ Aged(n)[t] >= 0 <=> age[t] >= 0
<1>1. \A t \in Tasks : Aged(n)[t] = IF age[t] < 0 THEN -1 ELSE age[t] + n
  BY DEF Aged
<1>2. \A t \in Tasks : age[t] \in -1 .. MaxAge
  BY Types
<1>3. ASSUME NEW t \in Tasks
      PROVE  /\ Aged(n)[t] \in -1 .. MaxAge
             /\ age[t] >= 0 => Aged(n)[t] = age[t] + n
             /\ Aged(n)[t] >= 0 <=> age[t] >= 0
  BY <1>1, <1>2, Types
<1>4. Aged(n) = [t \in Tasks |-> Aged(n)[t]]
  BY DEF Aged
<1>5. \A t \in Tasks : Aged(n)[t] <= MaxAge
  BY <1>3, Types
<1> QED BY <1>3, <1>4, <1>5

LEMMA TickStepHeld ==
  ASSUME HeldInv, TickInterrupt
  PROVE  HeldInv'
<1>1. /\ \A t \in Tasks : age[t] + xPendedTicks < MaxAge
      /\ UNCHANGED <<suspender, pendingReady, queueVars, pc, call, got>>
  BY DEF TickInterrupt, Tick
<1>2. CASE suspender = NoTask /\ k' = IncrementTick(k) /\ age' = Aged(1) /\ UNCHANGED xPendedTicks
  <2>1. Ticked(k, k')
    BY <1>2, Types, IncrementIs DEF HeldInv
  <2>2. Waiting(k') /\ \A t \in Tasks : k.list[t] = "ready" => k'.list[t] = "ready"
    BY <2>1, TickWaiting DEF HeldInv, EventInv
  <2>3. xPendedTicks = 0 /\ pendingReady = {}
    BY <1>2 DEF HeldInv, LockInv
  <2>4. age' \in [Tasks -> -1 .. MaxAge] /\ \A t \in Tasks : age'[t] <= MaxAge
    <3>1. \A t \in Tasks : age[t] + 1 <= MaxAge
      BY <1>1, <2>3, Types
    <3> QED BY <3>1, <1>2, AgedIs
  <2>5. TypeOK'
    BY <1>1, <1>2, <2>1, <2>4, Types
       DEF TypeOK, KernelTypeOK, Programs, Results, queueVars, Ticked
  <2>6. LockInv'
    <3>1. \A t \in Tasks : age'[t] + xPendedTicks' <= MaxAge
      BY <1>2, <2>3, <2>4, Types
    <3> QED BY <1>1, <1>2, <3>1 DEF HeldInv, LockInv, queueVars
  <2>7. EventInv'
    BY <1>1, <2>2, <2>3 DEF HeldInv, EventInv, Waiting
  <2> QED BY <2>1, <2>5, <2>6, <2>7 DEF HeldInv, Ticked, Sound
<1>3. CASE /\ suspender /= NoTask /\ xPendedTicks < MaxPended
           /\ xPendedTicks' = xPendedTicks + 1 /\ UNCHANGED <<k, age>>
  <2>1. xPendedTicks' \in 0 .. MaxPended
    BY <1>3, Types, Sizes
  <2>2. \A t \in Tasks : age'[t] + xPendedTicks' <= MaxAge
    BY <1>1, <1>3, Types
  <2>3. TypeOK'
    BY <1>1, <1>3, <2>1, Types DEF TypeOK, KernelTypeOK, Programs, Results, queueVars
  <2>4. LockInv'
    BY <1>1, <1>3, <2>2 DEF HeldInv, LockInv, queueVars
  <2>5. EventInv' /\ Sound(k')
    BY <1>1, <1>3 DEF HeldInv, EventInv, Waiting, Sound
  <2> QED BY <2>3, <2>4, <2>5 DEF HeldInv, Sound
<1> QED BY <1>2, <1>3 DEF TickInterrupt, Tick

\* xTaskResumeAll first readies the tasks that were woken meanwhile.
LEMMA PendingIs ==
  ASSUME HeldInv, NEW t \in Tasks, Resume(t)
  PROVE  \E q :
           /\ q \in KernelType /\ Sound(q) /\ Waiting(q)
           /\ q.tick = k.tick /\ q.ovf = k.ovf /\ q.ev = k.ev
           /\ \A u \in Tasks :
                /\ u \in pendingReady => q.list[u] = "ready"
                /\ u \notin pendingReady => q.list[u] = k.list[u] /\ q.wake[u] = k.wake[u]
           /\ k' = CatchUp(q, xPendedTicks)
<1> DEFINE r == Ready(k, pendingReady)
           n == NextUnblock(r.list, r.wake)
           q == IF pendingReady = {} THEN k ELSE [r EXCEPT !.next = n]
<1>1. k' = CatchUp(q, xPendedTicks)
  BY DEF Resume, ResumeAll
<1>2. k \in KernelType /\ Sound(k)
  BY Types DEF HeldInv
<1>3. /\ q \in KernelType /\ Sound(q)
      /\ q.tick = k.tick /\ q.ovf = k.ovf /\ q.ev = k.ev
      /\ \A u \in Tasks :
           /\ u \in pendingReady => q.list[u] = "ready"
           /\ u \notin pendingReady => q.list[u] = k.list[u] /\ q.wake[u] = k.wake[u]
  <2>1. CASE pendingReady = {}
    BY <1>2, <2>1
  <2>2. CASE pendingReady # {}
    <3>0. q = [r EXCEPT !.next = n]
      BY <2>2
    <3>1. /\ r \in KernelType /\ r.tick = k.tick /\ r.ovf = k.ovf /\ r.ev = k.ev
          /\ \A u \in Tasks :
               /\ u \in pendingReady => r.list[u] = "ready"
               /\ u \notin pendingReady => r.list[u] = k.list[u] /\ r.wake[u] = k.wake[u]
      BY <1>2, ReadyIs
    <3> HIDE DEF r, q
    <3>2. n \in Ticks /\ \A u \in Tasks : r.list[u] = "delayed" => n <= r.wake[u]
      BY <3>1, Fields, NextUnblockIs
    <3> HIDE DEF n
    <3>3. /\ q \in KernelType /\ q.tick = r.tick /\ q.ovf = r.ovf /\ q.next = n
          /\ q.list = r.list /\ q.wake = r.wake /\ q.ev = r.ev
      BY <3>0, <3>1, <3>2, SetNext
    <3>4. Sound(q)
      BY <1>2, <3>1, <3>2, <3>3 DEF Sound
    <3> QED BY <3>1, <3>3, <3>4
  <2> QED BY <2>1, <2>2
<1> HIDE DEF q
<1>4. Waiting(q)
  <2>1. \A u \in Tasks : \A e \in EventLists : u \in Members(k.ev[e]) => u \notin pendingReady
    BY DEF HeldInv, EventInv
  <2> QED BY <2>1, <1>3 DEF HeldInv, EventInv, Waiting
<1> QED BY <1>1, <1>3, <1>4

LEMMA ResumeKernel ==
  ASSUME HeldInv, NEW t \in Tasks, Resume(t)
  PROVE  /\ k' \in KernelType /\ Sound(k') /\ Waiting(k')
         /\ \A e \in EventLists : Members(k'.ev[e]) \subseteq Members(k.ev[e])
<1>1. PICK q :
        /\ q \in KernelType /\ Sound(q) /\ Waiting(q)
        /\ q.ev = k.ev /\ k' = CatchUp(q, xPendedTicks)
  BY PendingIs
<1> DEFINE Good(r) == /\ Sound(r) /\ Waiting(r)
                      /\ \A e \in EventLists : Members(r.ev[e]) \subseteq Members(k.ev[e])
           P == Nat \X {r \in KernelType : Good(r)}
<1>2. <<0, q>> \in P
  BY <1>1
<1>3. ASSUME NEW i \in 0 .. MaxPended - 1, NEW r, <<i, r>> \in P
      PROVE  <<i + 1, IncrementTick(r)>> \in P
  <2>1. r \in KernelType /\ Good(r) /\ i + 1 \in Nat
    BY <1>3, Sizes
  <2>2. Ticked(r, IncrementTick(r))
    BY <2>1, IncrementIs
  <2>3. IncrementTick(r) \in KernelType /\ Good(IncrementTick(r))
    BY <2>1, <2>2, TickWaiting DEF Ticked
  <2> QED BY <2>1, <2>3
<1> HIDE DEF P
<1>4. <<xPendedTicks, CatchUp(q, xPendedTicks)>> \in P
  BY <1>2, <1>3, Types, CatchUpIn
<1> QED BY <1>1, <1>4 DEF P

LEMMA ResumeStep ==
  ASSUME HeldInv, NEW t \in Tasks, Resume(t)
  PROVE  HeldInv'
<1> DEFINE x == IF call[t].expired \/ call[t].op = "sleep" THEN "recheck" ELSE "try"
<1>1. /\ pc[t] = "resume" /\ pc' = [pc EXCEPT ![t] = x]
      /\ age' = Aged(xPendedTicks) /\ xPendedTicks' = 0 /\ suspender' = NoTask
      /\ pendingReady' = {} /\ UNCHANGED <<queueVars, call, got>>
  BY DEF Resume, Goto, ResumeAll
<1>2. x \notin Suspended /\ x \in Programs /\ x \notin Blocking
  BY DEF Suspended, Locked, Programs, Blocking
<1> HIDE DEF x
<1>3. k' \in KernelType /\ Sound(k') /\ Waiting(k')
  BY ResumeKernel
<1>4. \A u \in Tasks : u # t => pc[u] \notin Suspended /\ pc[u] \notin Locked
  BY <1>1, HeldRun DEF Suspended
<1>5. pc'[t] = x /\ \A u \in Tasks : u # t => pc'[u] = pc[u]
  BY <1>1, Types
<1>6. \A u \in Tasks : pc'[u] \notin Suspended /\ pc'[u] \notin Locked
  BY <1>2, <1>4, <1>5 DEF Suspended
<1>7. age' \in [Tasks -> -1 .. MaxAge] /\ \A u \in Tasks : age'[u] <= MaxAge
  <2>1. xPendedTicks \in Nat /\ \A u \in Tasks : age[u] + xPendedTicks <= MaxAge
    BY Types DEF HeldInv, LockInv
  <2> QED BY <2>1, <1>1, AgedIs
<1>8. TypeOK'
  <2>1. pc' \in [Tasks -> Programs] /\ xPendedTicks' \in 0 .. MaxPended
    BY <1>1, <1>2, Types, Sizes
  <2> QED
    BY <1>1, <1>3, <1>7, <2>1, Types
       DEF TypeOK, KernelTypeOK, queueVars, Programs, Results
<1>9. LockInv'
  <2>1. \A u \in Tasks : suspender' # u
    BY <1>1, Sizes
  <2>2. cTxLock' = queueUNLOCKED /\ cTxLock' <= uxMessagesWaiting'
    <3>1. \A u \in Tasks : pc[u] \notin Locked
      BY <1>1, <1>4 DEF Locked
    <3> QED BY <1>1, <3>1 DEF HeldInv, LockInv, queueVars
  <2>3. \A u \in Tasks : pc'[u] \in Blocking => call'[u].xTicksToWait > 0
    BY <1>1, <1>2, <1>5 DEF HeldInv, LockInv
  <2>4. \A u \in Tasks : age'[u] + xPendedTicks' <= MaxAge
    BY <1>1, <1>7, Types
  <2> QED BY <1>1, <1>6, <2>1, <2>2, <2>3, <2>4 DEF LockInv
<1>10. EventInv'
  <2>1. \A u \in Tasks : pc'[u] \notin {"check", "place"}
    BY <1>6 DEF Suspended, Locked
  <2>2. Waiting(k)'
    BY <1>1, <1>3 DEF Waiting
  <2> QED BY <1>1, <2>1, <2>2 DEF EventInv
<1> QED
  BY <1>3, <1>8, <1>9, <1>10 DEF HeldInv, Sound

LEMMA FetchTicks ==
  ASSUME NEW t \in Fetchers, Fetch(t)
  PROVE  t \in Tasks /\ \E ticks \in Ticks : Begin(t, "fetch", ticks)
<1>0. t \in Tasks
  BY QueueAssumption
<1>1. CASE Begin(t, "fetch", 0)
  BY <1>0, <1>1, Sizes
<1>2. ASSUME NEW ms \in FetchMs[t],
             Begin(t, "fetch", IF ms = 0 THEN portMAX_DELAY ELSE ms \div TickMs)
      PROVE  \E ticks \in Ticks : Begin(t, "fetch", ticks)
  <2>1. ms \in Nat /\ TickMs \in Nat \ {0} /\ ms \div TickMs < portMAX_DELAY
    <3>1. ms \in UNION {FetchMs[u] : u \in Fetchers}
      OBVIOUS
    <3> QED BY <3>1, QueueAssumption
  <2>2. ms \div TickMs \in Nat
    BY <2>1
  <2> DEFINE d == ms \div TickMs
             ticks == IF ms = 0 THEN portMAX_DELAY ELSE d
  <2>3. d \in Nat /\ d < portMAX_DELAY /\ Begin(t, "fetch", ticks)
    BY <1>2, <2>1, <2>2
  <2> HIDE DEF d
  <2>4. ticks \in Ticks
    BY <2>3, Sizes DEF Ticks
  <2> HIDE DEF ticks
  <2> QED BY <2>3, <2>4
<1> QED BY <1>0, <1>1, <1>2 DEF Fetch

\* The step of one task disturbs only its own call.
LEMMA CallStepOf ==
  ASSUME HeldInv, CallInv, NEW t \in Tasks,
         \A u \in Tasks : u # t => pc'[u] = pc[u] /\ call'[u] = call[u],
         CallOk(t, pc'[t], call'[t])
  PROVE  CallInv'
  BY DEF CallInv

LEMMA IdleOk ==
  ASSUME NEW t
  PROVE  CallOk(t, "idle", NoCall)
  BY NoCallIs, Sizes DEF CallOk, Blocking

LEMMA CallStep ==
  ASSUME HeldInv, CallInv, NEW t \in Tasks, Step(t)
  PROVE  CallInv'
<1> DEFINE c == call[t]
<1>t. /\ pc \in [Tasks -> Programs] /\ call \in [Tasks -> Calls] /\ c \in Calls
      /\ CallOk(t, pc[t], c)
      /\ k \in KernelType
  BY Types DEF CallInv
<1>f. /\ c.op \in {"none", "fetch", "post", "sleep"}
      /\ c.asked \in Ticks /\ c.xTicksToWait \in Ticks
  BY <1>t, CallFields
<1>r. ASSUME Return(t) PROVE CallInv'
  <2>1. /\ pc'[t] = "idle" /\ call'[t] = NoCall
        /\ \A u \in Tasks : u # t => pc'[u] = pc[u] /\ call'[u] = call[u]
    BY <1>r, <1>t DEF Return
  <2> QED BY <2>1, IdleOk, CallStepOf
<1>m. ASSUME NEW x, pc' = [pc EXCEPT ![t] = x], UNCHANGED call, CallOk(t, x, c)
      PROVE  CallInv'
  <2>1. /\ pc'[t] = x /\ call'[t] = c
        /\ \A u \in Tasks : u # t => pc'[u] = pc[u] /\ call'[u] = call[u]
    BY <1>m, <1>t
  <2> QED BY <2>1, <1>m, CallStepOf
<1>1. CASE Transfer(t)
  BY <1>1, <1>r DEF Transfer
<1>2. CASE Fail(t)
  BY <1>2, <1>r DEF Fail
<1>3. CASE NoteTime(t)
  <2> DEFINE d == IF c.entrySet \/ c.asked = portMAX_DELAY THEN c
                  ELSE TimeOutState([c EXCEPT !.entrySet = TRUE])
  <2>1. /\ pc[t] = "try" /\ pc' = [pc EXCEPT ![t] = "lock"] /\ c.xTicksToWait # 0
        /\ call' = [call EXCEPT ![t] = d]
    BY <1>3, <1>t DEF NoteTime, Goto
  <2>2. /\ d.op = c.op /\ d.asked = c.asked
        /\ d.xTicksToWait = c.xTicksToWait /\ d.expired = c.expired
        /\ d.asked # portMAX_DELAY => d.entrySet
    BY <1>t, NoteIs
  <2> HIDE DEF d
  <2>3. CallOk(t, "lock", d)
    BY <1>t, <2>1, <2>2 DEF CallOk, Blocking
  <2>4. /\ pc'[t] = "lock" /\ call'[t] = d
        /\ \A u \in Tasks : u # t => pc'[u] = pc[u] /\ call'[u] = call[u]
    BY <2>1, <1>t
  <2> QED BY <2>3, <2>4, CallStepOf
<1>4. CASE LockQueue(t)
  <2> DEFINE d == CheckForTimeOut(c)
             x == IF d.expired THEN "unlock" ELSE "check"
             elapsed == Until(k.tick, c.onEntering)
  <2>1. /\ pc[t] = "lock" /\ pc' = [pc EXCEPT ![t] = x] /\ call' = [call EXCEPT ![t] = d]
    BY <1>4 DEF LockQueue
  <2>2. c.xTicksToWait > 0
    BY <2>1 DEF HeldInv, LockInv, Blocking
  <2>3. /\ d \in Calls /\ d.op = c.op /\ d.asked = c.asked /\ d.entrySet = c.entrySet
        /\ c.xTicksToWait = portMAX_DELAY =>
             d.expired = FALSE /\ d.xTicksToWait = c.xTicksToWait
        /\ c.xTicksToWait # portMAX_DELAY =>
             \/ d.expired = TRUE /\ d.xTicksToWait = 0
             \/ d.expired = FALSE /\ d.xTicksToWait = c.xTicksToWait - elapsed
    BY <1>t, CheckIs
  <2>4. elapsed \in Nat
    <3>1. k.tick \in Ticks /\ c.onEntering \in Ticks
      BY <1>t, Fields, CallFields
    <3>2. elapsed = IF c.onEntering <= k.tick THEN k.tick - c.onEntering
                    ELSE k.tick - c.onEntering + TickRange
      BY <3>1, UntilIs
    <3> HIDE DEF elapsed
    <3> QED BY <3>1, <3>2, Sizes, SMT DEF Ticks
  <2>5. d.expired \in BOOLEAN /\ d.xTicksToWait \in Ticks
    BY <2>3, CallFields
  <2> HIDE DEF d, elapsed
  <2>6. d.xTicksToWait <= c.xTicksToWait
    BY <2>3, <2>4, <2>5, <1>f, SMT DEF Ticks
  <2>7. c.op = "post" => c.xTicksToWait = portMAX_DELAY
    <3>1. c.xTicksToWait <= c.asked
      BY <1>t DEF CallOk
    <3>2. c.asked # 0
      BY <3>1, <2>2, <1>f, SMT DEF Ticks
    <3> QED BY <3>2, <1>t DEF CallOk
  <2>8. /\ c.op \in {"fetch", "post"} /\ c.xTicksToWait <= c.asked
        /\ c.op = "post" => t \in Posters /\ c.asked \in {0, portMAX_DELAY}
        /\ c.asked = portMAX_DELAY => c.xTicksToWait = portMAX_DELAY
        /\ c.asked # portMAX_DELAY => c.entrySet
    BY <1>t, <2>1 DEF CallOk, Blocking
  <2>9. d.xTicksToWait <= d.asked
    BY <2>3, <2>5, <2>6, <2>8, <1>f, SMT DEF Ticks
  <2>10. c.xTicksToWait = portMAX_DELAY => ~d.expired
    BY <2>3
  <2>11. CallOk(t, x, d)
    BY <2>3, <2>7, <2>8, <2>9, <2>10 DEF CallOk, Blocking
  <2>12. /\ pc'[t] = x /\ call'[t] = d
         /\ \A u \in Tasks : u # t => pc'[u] = pc[u] /\ call'[u] = call[u]
    BY <2>1, <1>t
  <2> QED BY <2>11, <2>12, CallStepOf
<1>5. CASE CheckAgain(t)
  <2>1. pc[t] = "check" /\ UNCHANGED call
        /\ pc' = [pc EXCEPT ![t] = IF NotNow(t) THEN "place" ELSE "unlock"]
    BY <1>5 DEF CheckAgain, Goto
  <2>2. CallOk(t, IF NotNow(t) THEN "place" ELSE "unlock", c)
    BY <2>1, <1>t DEF CallOk, Blocking
  <2> QED BY <2>1, <2>2, <1>m
<1>6. CASE Place(t)
  <2>1. pc[t] = "place" /\ UNCHANGED call /\ pc' = [pc EXCEPT ![t] = "unlock"]
    BY <1>6 DEF Place, Goto
  <2>2. CallOk(t, "unlock", c)
    BY <2>1, <1>t DEF CallOk, Blocking
  <2> QED BY <2>1, <2>2, <1>m
<1>7. CASE UnlockQueue(t)
  <2>1. pc[t] = "unlock" /\ UNCHANGED call /\ pc' = [pc EXCEPT ![t] = "resume"]
    BY <1>7 DEF UnlockQueue, Goto
  <2>2. CallOk(t, "resume", c)
    BY <2>1, <1>t DEF CallOk, Blocking
  <2> QED BY <2>1, <2>2, <1>m
<1>8. CASE Resume(t)
  <2> DEFINE x == IF c.expired \/ c.op = "sleep" THEN "recheck" ELSE "try"
  <2>1. pc[t] = "resume" /\ UNCHANGED call /\ pc' = [pc EXCEPT ![t] = x]
    BY <1>8 DEF Resume, Goto
  <2>2. CallOk(t, x, c)
    BY <2>1, <1>t, <1>f DEF CallOk, Blocking
  <2> QED BY <2>1, <2>2, <1>m
<1>9. CASE Recheck(t)
  <2>1. CASE call[t].op = "fetch" /\ pc[t] = "recheck" /\ pc' = [pc EXCEPT ![t] = "try"] /\ UNCHANGED call
    <3>1. CallOk(t, "try", c)
      BY <2>1, <1>t DEF CallOk, Blocking
    <3> QED BY <2>1, <3>1, <1>m
  <2>2. CASE Return(t)
    BY <2>2, <1>r
  <2> QED BY <1>9, <2>1, <2>2 DEF Recheck
<1> QED
  BY <1>1, <1>2, <1>3, <1>4, <1>5, <1>6, <1>7, <1>8, <1>9 DEF Step

LEMMA BeginCall ==
  ASSUME HeldInv, CallInv, NEW t \in Tasks, NEW op \in {"fetch", "post"}, NEW ticks \in Ticks,
         op = "post" => t \in Posters /\ ticks \in {0, portMAX_DELAY}, Begin(t, op, ticks)
  PROVE  CallInv'
<1> DEFINE c == [NoCall EXCEPT !.op = op, !.asked = ticks, !.xTicksToWait = ticks]
<1>1. /\ c \in Calls /\ c.op = op /\ c.asked = ticks /\ c.xTicksToWait = ticks
      /\ c.entrySet = FALSE /\ c.expired = FALSE
  <2>1. ticks \in 0 .. portMAX_DELAY
    BY Sizes DEF Ticks
  <2> QED BY <2>1, NoCallIs DEF Calls
<1>2. /\ pc' = [pc EXCEPT ![t] = "try"] /\ call' = [call EXCEPT ![t] = c]
  BY DEF Begin, Goto
<1> HIDE DEF c
<1>3. /\ pc'[t] = "try" /\ call'[t] = c
      /\ \A u \in Tasks : u # t => pc'[u] = pc[u] /\ call'[u] = call[u]
  BY <1>2, Types
<1>4. ticks <= ticks
  BY DEF Ticks
<1>5. CallOk(t, "try", c)
  BY <1>1, <1>4 DEF CallOk, Blocking
<1> QED BY <1>3, <1>5, CallStepOf

LEMMA MsleepCall ==
  ASSUME HeldInv, CallInv, NEW t \in Tasks, Msleep(t)
  PROVE  CallInv'
<1>0. PICK ms \in SleepMs :
        /\ ms \div TickMs > 0
        /\ pc' = [pc EXCEPT ![t] = "resume"]
        /\ call' = [call EXCEPT ![t] = [NoCall EXCEPT !.op = "sleep", !.asked = ms \div TickMs]]
  BY DEF Msleep
<1> DEFINE ticks == ms \div TickMs
           c == [NoCall EXCEPT !.op = "sleep", !.asked = ticks]
<1>1. ticks \in Ticks /\ ticks < portMAX_DELAY
  <2>1. ms \in Nat /\ TickMs \in Nat \ {0} /\ ticks < portMAX_DELAY /\ ticks > 0
    BY <1>0, QueueAssumption
  <2>2. ticks \in Int
    BY <2>1
  <2> HIDE DEF ticks
  <2> QED BY <2>1, <2>2, Sizes DEF Ticks
<1>2. pc' = [pc EXCEPT ![t] = "resume"] /\ call' = [call EXCEPT ![t] = c]
  BY <1>0
<1> HIDE DEF ticks
<1>3. /\ c.op = "sleep" /\ c.asked = ticks /\ c.xTicksToWait = 0 /\ c.expired = FALSE
  BY <1>1, SleepIs
<1> HIDE DEF c
<1>4. /\ pc'[t] = "resume" /\ call'[t] = c
      /\ \A u \in Tasks : u # t => pc'[u] = pc[u] /\ call'[u] = call[u]
  BY <1>2, Types
<1>5. ticks # portMAX_DELAY /\ 0 <= ticks
  BY <1>1, Sizes DEF Ticks
<1>6. CallOk(t, "resume", c)
  BY <1>3, <1>5 DEF CallOk, Blocking
<1> QED BY <1>4, <1>6, CallStepOf

LEMMA HeldInit ==
  ASSUME Init
  PROVE  HeldInv /\ CallInv
<1>1. PICK n \in Ticks :
        k = [tick |-> n, ovf |-> 0, next |-> portMAX_DELAY,
             list |-> [t \in Tasks |-> "ready"], wake |-> [t \in Tasks |-> 0],
             ev |-> [e \in EventLists |-> << >>]]
  BY DEF Init, KernelInit, Ticks
<1>2. /\ k.list = [t \in Tasks |-> "ready"] /\ k.ev = [e \in EventLists |-> << >>]
      /\ k \in KernelType
  <2>1. << >> \in Seq(Tasks) /\ 0 \in 0 .. OverflowRange - 1
    BY Sizes
  <2>2. n \in 0 .. TickRange - 1 /\ 0 \in 0 .. TickRange - 1 /\ portMAX_DELAY \in 0 .. TickRange - 1
    BY Sizes DEF Ticks
  <2> QED BY <1>1, <2>1, <2>2 DEF KernelType
<1>3. /\ xPendedTicks = 0 /\ suspender = NoTask /\ pendingReady = {}
      /\ age = [t \in Tasks |-> -1]
      /\ buf = [i \in 0 .. Length - 1 |-> NoMsg]
      /\ pcWriteTo = 0 /\ pcReadFrom = Length - 1 /\ uxMessagesWaiting = 0
      /\ cTxLock = queueUNLOCKED /\ pc = [t \in Tasks |-> "idle"]
      /\ call = [t \in Tasks |-> NoCall] /\ got = [t \in Tasks |-> NoMsg]
  BY DEF Init, KernelInit
<1>4. MaxAge \in Nat /\ Length \in Nat \ {0} /\ NoCall \in Calls
  BY Sizes, QueueAssumption, NoCallIs DEF MaxAge
<1>5. TypeOK
  <2>1. KernelTypeOK
    BY <1>2, <1>3, <1>4, Sizes DEF KernelTypeOK
  <2> QED BY <1>3, <1>4, <2>1 DEF TypeOK, queueUNLOCKED
<1>6. Sound(k)
  BY <1>2 DEF Sound
<1>7. LockInv
  <2>1. \A t \in Tasks : pc[t] \notin Suspended /\ pc[t] \notin Locked /\ pc[t] \notin Blocking
    BY <1>3 DEF Suspended, Locked, Blocking
  <2>2. \A t \in Tasks : suspender # t
    BY <1>3, Sizes
  <2>3. \A t \in Tasks : age[t] + xPendedTicks <= MaxAge
    BY <1>3, <1>4
  <2> QED BY <1>3, <2>1, <2>2, <2>3 DEF LockInv, queueUNLOCKED
<1>8. EventInv
  <2>1. \A e \in EventLists : k.ev[e] = << >>
    BY <1>2
  <2>2. Once(<< >>) /\ Members(<< >>) = {}
    BY DEF Once, Members
  <2>3. Waiting(k)
    BY <2>1, <2>2 DEF Waiting, EventLists
  <2> QED BY <1>3, <2>3 DEF EventInv
<1>9. CallInv
  BY <1>3, IdleOk DEF CallInv
<1> QED
  BY <1>5, <1>6, <1>7, <1>8, <1>9 DEF HeldInv

LEMMA HeldNext ==
  ASSUME HeldInv, CallInv, [Next]_vars
  PROVE  HeldInv' /\ CallInv'
<1>1. ASSUME NEW t \in Fetchers, Fetch(t) PROVE HeldInv' /\ CallInv'
  <2>1. PICK ticks \in Ticks : t \in Tasks /\ Begin(t, "fetch", ticks)
    BY <1>1, FetchTicks
  <2> QED BY <2>1, BeginStep, BeginCall
<1>2. ASSUME NEW t \in Posters, Post(t) PROVE HeldInv' /\ CallInv'
  <2>1. PICK ticks \in {0, portMAX_DELAY} : Begin(t, "post", ticks)
    BY <1>2 DEF Post
  <2>2. t \in Tasks /\ ticks \in Ticks
    BY QueueAssumption, Sizes
  <2> QED BY <2>1, <2>2, BeginStep, BeginCall
<1>3. ASSUME NEW t \in Posters, Msleep(t) PROVE HeldInv' /\ CallInv'
  <2>1. t \in Tasks
    BY QueueAssumption
  <2> QED BY <1>3, <2>1, MsleepStep, MsleepCall
<1>4. ASSUME NEW t \in Tasks, Step(t) PROVE HeldInv' /\ CallInv'
  <2>1. CallInv'
    BY <1>4, CallStep
  <2>2. HeldInv'
    BY <1>4, TransferStep, FailStep, NoteStep, LockStep, CheckStep, PlaceStep, UnlockStep,
       ResumeStep, RecheckStep DEF Step
  <2> QED BY <2>1, <2>2
<1>5. CASE PostFromISR
  <2>1. CallInv'
    BY <1>5 DEF PostFromISR, CallInv
  <2> QED BY <1>5, <2>1, IsrStep
<1>6. CASE TickInterrupt
  <2>1. CallInv'
    BY <1>6 DEF TickInterrupt, CallInv
  <2> QED BY <1>6, <2>1, TickStepHeld
<1>7. CASE UNCHANGED vars
  <2> USE <1>7 DEF vars, kernelVars, queueVars
  <2>1. TypeOK'
    BY DEF HeldInv, TypeOK, KernelTypeOK
  <2>2. Sound(k)' /\ CallInv'
    BY DEF HeldInv, Sound, CallInv
  <2>3. LockInv'
    BY DEF HeldInv, LockInv
  <2>4. EventInv'
    BY DEF HeldInv, EventInv, Waiting
  <2> QED BY <2>1, <2>2, <2>3, <2>4 DEF HeldInv
<1> QED
  BY <1>1, <1>2, <1>3, <1>4, <1>5, <1>6, <1>7 DEF Next

LEMMA QueueHeld == Spec => [](HeldInv /\ CallInv)
<1>1. Init => HeldInv /\ CallInv
  BY HeldInit
<1>2. (HeldInv /\ CallInv) /\ [Next]_vars => (HeldInv /\ CallInv)'
  BY HeldNext
<1> QED BY <1>1, <1>2, PTL DEF Spec

\* For any tasks, any length of the queue and any range of the tick count, the
\* ring pointers, the lock count and the kernel's delayed lists keep their
\* shape: at every instant a task on the delayed list is due later in this
\* turn of the count and not before xNextTaskUnblockTime, one on the overflow
\* list in the next turn, however many ticks are made up for at a time.
THEOREM QueueKept == Spec => []QueueInv
<1>1. HeldInv => QueueInv
  BY DEF HeldInv, QueueInv, DelayListsSound, Sound
<1> QED BY <1>1, QueueHeld, PTL

-----------------------------------------------------------------------------
(* The blocking time. *)

\* A timed call that blocked began its wait at onEntering: the ticks since then
\* are its age less the time it had already used up, and the count of overflows
\* tells whether the tick count has wrapped in between.
Entered(q, a, c) ==
  \E w \in {0, 1} :
    /\ a - (c.asked - c.xTicksToWait) =
         q.tick - c.onEntering + (IF w = 1 THEN TickRange ELSE 0)
    /\ a - (c.asked - c.xTicksToWait) >= 0
    /\ q.ovf = (c.ovf + w) % OverflowRange

\* One task, against the kernel's record and its age.
TimedOk(q, a, c, t) ==
  /\ q.list[t] \in Timed => a >= 0 /\ a + Until(q.wake[t], q.tick) = c.asked
  /\ c.entrySet /\ ~c.expired => Entered(q, a, c)

WaitOk(a, c, p) ==
  /\ c.op \in {"fetch", "post"} /\ ~c.entrySet => c.xTicksToWait = c.asked
  /\ p \in {"check", "place"} /\ c.asked # portMAX_DELAY => a + c.xTicksToWait = c.asked

\* The inductive invariant behind BlockedForTimeout.
TimeInv ==
  \A t \in Tasks : TimedOk(k, age[t], call[t], t) /\ WaitOk(age[t], call[t], pc[t])

LEMMA UntilTick ==
  ASSUME NEW at \in Ticks, NEW now \in Ticks, at # now
  PROVE  Until(at, now) = Until(at, (now + 1) % TickRange) + 1
<1> DEFINE n == (now + 1) % TickRange
<1>1. n \in Ticks /\ n = IF now = TickRange - 1 THEN 0 ELSE now + 1
  BY TickStep
<1>2. Until(at, now) = IF now <= at THEN at - now ELSE at - now + TickRange
  BY UntilIs
<1> HIDE DEF n
<1>3. Until(at, n) = IF n <= at THEN at - n ELSE at - n + TickRange
  BY <1>1, UntilIs
<1>4. Until(at, now) = Until(at, n) + 1
  BY <1>1, <1>2, <1>3, Sizes, SMT DEF Ticks
<1> QED BY <1>4 DEF n

\* The wrap is counted once: a call lasts at most one turn of the tick count.
LEMMA EnteredTick ==
  ASSUME NEW q \in KernelType, NEW r \in KernelType,
         r.tick = (q.tick + 1) % TickRange,
         r.ovf = IF r.tick = 0 THEN (q.ovf + 1) % OverflowRange ELSE q.ovf,
         NEW c \in Calls, c.xTicksToWait <= c.asked,
         NEW a \in Int, a + 1 <= MaxAge, Entered(q, a, c)
  PROVE  Entered(r, a + 1, c)
<1>1. PICK w \in {0, 1} :
        /\ a - (c.asked - c.xTicksToWait) =
             q.tick - c.onEntering + (IF w = 1 THEN TickRange ELSE 0)
        /\ a - (c.asked - c.xTicksToWait) >= 0
        /\ q.ovf = (c.ovf + w) % OverflowRange
  BY DEF Entered
<1>2. /\ q.tick \in Ticks /\ r.tick \in Ticks /\ c.onEntering \in Ticks
      /\ c.asked \in Ticks /\ c.xTicksToWait \in Ticks
      /\ c.ovf \in 0 .. OverflowRange - 1 /\ q.ovf \in 0 .. OverflowRange - 1
  BY Fields, CallFields
<1>3. r.tick = IF q.tick = TickRange - 1 THEN 0 ELSE q.tick + 1
  BY <1>2, TickStep
<1> DEFINE used == a - (c.asked - c.xTicksToWait)
           used1 == (a + 1) - (c.asked - c.xTicksToWait)
<1>u. used \in Int /\ used1 = used + 1 /\ used <= a /\ used1 <= MaxAge /\ MaxAge = TickRange
  <2>1. c.asked \in Int /\ c.xTicksToWait \in Int
    BY <1>2, Sizes DEF Ticks
  <2>2. TickRange \in Int /\ MaxAge = TickRange
    BY Sizes DEF MaxAge
  <2> QED BY <2>1, <2>2
<1>v. used = q.tick - c.onEntering + (IF w = 1 THEN TickRange ELSE 0) /\ used >= 0
  BY <1>1
<1> HIDE DEF used, used1
<1>4. CASE r.tick # 0
  <2>1. used1 = r.tick - c.onEntering + (IF w = 1 THEN TickRange ELSE 0) /\ used1 >= 0
    <3>1. r.tick = q.tick + 1 /\ q.tick \in Int /\ c.onEntering \in Int /\ TickRange \in Int
      BY <1>2, <1>3, <1>4, Sizes DEF Ticks
    <3> QED BY <3>1, <1>u, <1>v
  <2>2. r.ovf = (c.ovf + w) % OverflowRange
    BY <1>1, <1>4
  <2> QED BY <2>1, <2>2 DEF Entered, used1
<1>5. CASE r.tick = 0
  <2>1. q.tick = TickRange - 1
    BY <1>2, <1>3, <1>5, SMT DEF Ticks
  <2>2. w = 0
    <3> SUFFICES ASSUME w = 1 PROVE FALSE
      OBVIOUS
    <3> QED BY <2>1, <1>2, <1>u, <1>v, Sizes, SMT DEF Ticks
  <2>3. q.ovf = c.ovf
    <3>1. q.ovf = c.ovf % OverflowRange
      BY <1>1, <1>2, <2>2
    <3> QED BY <3>1, <1>2, Sizes, SMT
  <2>4. r.ovf = (c.ovf + 1) % OverflowRange
    BY <2>3, <1>5
  <2>5. used1 = r.tick - c.onEntering + TickRange /\ used1 >= 0
    BY <1>2, <1>5, <2>1, <2>2, <1>u, <1>v, Sizes, SMT DEF Ticks
  <2> QED BY <2>4, <2>5 DEF Entered, used1
<1> QED BY <1>4, <1>5

\* One tick, for one task.
LEMMA TimedTick ==
  ASSUME NEW q \in KernelType, Sound(q), NEW r, Ticked(q, r), NEW t \in Tasks,
         NEW c \in Calls, c.xTicksToWait <= c.asked,
         NEW a \in Int, TimedOk(q, a, c, t),
         NEW b, a >= 0 => b = a + 1 /\ b <= MaxAge
  PROVE  TimedOk(r, b, c, t)
<1>1. /\ r \in KernelType /\ r.tick = (q.tick + 1) % TickRange
      /\ r.ovf = IF r.tick = 0 THEN (q.ovf + 1) % OverflowRange ELSE q.ovf
  BY DEF Ticked
<1>2. q.tick \in Ticks /\ q.wake[t] \in Ticks
  BY Fields
<1>3. ASSUME r.list[t] \in Timed
      PROVE  b >= 0 /\ b + Until(r.wake[t], r.tick) = c.asked
  <2>1. q.list[t] \in Timed /\ r.wake[t] = q.wake[t]
    BY <1>3 DEF Ticked, Left, Timed
  <2>2. q.wake[t] # q.tick
    BY <2>1, <1>2 DEF Sound, Timed, Ticks
  <2>3. Until(q.wake[t], q.tick) = Until(q.wake[t], r.tick) + 1
    BY <1>1, <1>2, <2>2, UntilTick
  <2>4. a >= 0 /\ a + Until(q.wake[t], q.tick) = c.asked
    BY <2>1 DEF TimedOk
  <2>5. Until(q.wake[t], r.tick) \in Int
    <3>1. r.tick \in Ticks
      BY <1>1, Fields
    <3>2. Until(q.wake[t], r.tick) = IF r.tick <= q.wake[t] THEN q.wake[t] - r.tick
                                     ELSE q.wake[t] - r.tick + TickRange
      BY <3>1, <1>2, UntilIs
    <3> QED BY <3>1, <3>2, <1>2, Sizes, SMT DEF Ticks
  <2> QED BY <2>1, <2>3, <2>4, <2>5
<1>4. ASSUME c.entrySet, ~c.expired PROVE Entered(r, b, c)
  <2>1. Entered(q, a, c)
    BY <1>4 DEF TimedOk
  <2>2. a >= 0
    <3>1. a - (c.asked - c.xTicksToWait) >= 0
      BY <2>1 DEF Entered
    <3>2. c.asked \in Ticks /\ c.xTicksToWait \in Ticks
      BY CallFields
    <3> QED BY <3>1, <3>2, SMT DEF Ticks
  <2>3. Entered(r, a + 1, c)
    BY <1>1, <2>1, <2>2, EnteredTick
  <2> QED BY <2>2, <2>3
<1> QED BY <1>3, <1>4 DEF TimedOk

\* The step of one task, at one instant.
LEMMA TimeFrame ==
  ASSUME TimeInv, NEW t \in Tasks, k'.tick = k.tick, k'.ovf = k.ovf,
         \A u \in Tasks : u # t =>
           /\ k'.list[u] \in Timed => k.list[u] \in Timed /\ k'.wake[u] = k.wake[u]
           /\ pc'[u] = pc[u] /\ call'[u] = call[u] /\ age'[u] = age[u],
         TimedOk(k', age'[t], call'[t], t), WaitOk(age'[t], call'[t], pc'[t])
  PROVE  TimeInv'
<1> SUFFICES ASSUME NEW u \in Tasks
             PROVE  TimedOk(k', age'[u], call'[u], u) /\ WaitOk(age'[u], call'[u], pc'[u])
  BY DEF TimeInv
<1>1. CASE u = t
  BY <1>1
<1>2. CASE u # t
  <2>1. TimedOk(k, age[u], call[u], u) /\ WaitOk(age[u], call[u], pc[u])
    BY DEF TimeInv
  <2>2. /\ pc'[u] = pc[u] /\ call'[u] = call[u] /\ age'[u] = age[u]
        /\ k'.list[u] \in Timed => k.list[u] \in Timed /\ k'.wake[u] = k.wake[u]
    BY <1>2
  <2>3. Entered(k, age[u], call[u]) => Entered(k', age[u], call[u])
    BY DEF Entered
  <2> QED BY <2>1, <2>2, <2>3 DEF TimedOk
<1> QED BY <1>1, <1>2

\* Readying tasks, or leaving them alone, keeps what the others wait for.
LEMMA RemovedTime ==
  ASSUME NEW e, NEW n, NEW W, Removed(e, n, W)
  PROVE  /\ k'.tick = k.tick /\ k'.ovf = k.ovf
         /\ \A u \in Tasks :
              k'.list[u] \in Timed => k.list[u] \in Timed /\ k'.wake[u] = k.wake[u]
  BY DEF Removed, Timed

LEMMA IdleTime ==
  ASSUME NEW q, NEW a, NEW c, NEW t, NEW p, q.list[t] = "ready", c.entrySet = FALSE,
         c.op \in {"fetch", "post"} => c.xTicksToWait = c.asked, p \notin {"check", "place"}
  PROVE  TimedOk(q, a, c, t) /\ WaitOk(a, c, p)
  BY DEF TimedOk, WaitOk, Timed

\* xTaskCheckForTimeOut measures the ticks since the call began its wait.
LEMMA CheckTime ==
  ASSUME HeldInv, CallInv, TimeInv, NEW t \in Tasks, LockQueue(t)
  PROVE  TimeInv'
<1> DEFINE c == call[t]
           a == age[t]
           d == CheckForTimeOut(c)
           x == IF d.expired THEN "unlock" ELSE "check"
           elapsed == Until(k.tick, c.onEntering)
           up == \/ k.ovf # c.ovf /\ k.tick >= c.onEntering
                 \/ elapsed >= c.xTicksToWait
<1>1. /\ CanRun(t) /\ pc[t] = "lock" /\ call' = [call EXCEPT ![t] = d]
      /\ pc' = [pc EXCEPT ![t] = x] /\ k' = k /\ age' = age
  BY DEF LockQueue
<1>2. c \in Calls /\ k \in KernelType /\ a \in Int
  BY Types
<1>3. /\ c.op \in {"fetch", "post"} /\ c.asked \in Ticks /\ c.xTicksToWait \in Ticks
      /\ c.asked # portMAX_DELAY => c.entrySet /\ ~c.expired
      /\ c.asked = portMAX_DELAY => c.xTicksToWait = portMAX_DELAY
      /\ c.xTicksToWait <= c.asked
  BY <1>1, <1>2, CallFields DEF CallInv, CallOk, Blocking
<1>4. k.list[t] = "ready"
  <2>1. pc[t] \notin Suspended
    BY <1>1 DEF Suspended, Locked
  <2> QED BY <1>1, <2>1, FreeRun
<1>5. /\ d \in Calls /\ d.op = c.op /\ d.asked = c.asked /\ d.entrySet = c.entrySet
      /\ c.xTicksToWait = portMAX_DELAY =>
           /\ d.expired = FALSE /\ d.xTicksToWait = c.xTicksToWait
           /\ d.onEntering = c.onEntering /\ d.ovf = c.ovf
      /\ c.xTicksToWait # portMAX_DELAY /\ up => d.expired = TRUE /\ d.xTicksToWait = 0
      /\ c.xTicksToWait # portMAX_DELAY /\ ~up =>
           /\ d.expired = FALSE /\ d.xTicksToWait = c.xTicksToWait - elapsed
           /\ d.onEntering = k.tick /\ d.ovf = k.ovf
  BY <1>2, CheckIs
<1> HIDE DEF d
<1>6. /\ pc'[t] = x /\ call'[t] = d /\ age'[t] = a
      /\ \A u \in Tasks : u # t => pc'[u] = pc[u] /\ call'[u] = call[u]
  BY <1>1, Types
<1>7. TimedOk(k, a, c, t) /\ WaitOk(a, c, pc[t])
  BY DEF TimeInv
<1>8. k.list[t] \notin Timed
  BY <1>4 DEF Timed
<1>9. TimedOk(k, a, d, t) /\ WaitOk(a, d, x)
  <2>1. CASE c.xTicksToWait = portMAX_DELAY
    <3>1. c.asked = portMAX_DELAY
      BY <2>1, <1>3, Sizes DEF Ticks
    <3>2. d.xTicksToWait = d.asked /\ d.asked = portMAX_DELAY /\ d.expired = FALSE
      BY <3>1, <2>1, <1>5
    <3>3. d.entrySet /\ ~d.expired => Entered(k, a, d)
      <4> SUFFICES ASSUME d.entrySet PROVE Entered(k, a, d)
        OBVIOUS
      <4>1. c.entrySet /\ ~c.expired
        BY <1>5, <3>1, <2>1, Sizes DEF CallInv, CallOk, portMAX_DELAY
      <4>2. Entered(k, a, c)
        BY <4>1, <1>7 DEF TimedOk
      <4> QED BY <4>2, <2>1, <1>5 DEF Entered
    <3> QED BY <3>2, <3>3, <1>8 DEF TimedOk, WaitOk
  <2>2. CASE c.xTicksToWait # portMAX_DELAY /\ up
    <3>1. d.expired = TRUE /\ x = "unlock" /\ d.entrySet
      BY <2>2, <1>3, <1>5
    <3> QED BY <3>1, <1>8 DEF TimedOk, WaitOk
  <2>3. CASE c.xTicksToWait # portMAX_DELAY /\ ~up
    <3>1. c.asked # portMAX_DELAY /\ c.entrySet /\ ~c.expired
      BY <2>3, <1>3
    <3>2. PICK w \in {0, 1} :
            /\ a - (c.asked - c.xTicksToWait) =
                 k.tick - c.onEntering + (IF w = 1 THEN TickRange ELSE 0)
            /\ a - (c.asked - c.xTicksToWait) >= 0
            /\ k.ovf = (c.ovf + w) % OverflowRange
      BY <3>1, <1>7 DEF TimedOk, Entered
    <3>t. /\ k.tick \in Ticks /\ c.onEntering \in Ticks
          /\ c.ovf \in 0 .. OverflowRange - 1 /\ k.ovf \in 0 .. OverflowRange - 1
      BY <1>2, Fields, CallFields
    <3>3. elapsed = IF c.onEntering <= k.tick THEN k.tick - c.onEntering
                    ELSE k.tick - c.onEntering + TickRange
      BY <3>t, UntilIs
    <3> HIDE DEF elapsed
    <3>4. a - (c.asked - c.xTicksToWait) = elapsed
      <4>i. k.tick \in Int /\ c.onEntering \in Int /\ TickRange \in Int
        BY <3>t, Sizes DEF Ticks
      <4>1. CASE w = 0
        <5>1. k.tick - c.onEntering >= 0
          BY <4>1, <3>2, <4>i
        <5> QED BY <4>1, <5>1, <3>2, <3>3, <4>i
      <4>2. CASE w = 1
        <5>1. k.ovf # c.ovf
          <6>1. k.ovf = (c.ovf + 1) % OverflowRange
            BY <4>2, <3>2
          <6> QED BY <6>1, <3>t, Sizes, SMT
        <5>2. ~(k.tick >= c.onEntering)
          BY <5>1, <2>3
        <5> QED BY <4>2, <5>2, <3>2, <3>3, <4>i
      <4> QED BY <4>1, <4>2
    <3>5. /\ d.expired = FALSE /\ d.xTicksToWait = c.xTicksToWait - elapsed
          /\ d.onEntering = k.tick /\ d.ovf = k.ovf /\ d.asked = c.asked /\ d.entrySet
      BY <2>3, <3>1, <1>5
    <3>i. c.asked \in Int /\ c.xTicksToWait \in Int /\ elapsed \in Int /\ k.tick \in Int
      BY <1>3, <3>3, <3>t, Sizes DEF Ticks
    <3>6. a + d.xTicksToWait = d.asked
      BY <3>4, <3>5, <3>i, <1>2
    <3>7. a - (d.asked - d.xTicksToWait) = 0 /\ k.tick - d.onEntering = 0
      BY <3>6, <3>5, <3>i, <1>2
    <3>8. k.ovf = (d.ovf + 0) % OverflowRange
      <4>1. k.ovf = k.ovf % OverflowRange /\ k.ovf + 0 = k.ovf
        BY <3>t, Sizes, SMT
      <4> QED BY <4>1, <3>5
    <3>9. Entered(k, a, d)
      <4>1. /\ a - (d.asked - d.xTicksToWait) = k.tick - d.onEntering + (IF 0 = 1 THEN TickRange ELSE 0)
            /\ a - (d.asked - d.xTicksToWait) >= 0
        BY <3>7
      <4> QED BY <4>1, <3>8 DEF Entered
    <3> QED BY <3>5, <3>6, <3>9, <1>8 DEF TimedOk, WaitOk
  <2> QED BY <2>1, <2>2, <2>3
<1> QED
  BY <1>1, <1>6, <1>9, TimeFrame

LEMMA TimeStep ==
  ASSUME HeldInv, CallInv, TimeInv, NEW t \in Tasks, Step(t), ~Resume(t)
  PROVE  TimeInv'
<1>t. /\ pc \in [Tasks -> Programs] /\ call \in [Tasks -> Calls] /\ k \in KernelType
      /\ age \in [Tasks -> -1 .. MaxAge]
  BY Types
<1>o. TimedOk(k, age[t], call[t], t) /\ WaitOk(age[t], call[t], pc[t])
  BY DEF TimeInv
<1>r. ASSUME Return(t), k'.tick = k.tick, k'.ovf = k.ovf, k'.list[t] = "ready",
             \A u \in Tasks :
               k'.list[u] \in Timed => k.list[u] \in Timed /\ k'.wake[u] = k.wake[u]
      PROVE  TimeInv'
  <2>1. /\ pc'[t] = "idle" /\ call'[t] = NoCall
        /\ \A u \in Tasks : u # t => pc'[u] = pc[u] /\ call'[u] = call[u] /\ age'[u] = age[u]
    BY <1>r, <1>t DEF Return
  <2>2. TimedOk(k', age'[t], NoCall, t) /\ WaitOk(age'[t], NoCall, "idle")
    BY <1>r, NoCallIs, IdleTime
  <2> QED BY <1>r, <2>1, <2>2, TimeFrame
<1>m. ASSUME NEW x, pc' = [pc EXCEPT ![t] = x], UNCHANGED <<call, age>>,
             WaitOk(age[t], call[t], x), k'.tick = k.tick, k'.ovf = k.ovf,
             \A u \in Tasks :
               k'.list[u] \in Timed => k.list[u] \in Timed /\ k'.wake[u] = k.wake[u]
      PROVE  TimeInv'
  <2>1. /\ pc'[t] = x /\ call'[t] = call[t] /\ age'[t] = age[t]
        /\ \A u \in Tasks : u # t => pc'[u] = pc[u] /\ call'[u] = call[u] /\ age'[u] = age[u]
    BY <1>m, <1>t
  <2>2. Entered(k, age[t], call[t]) => Entered(k', age[t], call[t])
    BY <1>m DEF Entered
  <2>3. TimedOk(k', age[t], call[t], t)
    BY <1>o, <1>m, <2>2 DEF TimedOk
  <2> QED BY <1>m, <2>1, <2>3, TimeFrame
<1>f. ASSUME CanRun(t), pc[t] \notin Suspended
      PROVE  k.list[t] = "ready"
  BY <1>f, FreeRun
<1>n. \A p \in {"idle", "try", "lock", "unlock", "resume", "recheck"} :
        p \notin {"check", "place"}
  OBVIOUS
<1>1. CASE Transfer(t)
  <2>1. PICK e \in EventLists : RemoveFromEventList(e, 1)
    BY <1>1 DEF Transfer, EventLists
  <2>2. Once(k.ev[e]) /\ 1 \in Nat
    BY DEF HeldInv, EventInv, Waiting
  <2>3. PICK W : Removed(e, 1, W)
    BY <1>t, <2>1, <2>2, RemoveIs
  <2>4. k.list[t] = "ready" /\ Return(t)
    BY <1>1, <1>f DEF Transfer, Suspended, Locked
  <2>5. k'.list[t] = "ready"
    BY <2>3, <2>4 DEF Removed
  <2> QED BY <2>3, <2>4, <2>5, <1>r, RemovedTime
<1>2. CASE Fail(t)
  <2>1. k.list[t] = "ready" /\ Return(t) /\ k' = k
    BY <1>2, <1>f DEF Fail, Suspended, Locked
  <2> QED BY <2>1, <1>r
<1>3. CASE NoteTime(t)
  <2> DEFINE c == call[t]
             d == IF c.entrySet \/ c.asked = portMAX_DELAY THEN c
                  ELSE TimeOutState([c EXCEPT !.entrySet = TRUE])
             b == IF c.entrySet \/ c.asked = portMAX_DELAY THEN age[t] ELSE 0
  <2>1. /\ CanRun(t) /\ pc[t] = "try" /\ pc' = [pc EXCEPT ![t] = "lock"]
        /\ call' = [call EXCEPT ![t] = d] /\ k' = k /\ c.xTicksToWait # 0
    BY <1>3, <1>t DEF NoteTime, Goto
  <2>2. age' = [age EXCEPT ![t] = b]
    BY <1>3, <1>t DEF NoteTime
  <2>3. k.list[t] = "ready" /\ c.op \in {"fetch", "post"} /\ c \in Calls
    BY <2>1, <1>f, <1>t DEF Suspended, Locked, CallInv, CallOk
  <2>4. TimedOk(k, b, d, t) /\ WaitOk(b, d, "lock")
    <3>1. CASE c.entrySet \/ c.asked = portMAX_DELAY
      <4>1. d = c /\ b = age[t]
        BY <3>1
      <4> HIDE DEF d, b
      <4> QED BY <4>1, <1>o DEF WaitOk
    <3>2. CASE ~(c.entrySet \/ c.asked = portMAX_DELAY)
      <4>1. d = TimeOutState([c EXCEPT !.entrySet = TRUE]) /\ b = 0
        BY <3>2
      <4> HIDE DEF d, b
      <4>2. /\ d \in Calls /\ d.op = c.op /\ d.asked = c.asked
            /\ d.xTicksToWait = c.xTicksToWait /\ d.entrySet = TRUE
            /\ d.onEntering = k.tick /\ d.ovf = k.ovf
        BY <4>1, <2>3, <1>t, NoteIs
      <4>3. c.xTicksToWait = c.asked
        BY <3>2, <2>3, <1>o DEF WaitOk
      <4>4. c.asked \in Int /\ k.tick \in Int /\ k.ovf \in 0 .. OverflowRange - 1
        BY <2>3, <1>t, CallFields, Fields, Sizes DEF Ticks
      <4>5. /\ b - (d.asked - d.xTicksToWait) = k.tick - d.onEntering + (IF 0 = 1 THEN TickRange ELSE 0)
            /\ b - (d.asked - d.xTicksToWait) >= 0
        BY <4>1, <4>2, <4>3, <4>4
      <4>6. k.ovf = (d.ovf + 0) % OverflowRange
        <5>1. k.ovf = k.ovf % OverflowRange /\ k.ovf + 0 = k.ovf
          BY <4>4, Sizes, SMT
        <5> QED BY <5>1, <4>2
      <4>7. Entered(k, b, d)
        BY <4>5, <4>6 DEF Entered
      <4> QED BY <4>2, <4>7, <2>3 DEF TimedOk, WaitOk, Timed
    <3> QED BY <3>1, <3>2
  <2> HIDE DEF b, d
  <2>5. /\ pc'[t] = "lock" /\ call'[t] = d /\ age'[t] = b
        /\ \A u \in Tasks : u # t => pc'[u] = pc[u] /\ call'[u] = call[u] /\ age'[u] = age[u]
    BY <2>1, <2>2, <1>t
  <2> QED BY <2>1, <2>4, <2>5, TimeFrame
<1>4. CASE LockQueue(t)
  BY <1>4, CheckTime
<1>5. CASE CheckAgain(t)
  <2> DEFINE x == IF NotNow(t) THEN "place" ELSE "unlock"
  <2>1. /\ pc[t] = "check" /\ pc' = [pc EXCEPT ![t] = x]
        /\ UNCHANGED <<call, age>> /\ k' = k
    BY <1>5 DEF CheckAgain, Goto, kernelVars
  <2>2. WaitOk(age[t], call[t], x)
    BY <2>1, <1>o DEF WaitOk
  <2> HIDE DEF x
  <2> QED BY <2>1, <2>2, <1>m
<1>6. CASE Place(t)
  <2> DEFINE e == IF call[t].op = "fetch" THEN "receive" ELSE "send"
             c == call[t]
             ticks == c.xTicksToWait
  <2>1. /\ pc[t] = "place" /\ pc' = [pc EXCEPT ![t] = "unlock"]
        /\ k' = PlaceOnEventList(k, t, e, ticks) /\ UNCHANGED <<call, age>>
    BY <1>6 DEF Place, Goto
  <2>2. e \in EventLists /\ ticks \in 1 .. portMAX_DELAY /\ Sound(k)
    <3>1. ticks \in Ticks /\ ticks > 0
      BY <2>1, <1>t, CallFields DEF HeldInv, LockInv, Blocking
    <3> QED BY <3>1, Sizes DEF EventLists, Ticks, HeldInv
  <2> HIDE DEF e
  <2>3. /\ k'.tick = k.tick /\ k'.ovf = k.ovf
        /\ \A u \in Tasks : u # t => k'.list[u] = k.list[u] /\ k'.wake[u] = k.wake[u]
        /\ k'.list[t] \in Timed => ticks # portMAX_DELAY /\ Until(k'.wake[t], k'.tick) = ticks
    BY <1>t, <2>1, <2>2, PlaceIs
  <2>4. /\ c.asked = portMAX_DELAY => c.xTicksToWait = portMAX_DELAY
        /\ c.asked # portMAX_DELAY => c.entrySet /\ ~c.expired
        /\ c.xTicksToWait <= c.asked
    BY <2>1 DEF CallInv, CallOk, Blocking
  <2>5. Entered(k, age[t], c) => Entered(k', age[t], c)
    BY <2>3 DEF Entered
  <2>6. ASSUME k'.list[t] \in Timed
        PROVE  age[t] >= 0 /\ age[t] + Until(k'.wake[t], k'.tick) = c.asked
    <3>1. c.asked # portMAX_DELAY /\ Until(k'.wake[t], k'.tick) = ticks
      BY <2>3, <2>4, <2>6
    <3>2. age[t] + ticks = c.asked
      BY <3>1, <2>1, <1>o DEF WaitOk
    <3>3. age[t] >= 0
      <4>1. age[t] \in Int /\ c.asked \in Int /\ ticks \in Int
        BY <1>t, CallFields, Sizes DEF Ticks
      <4> QED BY <4>1, <3>2, <2>4
    <3> QED BY <3>1, <3>2, <3>3
  <2>7. TimedOk(k', age[t], c, t) /\ WaitOk(age[t], c, "unlock")
    BY <2>5, <2>6, <1>o DEF TimedOk, WaitOk
  <2>8. /\ pc'[t] = "unlock" /\ call'[t] = c /\ age'[t] = age[t]
        /\ \A u \in Tasks : u # t => pc'[u] = pc[u] /\ call'[u] = call[u] /\ age'[u] = age[u]
    BY <2>1, <1>t
  <2> QED BY <2>3, <2>7, <2>8, TimeFrame
<1>7. CASE UnlockQueue(t)
  <2>1. /\ pc[t] = "unlock" /\ pc' = [pc EXCEPT ![t] = "resume"]
        /\ RemoveFromEventList("receive", cTxLock) /\ UNCHANGED <<call, age>>
    BY <1>7 DEF UnlockQueue, Goto
  <2>2. cTxLock \in Nat
    <3>1. cTxLock # -1
      BY <2>1 DEF HeldInv, LockInv, queueUNLOCKED, Locked
    <3> QED BY <3>1, Types
  <2>3. Once(k.ev["receive"]) /\ "receive" \in EventLists
    BY DEF HeldInv, EventInv, Waiting, EventLists
  <2>4. PICK W : Removed("receive", cTxLock, W)
    BY <1>t, <2>1, <2>2, <2>3, RemoveIs
  <2>5. WaitOk(age[t], call[t], "resume")
    BY <1>o DEF WaitOk
  <2> QED BY <2>1, <2>4, <2>5, <1>m, RemovedTime
<1>9. CASE Recheck(t)
  <2>0. CanRun(t) /\ pc[t] = "recheck" /\ k' = k
    BY <1>9 DEF Recheck
  <2>1. CASE pc' = [pc EXCEPT ![t] = "try"] /\ UNCHANGED <<call, age>>
    <3>1. WaitOk(age[t], call[t], "try")
      BY <1>o DEF WaitOk
    <3> QED BY <2>0, <2>1, <3>1, <1>m
  <2>2. CASE Return(t)
    <3>1. k.list[t] = "ready"
      BY <2>0, <1>f DEF Suspended, Locked
    <3> QED BY <2>0, <2>2, <3>1, <1>r
  <2> QED BY <1>9, <2>1, <2>2 DEF Recheck
<1> QED
  BY <1>1, <1>2, <1>3, <1>4, <1>5, <1>6, <1>7, <1>9 DEF Step

\* The pended ticks are made up for one by one: the wait ends when it should.
LEMMA ResumeTime ==
  ASSUME HeldInv, CallInv, TimeInv, NEW t \in Tasks, Resume(t)
  PROVE  TimeInv'
<1> DEFINE x == IF call[t].expired \/ call[t].op = "sleep" THEN "recheck" ELSE "try"
<1>1. /\ pc[t] = "resume" /\ pc' = [pc EXCEPT ![t] = x]
      /\ age' = Aged(xPendedTicks) /\ UNCHANGED call
  BY DEF Resume, Goto, ResumeAll
<1>2. PICK q :
        /\ q \in KernelType /\ Sound(q)
        /\ q.tick = k.tick /\ q.ovf = k.ovf
        /\ \A u \in Tasks :
             /\ u \in pendingReady => q.list[u] = "ready"
             /\ u \notin pendingReady => q.list[u] = k.list[u] /\ q.wake[u] = k.wake[u]
        /\ k' = CatchUp(q, xPendedTicks)
  BY PendingIs
<1>3. /\ xPendedTicks \in Nat /\ \A u \in Tasks : age[u] + xPendedTicks <= MaxAge
      /\ \A u \in Tasks : age[u] \in Int /\ call[u] \in Calls /\ age[u] >= -1
  BY Types DEF HeldInv, LockInv
<1>a. ASSUME NEW i \in Nat, NEW u \in Tasks
      PROVE  Aged(i)[u] = IF age[u] < 0 THEN -1 ELSE age[u] + i
  BY DEF Aged
<1> DEFINE Good(i, r) == /\ Sound(r)
                         /\ i <= xPendedTicks =>
                              \A u \in Tasks : TimedOk(r, Aged(i)[u], call[u], u)
           P == {p \in Nat \X KernelType : Good(p[1], p[2])}
<1>4. <<0, q>> \in P
  <2> SUFFICES ASSUME NEW u \in Tasks PROVE TimedOk(q, Aged(0)[u], call[u], u)
    BY <1>2
  <2>1. Aged(0)[u] = age[u]
    BY <1>a, <1>3
  <2>2. TimedOk(k, age[u], call[u], u)
    BY DEF TimeInv
  <2>3. q.list[u] \in Timed => k.list[u] \in Timed /\ q.wake[u] = k.wake[u]
    BY <1>2 DEF Timed
  <2>4. Entered(k, age[u], call[u]) => Entered(q, age[u], call[u])
    BY <1>2 DEF Entered
  <2> QED BY <1>2, <2>1, <2>2, <2>3, <2>4 DEF TimedOk
<1>5. ASSUME NEW i \in 0 .. MaxPended - 1, NEW r, <<i, r>> \in P
      PROVE  <<i + 1, IncrementTick(r)>> \in P
  <2> DEFINE s == IncrementTick(r)
  <2>1. r \in KernelType /\ Good(i, r) /\ i \in Nat /\ i + 1 \in Nat
    BY <1>5, Sizes
  <2>2. Ticked(r, s)
    BY <2>1, IncrementIs
  <2> HIDE DEF s
  <2>3. s \in KernelType /\ Sound(s)
    BY <2>2 DEF Ticked
  <2>4. ASSUME i + 1 <= xPendedTicks, NEW u \in Tasks
        PROVE  TimedOk(s, Aged(i + 1)[u], call[u], u)
    <3>1. TimedOk(r, Aged(i)[u], call[u], u)
      BY <2>1, <2>4, <1>3
    <3>2. /\ Aged(i)[u] = IF age[u] < 0 THEN -1 ELSE age[u] + i
          /\ Aged(i + 1)[u] = IF age[u] < 0 THEN -1 ELSE age[u] + (i + 1)
      BY <2>1, <1>a
    <3>3. /\ Aged(i)[u] \in Int
          /\ Aged(i)[u] >= 0 => Aged(i + 1)[u] = Aged(i)[u] + 1 /\ Aged(i + 1)[u] <= MaxAge
      BY <2>1, <2>4, <1>3, <3>2, Types
    <3>4. call[u].xTicksToWait <= call[u].asked /\ call[u] \in Calls
      BY <1>3 DEF CallInv, CallOk
    <3> QED BY <2>1, <2>2, <3>1, <3>3, <3>4, TimedTick
  <2>5. Good(i + 1, s)
    BY <2>3, <2>4
  <2> QED BY <2>1, <2>3, <2>5 DEF s
<1> HIDE DEF P
<1>6. <<xPendedTicks, CatchUp(q, xPendedTicks)>> \in P
  BY <1>4, <1>5, Types, CatchUpIn
<1>7. \A u \in Tasks : TimedOk(k', age'[u], call[u], u)
  <2>1. Good(xPendedTicks, k')
    BY <1>2, <1>6 DEF P
  <2> QED BY <2>1, <1>1, <1>3
<1>8. ASSUME NEW u \in Tasks PROVE WaitOk(age'[u], call[u], pc'[u])
  <2>1. WaitOk(age[u], call[u], pc[u])
    BY DEF TimeInv
  <2>2. pc'[u] \notin {"check", "place"}
    <3>1. CASE u = t
      <4>1. pc'[u] = x
        BY <1>1, <3>1, Types
      <4> QED BY <4>1
    <3>2. CASE u # t
      <4>1. pc'[u] = pc[u] /\ pc[u] \notin Suspended
        BY <1>1, <3>2, Types, HeldRun DEF Suspended
      <4> QED BY <4>1 DEF Suspended, Locked
    <3> QED BY <3>1, <3>2
  <2> QED BY <2>1, <2>2 DEF WaitOk
<1> QED
  BY <1>1, <1>7, <1>8 DEF TimeInv

LEMMA TickTime ==
  ASSUME HeldInv, CallInv, TimeInv, TickInterrupt
  PROVE  TimeInv'
<1>1. /\ \A t \in Tasks : age[t] + xPendedTicks < MaxAge
      /\ UNCHANGED <<pc, call>>
  BY DEF TickInterrupt, Tick
<1>2. CASE suspender = NoTask /\ k' = IncrementTick(k) /\ age' = Aged(1)
  <2>1. Ticked(k, k') /\ k \in KernelType /\ Sound(k)
    BY <1>2, Types, IncrementIs DEF HeldInv
  <2>2. xPendedTicks = 0 /\ \A u \in Tasks : pc[u] \notin Suspended
    BY <1>2, Sizes DEF HeldInv, LockInv
  <2> SUFFICES ASSUME NEW u \in Tasks
               PROVE  TimedOk(k', age'[u], call[u], u) /\ WaitOk(age'[u], call[u], pc[u])
    BY <1>1 DEF TimeInv
  <2>3. age'[u] = IF age[u] < 0 THEN -1 ELSE age[u] + 1
    BY <1>2 DEF Aged
  <2>4. age[u] \in Int /\ (age[u] >= 0 => age'[u] = age[u] + 1 /\ age'[u] <= MaxAge)
    BY <1>1, <2>2, <2>3, Types
  <2>5. call[u].xTicksToWait <= call[u].asked /\ call[u] \in Calls
    BY Types DEF CallInv, CallOk
  <2>6. TimedOk(k, age[u], call[u], u) /\ WaitOk(age[u], call[u], pc[u])
    BY DEF TimeInv
  <2>7. TimedOk(k', age'[u], call[u], u)
    BY <2>1, <2>4, <2>5, <2>6, TimedTick
  <2>8. WaitOk(age'[u], call[u], pc[u])
    BY <2>2, <2>6 DEF WaitOk, Suspended, Locked
  <2> QED BY <2>7, <2>8
<1>3. CASE UNCHANGED <<k, age>>
  BY <1>1, <1>3 DEF TimeInv, TimedOk, WaitOk, Entered
<1> QED BY <1>2, <1>3 DEF TickInterrupt, Tick

LEMMA BeginTime ==
  ASSUME HeldInv, CallInv, TimeInv, NEW t \in Tasks, NEW op \in {"fetch", "post"},
         NEW ticks \in Ticks, Begin(t, op, ticks)
  PROVE  TimeInv'
<1> DEFINE c == [NoCall EXCEPT !.op = op, !.asked = ticks, !.xTicksToWait = ticks]
<1>1. c.xTicksToWait = c.asked /\ c.entrySet = FALSE
  <2>1. ticks \in 0 .. portMAX_DELAY
    BY Sizes DEF Ticks
  <2> QED BY <2>1, NoCallIs DEF Calls
<1>2. /\ CanRun(t) /\ pc[t] = "idle" /\ pc' = [pc EXCEPT ![t] = "try"]
      /\ call' = [call EXCEPT ![t] = c] /\ k' = k /\ age' = age
  BY DEF Begin, Goto, kernelVars
<1> HIDE DEF c
<1>3. k.list[t] = "ready"
  BY <1>2, FreeRun DEF Suspended, Locked
<1>4. /\ pc'[t] = "try" /\ call'[t] = c
      /\ \A u \in Tasks : u # t => pc'[u] = pc[u] /\ call'[u] = call[u]
  BY <1>2, Types
<1>5. TimedOk(k, age[t], c, t) /\ WaitOk(age[t], c, "try")
  BY <1>1, <1>3, IdleTime
<1> QED BY <1>2, <1>4, <1>5, TimeFrame

LEMMA MsleepTime ==
  ASSUME HeldInv, CallInv, TimeInv, NEW t \in Tasks, Msleep(t)
  PROVE  TimeInv'
<1>0. PICK ms \in SleepMs :
        /\ ms \div TickMs > 0
        /\ pc' = [pc EXCEPT ![t] = "resume"]
        /\ call' = [call EXCEPT ![t] = [NoCall EXCEPT !.op = "sleep", !.asked = ms \div TickMs]]
        /\ k' = AddCurrentTaskToDelayedList(k, t, ms \div TickMs, FALSE)
  BY DEF Msleep
<1> DEFINE ticks == ms \div TickMs
           c == [NoCall EXCEPT !.op = "sleep", !.asked = ticks]
<1>1. CanRun(t) /\ pc[t] = "idle" /\ age' = [age EXCEPT ![t] = 0]
  BY DEF Msleep
<1>2. ticks \in 1 .. portMAX_DELAY /\ ticks \in Ticks
  <2>1. ms \in Nat /\ TickMs \in Nat \ {0} /\ ticks < portMAX_DELAY /\ ticks > 0
    BY <1>0, QueueAssumption
  <2>2. ticks \in Int
    BY <2>1
  <2> HIDE DEF ticks
  <2> QED BY <2>1, <2>2, Sizes DEF Ticks
<1>3. /\ pc' = [pc EXCEPT ![t] = "resume"] /\ call' = [call EXCEPT ![t] = c]
      /\ k' = AddCurrentTaskToDelayedList(k, t, ticks, FALSE)
  BY <1>0
<1> HIDE DEF ticks
<1>4. c.op = "sleep" /\ c.asked = ticks /\ c.entrySet = FALSE
  BY <1>2, SleepIs
<1> HIDE DEF c
<1>5. k \in KernelType /\ Sound(k) /\ FALSE \in BOOLEAN
  BY Types DEF HeldInv
<1>6. /\ k'.tick = k.tick /\ k'.ovf = k.ovf
      /\ \A u \in Tasks : u # t => k'.list[u] = k.list[u] /\ k'.wake[u] = k.wake[u]
      /\ Until(k'.wake[t], k'.tick) = ticks
  BY <1>2, <1>3, <1>5, AddIs
<1>7. /\ pc'[t] = "resume" /\ call'[t] = c /\ age'[t] = 0
      /\ \A u \in Tasks : u # t => pc'[u] = pc[u] /\ call'[u] = call[u] /\ age'[u] = age[u]
  BY <1>1, <1>3, Types
<1>8. TimedOk(k', 0, c, t) /\ WaitOk(0, c, "resume")
  BY <1>2, <1>4, <1>6 DEF TimedOk, WaitOk
<1> QED BY <1>6, <1>7, <1>8, TimeFrame

LEMMA IsrTime ==
  ASSUME HeldInv, CallInv, TimeInv, PostFromISR
  PROVE  TimeInv'
<1>1. UNCHANGED <<age, pc, call>>
  BY DEF PostFromISR
<1>2. /\ k'.tick = k.tick /\ k'.ovf = k.ovf
      /\ \A u \in Tasks :
           k'.list[u] \in Timed => k.list[u] \in Timed /\ k'.wake[u] = k.wake[u]
  <2>1. CASE cTxLock # queueUNLOCKED
    BY <2>1 DEF PostFromISR
  <2>2. CASE cTxLock = queueUNLOCKED
    <3>1. RemoveFromEventList("receive", 1)
      BY <2>2 DEF PostFromISR
    <3>2. Once(k.ev["receive"]) /\ k \in KernelType /\ "receive" \in EventLists /\ 1 \in Nat
      BY Types DEF HeldInv, EventInv, Waiting, EventLists
    <3>3. PICK W : Removed("receive", 1, W)
      BY <3>1, <3>2, RemoveIs
    <3> QED BY <3>3, RemovedTime
  <2> QED BY <2>1, <2>2
<1> SUFFICES ASSUME NEW u \in Tasks
             PROVE  TimedOk(k', age[u], call[u], u) /\ WaitOk(age[u], call[u], pc[u])
  BY <1>1 DEF TimeInv
<1>3. TimedOk(k, age[u], call[u], u) /\ WaitOk(age[u], call[u], pc[u])
  BY DEF TimeInv
<1>4. Entered(k, age[u], call[u]) => Entered(k', age[u], call[u])
  BY <1>2 DEF Entered
<1> QED BY <1>2, <1>3, <1>4 DEF TimedOk

LEMMA TimeNext ==
  ASSUME HeldInv, CallInv, TimeInv, [Next]_vars
  PROVE  TimeInv'
<1>1. ASSUME NEW t \in Fetchers, Fetch(t) PROVE TimeInv'
  <2>1. PICK ticks \in Ticks : t \in Tasks /\ Begin(t, "fetch", ticks)
    BY <1>1, FetchTicks
  <2> QED BY <2>1, BeginTime
<1>2. ASSUME NEW t \in Posters, Post(t) PROVE TimeInv'
  <2>1. PICK ticks \in {0, portMAX_DELAY} : Begin(t, "post", ticks)
    BY <1>2 DEF Post
  <2>2. t \in Tasks /\ ticks \in Ticks
    BY QueueAssumption, Sizes
  <2> QED BY <2>1, <2>2, BeginTime
<1>3. ASSUME NEW t \in Posters, Msleep(t) PROVE TimeInv'
  <2>1. t \in Tasks
    BY QueueAssumption
  <2> QED BY <1>3, <2>1, MsleepTime
<1>4. ASSUME NEW t \in Tasks, Step(t) PROVE TimeInv'
  BY <1>4, TimeStep, ResumeTime
<1>5. CASE PostFromISR
  BY <1>5, IsrTime
<1>6. CASE TickInterrupt
  BY <1>6, TickTime
<1>7. CASE UNCHANGED vars
  <2>1. k' = k /\ age' = age /\ call' = call /\ pc' = pc
    BY <1>7 DEF vars, kernelVars
  <2> QED BY <2>1 DEF TimeInv, TimedOk, WaitOk, Entered
<1> QED
  BY <1>1, <1>2, <1>3, <1>4, <1>5, <1>6, <1>7 DEF Next

\* A call with a timeout, and a delay, stay blocked until exactly the time they
\* were given, for any timeout and any range of the tick count: neither a wake-up
\* for a message that another task took, nor the wrap of the count, nor ticks
\* that were pended while the scheduler was suspended, make it longer or shorter.
THEOREM QueueBlockedForTimeout == Spec => []BlockedForTimeout
<1>1. Init => TimeInv
  <2> SUFFICES ASSUME Init PROVE TimeInv
    OBVIOUS
  <2> SUFFICES ASSUME NEW t \in Tasks
               PROVE  TimedOk(k, age[t], call[t], t) /\ WaitOk(age[t], call[t], pc[t])
    BY DEF TimeInv
  <2>1. k.list[t] = "ready"
    BY DEF Init, KernelInit
  <2>2. call[t] = NoCall /\ pc[t] = "idle"
    BY DEF Init
  <2> QED BY <2>1, <2>2, NoCallIs, IdleTime
<1>2. (HeldInv /\ CallInv) /\ TimeInv /\ [Next]_vars => TimeInv'
  BY TimeNext
<1>3. TimeInv => BlockedForTimeout
  BY DEF TimeInv, TimedOk, BlockedForTimeout, Timed, Until
<1> QED BY <1>1, <1>2, <1>3, QueueHeld, PTL DEF Spec

-----------------------------------------------------------------------------
(* No wake-up is lost. *)

\* Tasks inside a call that will look at the queue once more before they block.
Free(op) ==
  {t \in Tasks : /\ call[t].op = op /\ pc[t] # "place"
                 /\ \A e \in EventLists : t \notin Members(k.ev[e])}

\* The posts for which the unlocking task will wake somebody.
Posted == IF cTxLock = queueUNLOCKED THEN 0 ELSE cTxLock

\* The inductive invariant behind NoLostWakeup.  A task about to block has seen
\* the queue empty, or full; what has been posted since is in the lock count.
PlaceOk ==
  \A t \in Tasks :
    pc[t] = "place" => IF call[t].op = "fetch" THEN uxMessagesWaiting <= cTxLock ELSE Full
ReceiveOk ==
  k.ev["receive"] # << >> => Cardinality(Free("fetch")) + Posted >= uxMessagesWaiting
SendOk ==
  k.ev["send"] # << >> => Cardinality(Free("post")) >= Length - uxMessagesWaiting
WakeInv == PlaceOk /\ ReceiveOk /\ SendOk

LEMMA Grows ==
  ASSUME NEW A \in SUBSET Tasks, NEW B \in SUBSET Tasks, A \subseteq B
  PROVE  /\ Cardinality(A) \in Nat /\ Cardinality(B) \in Nat
         /\ Cardinality(A) <= Cardinality(B)
<1>1. IsFiniteSet(A) /\ IsFiniteSet(B)
  BY Sizes, FS_Subset
<1> QED BY <1>1, FS_CardinalityType, FS_Subset

LEMMA Loses ==
  ASSUME NEW A \in SUBSET Tasks, NEW B \in SUBSET Tasks, NEW t, A \ {t} \subseteq B
  PROVE  /\ Cardinality(A) \in Nat /\ Cardinality(B) \in Nat
         /\ Cardinality(A) <= Cardinality(B) + 1
<1>1. IsFiniteSet(A) /\ IsFiniteSet(B)
  BY Sizes, FS_Subset
<1>2. Cardinality(A) \in Nat /\ Cardinality(B) \in Nat
  BY <1>1, FS_CardinalityType
<1>3. /\ Cardinality(A \ {t}) \in Nat
      /\ Cardinality(A \ {t}) <= Cardinality(B)
  <2>1. A \ {t} \in SUBSET Tasks
    OBVIOUS
  <2> QED BY <2>1, Grows
<1>4. Cardinality(A \ {t}) = IF t \in A THEN Cardinality(A) - 1 ELSE Cardinality(A)
  BY <1>1, FS_RemoveElement
<1> QED BY <1>2, <1>3, <1>4

LEMMA Gains ==
  ASSUME NEW A \in SUBSET Tasks, NEW B \in SUBSET Tasks, NEW W \in SUBSET Tasks,
         A \subseteq B, W \subseteq B, A \cap W = {}
  PROVE  /\ Cardinality(A) \in Nat /\ Cardinality(B) \in Nat /\ Cardinality(W) \in Nat
         /\ Cardinality(A) + Cardinality(W) <= Cardinality(B)
<1>1. IsFiniteSet(A) /\ IsFiniteSet(W)
  BY Sizes, FS_Subset
<1>2. Cardinality(A) \in Nat /\ Cardinality(W) \in Nat
  BY <1>1, FS_CardinalityType
<1>3. Cardinality(A \cup W) = Cardinality(A) + Cardinality(W) - Cardinality(A \cap W)
  BY <1>1, FS_Union
<1>4. Cardinality(A \cap W) = 0
  BY FS_EmptySet
<1>5. Cardinality(A \cup W) <= Cardinality(B) /\ Cardinality(B) \in Nat
  <2>1. A \cup W \in SUBSET Tasks /\ A \cup W \subseteq B
    OBVIOUS
  <2> QED BY <2>1, Grows
<1> QED BY <1>2, <1>3, <1>4, <1>5

LEMMA Counts ==
  ASSUME HeldInv, HeldInv'
  PROVE  /\ uxMessagesWaiting \in Nat /\ Length \in Nat /\ uxMessagesWaiting <= Length
         /\ uxMessagesWaiting' \in Nat /\ uxMessagesWaiting' <= Length
         /\ Posted \in Nat /\ Posted' \in Nat
         /\ cTxLock \in Int /\ cTxLock' \in Int
         /\ \A op : Free(op) \in SUBSET Tasks /\ Free(op)' \in SUBSET Tasks
         /\ \A op : Cardinality(Free(op)) \in Nat /\ Cardinality(Free(op)') \in Nat
<1>1. /\ uxMessagesWaiting \in 0 .. Length /\ Length \in Nat /\ cTxLock \in -1 .. Length
  BY Types
<1>2. uxMessagesWaiting' \in 0 .. Length /\ cTxLock' \in -1 .. Length
  BY DEF HeldInv, TypeOK
<1>3. \A op : Free(op) \in SUBSET Tasks /\ Free(op)' \in SUBSET Tasks
  BY DEF Free
<1>4. \A op : Cardinality(Free(op)) \in Nat /\ Cardinality(Free(op)') \in Nat
  BY <1>3, Grows
<1>5. Posted \in Nat /\ Posted' \in Nat
  BY <1>1, <1>2 DEF Posted, queueUNLOCKED
<1> QED BY <1>1, <1>2, <1>3, <1>4, <1>5

LEMMA NonEmpty ==
  ASSUME NEW q \in KernelType, NEW r \in KernelType, NEW e \in EventLists,
         Members(r.ev[e]) \subseteq Members(q.ev[e]), r.ev[e] # << >>
  PROVE  q.ev[e] # << >>
<1>1. r.ev[e] \in Seq(Tasks)
  BY Fields
<1>2. 1 \in 1 .. Len(r.ev[e])
  BY <1>1
<1>3. r.ev[e][1] \in Members(r.ev[e])
  BY <1>2 DEF Members
<1>4. Members(<< >>) = {}
  BY DEF Members
<1> QED BY <1>3, <1>4

\* A step that takes nobody's second look away keeps the counts.
LEMMA WakeFrame ==
  ASSUME HeldInv, HeldInv', WakeInv,
         \A e \in EventLists : Members(k'.ev[e]) \subseteq Members(k.ev[e]),
         \A op \in {"fetch", "post"} : Free(op) \subseteq Free(op)',
         uxMessagesWaiting' = uxMessagesWaiting, Posted' = Posted, PlaceOk'
  PROVE  WakeInv'
<1>1. "receive" \in EventLists /\ "send" \in EventLists
  BY DEF EventLists
<1>2. k \in KernelType /\ k' \in KernelType
  BY DEF HeldInv, TypeOK, KernelTypeOK
<1>3. /\ k'.ev["receive"] # << >> => k.ev["receive"] # << >>
      /\ k'.ev["send"] # << >> => k.ev["send"] # << >>
  BY <1>1, <1>2, NonEmpty
<1>4. /\ Cardinality(Free("fetch")) <= Cardinality(Free("fetch")')
      /\ Cardinality(Free("post")) <= Cardinality(Free("post")')
  BY Counts, Grows
<1>5. ReceiveOk'
  BY <1>3, <1>4, Counts DEF WakeInv, ReceiveOk
<1>6. SendOk'
  BY <1>3, <1>4, Counts DEF WakeInv, SendOk
<1> QED BY <1>5, <1>6 DEF WakeInv

\* While nobody has the scheduler suspended nobody is about to block.
LEMMA NobodyPlaces ==
  ASSUME \A u \in Tasks : pc[u] \notin Suspended
  PROVE  PlaceOk
  BY DEF PlaceOk, Suspended, Locked

\* A step of a free task t that leaves the kernel and the other tasks alone.
LEMMA WakePlain ==
  ASSUME HeldInv, HeldInv', WakeInv, NEW t \in Tasks, CanRun(t), pc[t] \notin Suspended,
         \A u \in Tasks : u # t => pc'[u] = pc[u] /\ call'[u] = call[u],
         pc'[t] \notin Suspended, k'.ev = k.ev,
         uxMessagesWaiting' = uxMessagesWaiting, cTxLock' = cTxLock,
         \/ call'[t].op = call[t].op
         \/ call[t].op \notin {"fetch", "post"}
         \/ call[t].op = "fetch" /\ Empty
         \/ call[t].op = "post" /\ Full
  PROVE  WakeInv'
<1>1. /\ \A u \in Tasks : pc'[u] \notin Suspended
  BY FreeRun
<1>2. PlaceOk'
  BY <1>1 DEF PlaceOk, Suspended, Locked
<1>3. \A op : Free(op) \ {t} \subseteq Free(op)'
  BY DEF Free
<1>4. pc'[t] # "place"
  BY DEF Suspended, Locked
<1>5. Posted' = Posted
  BY DEF Posted
<1>6. \A op : (call'[t].op = call[t].op \/ call[t].op # op) => Free(op) \subseteq Free(op)'
  BY <1>3, <1>4 DEF Free
<1>7. CASE call'[t].op = call[t].op \/ call[t].op \notin {"fetch", "post"}
  BY <1>2, <1>5, <1>6, <1>7, WakeFrame
<1>8. CASE call[t].op = "fetch" /\ Empty
  <2>1. ReceiveOk'
    BY <1>8, Counts DEF ReceiveOk, Empty
  <2>2. Cardinality(Free("post")) <= Cardinality(Free("post")')
    BY <1>6, <1>8, Counts, Grows
  <2>3. SendOk'
    BY <2>2, Counts DEF WakeInv, SendOk
  <2> QED BY <1>2, <2>1, <2>3 DEF WakeInv
<1>9. CASE call[t].op = "post" /\ Full
  <2>1. SendOk'
    BY <1>9, Counts DEF SendOk, Full
  <2>2. Cardinality(Free("fetch")) <= Cardinality(Free("fetch")')
    BY <1>6, <1>9, Counts, Grows
  <2>3. ReceiveOk'
    BY <2>2, <1>5, Counts DEF WakeInv, ReceiveOk
  <2> QED BY <1>2, <2>1, <2>3 DEF WakeInv
<1> QED BY <1>7, <1>8, <1>9

\* Those who are woken for a message, or a slot, look again.
LEMMA WokenLook ==
  ASSUME HeldInv, HeldInv', NEW e \in EventLists, NEW n, NEW W, Removed(e, n, W),
         NEW t, \A u \in Tasks : u # t => pc'[u] = pc[u] /\ call'[u] = call[u],
         t \notin W, t \in Tasks => pc'[t] # "place"
  PROVE  LET op == IF e = "receive" THEN "fetch" ELSE "post"
         IN /\ W \subseteq Free(op)' /\ Free(op) \cap W = {} /\ W \in SUBSET Tasks
            /\ \A o : Free(o) \ {t} \subseteq Free(o)'
            /\ \A o : t \in Tasks /\ call'[t].op = call[t].op => Free(o) \subseteq Free(o)'
            /\ \A f \in EventLists : Members(k'.ev[f]) \subseteq Members(k.ev[f])
<1> DEFINE op == IF e = "receive" THEN "fetch" ELSE "post"
<1>1. /\ W \in SUBSET Tasks /\ W \subseteq Members(k.ev[e])
      /\ Members(k'.ev[e]) = Members(k.ev[e]) \ W
      /\ \A f \in EventLists : f # e => k'.ev[f] = k.ev[f]
  BY DEF Removed
<1>2. \A f \in EventLists : Members(k'.ev[f]) \subseteq Members(k.ev[f])
  BY <1>1
<1>3. \A o : Free(o) \ {t} \subseteq Free(o)'
  BY <1>2 DEF Free
<1>4. \A o : t \in Tasks /\ call'[t].op = call[t].op => Free(o) \subseteq Free(o)'
  BY <1>2, <1>3 DEF Free
<1>5. Free(op) \cap W = {}
  BY <1>1 DEF Free
<1>6. ASSUME NEW u \in W PROVE u \in Free(op)'
  <2>1. u \in Tasks /\ u # t /\ u \in Members(k.ev[e])
    BY <1>1, <1>6
  <2>2. call[u].op = op /\ k.list[u] # "ready"
    BY <2>1 DEF HeldInv, EventInv, Waiting, EventLists
  <2>3. pc[u] # "place"
    BY <2>1, <2>2 DEF HeldInv, EventInv
  <2>4. ASSUME NEW f \in EventLists, u \in Members(k'.ev[f]) PROVE FALSE
    <3>1. u \in Members(k.ev[f])
      BY <1>2, <2>4
    <3>2. f = e
      BY <2>1, <2>4, <3>1, OneList
    <3> QED BY <1>1, <1>6, <2>4, <3>2
  <2> QED BY <2>1, <2>2, <2>3, <2>4 DEF Free
<1> QED BY <1>1, <1>2, <1>3, <1>4, <1>5, <1>6

LEMMA TransferWake ==
  ASSUME HeldInv, HeldInv', WakeInv, NEW t \in Tasks, Transfer(t)
  PROVE  WakeInv'
<1>1. CanRun(t) /\ pc[t] = "try" /\ Return(t) /\ UNCHANGED <<suspender, cTxLock>>
  BY DEF Transfer
<1>2. /\ cTxLock = queueUNLOCKED /\ \A u \in Tasks : pc[u] \notin Suspended
      /\ \A e \in EventLists : t \notin Members(k.ev[e])
  BY <1>1, FreeRun DEF Suspended, Locked
<1>3. /\ pc'[t] = "idle" /\ call'[t] = NoCall
      /\ \A u \in Tasks : u # t => pc'[u] = pc[u] /\ call'[u] = call[u]
  BY <1>1, Types DEF Return
<1>4. PlaceOk'
  BY <1>2, <1>3 DEF PlaceOk, Suspended, Locked
<1>5. Posted = 0 /\ Posted' = 0
  BY <1>1, <1>2 DEF Posted
<1>6. "receive" \in EventLists /\ "send" \in EventLists /\ 1 \in Nat /\ k \in KernelType
      /\ k' \in KernelType
  BY Types DEF EventLists, HeldInv, TypeOK, KernelTypeOK
<1>7. \A e \in EventLists : Once(k.ev[e])
  BY DEF HeldInv, EventInv, Waiting
<1>8. CASE call[t].op = "fetch" /\ ~Empty /\ CopyDataFromQueue(t) /\ RemoveFromEventList("send", 1)
  <2>1. uxMessagesWaiting' = uxMessagesWaiting - 1
    BY <1>8 DEF CopyDataFromQueue
  <2>2. PICK W : Removed("send", 1, W)
    BY <1>6, <1>7, <1>8, RemoveIs
  <2>3. t \notin W
    BY <1>2, <1>6, <2>2 DEF Removed
  <2>4. /\ W \subseteq Free("post")' /\ Free("post") \cap W = {} /\ W \in SUBSET Tasks
        /\ Free("fetch") \ {t} \subseteq Free("fetch")'
        /\ Free("post") \ {t} \subseteq Free("post")'
        /\ \A f \in EventLists : Members(k'.ev[f]) \subseteq Members(k.ev[f])
    BY <1>3, <1>6, <2>2, <2>3, WokenLook
  <2>5. Free("post") \subseteq Free("post")'
    <3>1. t \notin Free("post")
      BY <1>8 DEF Free
    <3> QED BY <2>4, <3>1
  <2>6. ReceiveOk'
    <3> SUFFICES ASSUME k'.ev["receive"] # << >>
                 PROVE  Cardinality(Free("fetch")') + Posted' >= uxMessagesWaiting'
      BY DEF ReceiveOk
    <3>1. k.ev["receive"] # << >>
      BY <1>6, <2>4, NonEmpty
    <3>2. Cardinality(Free("fetch")) + Posted >= uxMessagesWaiting
      BY <3>1 DEF WakeInv, ReceiveOk
    <3>3. Cardinality(Free("fetch")) <= Cardinality(Free("fetch")') + 1
      BY <2>4, Counts, Loses
    <3> QED BY <2>1, <3>2, <3>3, <1>5, Counts
  <2>7. SendOk'
    <3> SUFFICES ASSUME k'.ev["send"] # << >>
                 PROVE  Cardinality(Free("post")') >= Length - uxMessagesWaiting'
      BY DEF SendOk
    <3>1. k.ev["send"] # << >> /\ Cardinality(W) = 1
      BY <1>6, <2>2, <2>4, NonEmpty DEF Removed
    <3>2. Cardinality(Free("post")) >= Length - uxMessagesWaiting
      BY <3>1 DEF WakeInv, SendOk
    <3>3. Cardinality(Free("post")) + Cardinality(W) <= Cardinality(Free("post")')
      BY <2>4, <2>5, Counts, Gains
    <3> QED BY <2>1, <3>1, <3>2, <3>3, Counts
  <2> QED BY <1>4, <2>6, <2>7 DEF WakeInv
<1>9. CASE call[t].op = "post" /\ ~Full /\ CopyDataToQueue(t) /\ RemoveFromEventList("receive", 1)
  <2>1. uxMessagesWaiting' = uxMessagesWaiting + 1
    BY <1>9 DEF CopyDataToQueue
  <2>2. PICK W : Removed("receive", 1, W)
    BY <1>6, <1>7, <1>9, RemoveIs
  <2>3. t \notin W
    BY <1>2, <1>6, <2>2 DEF Removed
  <2>4. /\ W \subseteq Free("fetch")' /\ Free("fetch") \cap W = {} /\ W \in SUBSET Tasks
        /\ Free("fetch") \ {t} \subseteq Free("fetch")'
        /\ Free("post") \ {t} \subseteq Free("post")'
        /\ \A f \in EventLists : Members(k'.ev[f]) \subseteq Members(k.ev[f])
    BY <1>3, <1>6, <2>2, <2>3, WokenLook
  <2>5. Free("fetch") \subseteq Free("fetch")'
    <3>1. t \notin Free("fetch")
      BY <1>9 DEF Free
    <3> QED BY <2>4, <3>1
  <2>6. SendOk'
    <3> SUFFICES ASSUME k'.ev["send"] # << >>
                 PROVE  Cardinality(Free("post")') >= Length - uxMessagesWaiting'
      BY DEF SendOk
    <3>1. k.ev["send"] # << >>
      BY <1>6, <2>4, NonEmpty
    <3>2. Cardinality(Free("post")) >= Length - uxMessagesWaiting
      BY <3>1 DEF WakeInv, SendOk
    <3>3. Cardinality(Free("post")) <= Cardinality(Free("post")') + 1
      BY <2>4, Counts, Loses
    <3> QED BY <2>1, <3>2, <3>3, Counts
  <2>7. ReceiveOk'
    <3> SUFFICES ASSUME k'.ev["receive"] # << >>
                 PROVE  Cardinality(Free("fetch")') + Posted' >= uxMessagesWaiting'
      BY DEF ReceiveOk
    <3>1. k.ev["receive"] # << >> /\ Cardinality(W) = 1
      BY <1>6, <2>2, <2>4, NonEmpty DEF Removed
    <3>2. Cardinality(Free("fetch")) + Posted >= uxMessagesWaiting
      BY <3>1 DEF WakeInv, ReceiveOk
    <3>3. Cardinality(Free("fetch")) + Cardinality(W) <= Cardinality(Free("fetch")')
      BY <2>4, <2>5, Counts, Gains
    <3> QED BY <2>1, <3>1, <3>2, <3>3, <1>5, Counts
  <2> QED BY <1>4, <2>6, <2>7 DEF WakeInv
<1> QED BY <1>8, <1>9 DEF Transfer

LEMMA IsrWake ==
  ASSUME HeldInv, HeldInv', WakeInv, PostFromISR
  PROVE  WakeInv'
<1>1. /\ ~Full /\ uxMessagesWaiting' = uxMessagesWaiting + 1
      /\ UNCHANGED <<suspender, pc, call>>
  BY DEF PostFromISR, CopyDataToQueue
<1>2. CASE cTxLock # queueUNLOCKED
  <2>1. cTxLock' = cTxLock + 1 /\ k' = k
    BY <1>2 DEF PostFromISR
  <2>2. cTxLock \in Nat /\ Posted = cTxLock /\ Posted' = cTxLock + 1
    <3>1. cTxLock \in -1 .. Length
      BY Types
    <3> QED BY <3>1, <1>2, <2>1 DEF Posted, queueUNLOCKED
  <2>3. \A op : Free(op)' = Free(op)
    BY <1>1, <2>1 DEF Free
  <2>4. PlaceOk'
    <3> SUFFICES ASSUME NEW u \in Tasks, pc[u] = "place"
                 PROVE  IF call[u].op = "fetch" THEN uxMessagesWaiting' <= cTxLock' ELSE Full'
      BY <1>1 DEF PlaceOk
    <3>1. IF call[u].op = "fetch" THEN uxMessagesWaiting <= cTxLock ELSE Full
      BY DEF WakeInv, PlaceOk
    <3> QED BY <3>1, <1>1, <2>1, Counts
  <2>5. ReceiveOk'
    <3> SUFFICES ASSUME k.ev["receive"] # << >>
                 PROVE  Cardinality(Free("fetch")) + Posted' >= uxMessagesWaiting'
      BY <2>1, <2>3 DEF ReceiveOk
    <3>1. Cardinality(Free("fetch")) + Posted >= uxMessagesWaiting
      BY DEF WakeInv, ReceiveOk
    <3> QED BY <3>1, <1>1, <2>2, Counts
  <2>6. SendOk'
    <3> SUFFICES ASSUME k.ev["send"] # << >>
                 PROVE  Cardinality(Free("post")) >= Length - uxMessagesWaiting'
      BY <2>1, <2>3 DEF SendOk
    <3>1. Cardinality(Free("post")) >= Length - uxMessagesWaiting
      BY DEF WakeInv, SendOk
    <3> QED BY <3>1, <1>1, Counts
  <2> QED BY <2>4, <2>5, <2>6 DEF WakeInv
<1>3. CASE cTxLock = queueUNLOCKED
  <2>1. RemoveFromEventList("receive", 1) /\ cTxLock' = cTxLock
    BY <1>3 DEF PostFromISR
  <2>2. /\ Once(k.ev["receive"]) /\ k \in KernelType /\ k' \in KernelType
        /\ "receive" \in EventLists /\ "send" \in EventLists /\ 1 \in Nat
    BY Types DEF HeldInv, EventInv, Waiting, EventLists, TypeOK, KernelTypeOK
  <2>3. PICK W : Removed("receive", 1, W)
    BY <2>1, <2>2, RemoveIs
  <2>n. NoTask \notin Tasks
    BY Sizes
  <2>p. NoTask \notin W
    BY <2>n, <2>3 DEF Removed
  <2>4. /\ W \subseteq Free("fetch")' /\ Free("fetch") \cap W = {} /\ W \in SUBSET Tasks
        /\ \A o : Free(o) \ {NoTask} \subseteq Free(o)'
        /\ \A f \in EventLists : Members(k'.ev[f]) \subseteq Members(k.ev[f])
    BY <1>1, <2>2, <2>3, <2>n, <2>p, WokenLook
  <2>5. \A o : Free(o) \subseteq Free(o)'
    BY <2>4, <2>n DEF Free
  <2>6. Posted = 0 /\ Posted' = 0
    BY <1>3, <2>1 DEF Posted
  <2>7. PlaceOk'
    <3>1. \A u \in Tasks : pc[u] \notin Locked
      BY <1>3 DEF HeldInv, LockInv
    <3> QED BY <3>1, <1>1 DEF PlaceOk, Locked
  <2>8. ReceiveOk'
    <3> SUFFICES ASSUME k'.ev["receive"] # << >>
                 PROVE  Cardinality(Free("fetch")') + Posted' >= uxMessagesWaiting'
      BY DEF ReceiveOk
    <3>1. k.ev["receive"] # << >> /\ Cardinality(W) = 1
      BY <2>2, <2>3, <2>4, NonEmpty DEF Removed
    <3>2. Cardinality(Free("fetch")) + Posted >= uxMessagesWaiting
      BY <3>1 DEF WakeInv, ReceiveOk
    <3>3. Cardinality(Free("fetch")) + Cardinality(W) <= Cardinality(Free("fetch")')
      BY <2>4, <2>5, Counts, Gains
    <3> QED BY <1>1, <3>1, <3>2, <3>3, <2>6, Counts
  <2>9. SendOk'
    <3> SUFFICES ASSUME k'.ev["send"] # << >>
                 PROVE  Cardinality(Free("post")') >= Length - uxMessagesWaiting'
      BY DEF SendOk
    <3>1. k.ev["send"] # << >>
      BY <2>2, <2>4, NonEmpty
    <3>2. Cardinality(Free("post")) >= Length - uxMessagesWaiting
      BY <3>1 DEF WakeInv, SendOk
    <3>3. Cardinality(Free("post")) <= Cardinality(Free("post")')
      BY <2>5, Counts, Grows
    <3> QED BY <1>1, <3>2, <3>3, Counts
  <2> QED BY <2>7, <2>8, <2>9 DEF WakeInv
<1> QED BY <1>2, <1>3

\* A task that begins a call was in none.
LEMMA BeginWake ==
  ASSUME HeldInv, HeldInv', CallInv, WakeInv, NEW t \in Tasks, NEW op, NEW ticks,
         Begin(t, op, ticks)
  PROVE  WakeInv'
<1>1. /\ CanRun(t) /\ pc[t] = "idle" /\ pc' = [pc EXCEPT ![t] = "try"]
      /\ \E c : call' = [call EXCEPT ![t] = c]
      /\ UNCHANGED <<kernelVars, queueVars>>
  BY DEF Begin, Goto
<1>2. call[t].op = "none"
  BY <1>1 DEF CallInv, CallOk
<1>3. /\ pc'[t] = "try"
      /\ \A u \in Tasks : u # t => pc'[u] = pc[u] /\ call'[u] = call[u]
  BY <1>1, Types
<1>4. "idle" \notin Suspended /\ "try" \notin Suspended
  BY DEF Suspended, Locked
<1>5. k'.ev = k.ev /\ uxMessagesWaiting' = uxMessagesWaiting /\ cTxLock' = cTxLock
  BY <1>1 DEF kernelVars, queueVars
<1> QED BY <1>1, <1>2, <1>3, <1>4, <1>5, WakePlain

\* The head of the loop without success, and the last look of a timed call.
LEMMA TryWake ==
  ASSUME HeldInv, HeldInv', CallInv, WakeInv, NEW t \in Tasks,
         Fail(t) \/ NoteTime(t) \/ Recheck(t)
  PROVE  WakeInv'
<1>1. /\ CanRun(t) /\ pc[t] \in {"try", "recheck"}
      /\ UNCHANGED <<k, xPendedTicks, suspender, pendingReady, queueVars>>
  BY DEF Fail, NoteTime, Recheck, Goto
<1>2. /\ pc[t] \notin Suspended /\ "lock" \notin Suspended /\ "try" \notin Suspended
      /\ "idle" \notin Suspended
  BY <1>1 DEF Suspended, Locked
<1>3. k'.ev = k.ev /\ uxMessagesWaiting' = uxMessagesWaiting /\ cTxLock' = cTxLock
  BY <1>1 DEF queueVars
<1>4. CASE Fail(t)
  <2>1. Return(t) /\ NotNow(t)
    BY <1>4 DEF Fail
  <2>2. pc'[t] = "idle" /\ \A u \in Tasks : u # t => pc'[u] = pc[u] /\ call'[u] = call[u]
    BY <2>1, Types DEF Return
  <2> QED BY <1>1, <1>2, <1>3, <2>1, <2>2, WakePlain DEF NotNow
<1>5. CASE NoteTime(t)
  <2> DEFINE c == IF call[t].entrySet \/ call[t].asked = portMAX_DELAY THEN call[t]
                  ELSE TimeOutState([call[t] EXCEPT !.entrySet = TRUE])
  <2>1. pc' = [pc EXCEPT ![t] = "lock"] /\ call' = [call EXCEPT ![t] = c]
    BY <1>5, Types DEF NoteTime, Goto
  <2>2. c.op = call[t].op
    BY Types, NoteIs
  <2> HIDE DEF c
  <2>3. /\ pc'[t] = "lock" /\ call'[t] = c
        /\ \A u \in Tasks : u # t => pc'[u] = pc[u] /\ call'[u] = call[u]
    BY <2>1, Types
  <2> QED BY <1>1, <1>2, <1>3, <2>2, <2>3, WakePlain
<1>6. CASE Recheck(t)
  <2>1. pc[t] = "recheck" /\ call[t].op # "post"
    BY <1>6 DEF Recheck, CallInv, CallOk
  <2>2. CASE pc' = [pc EXCEPT ![t] = "try"] /\ UNCHANGED call
    <3>1. pc'[t] = "try" /\ \A u \in Tasks : u # t => pc'[u] = pc[u] /\ call'[u] = call[u]
      BY <2>2, Types
    <3> QED BY <1>1, <1>2, <1>3, <2>2, <3>1, WakePlain
  <2>3. CASE Return(t) /\ (call[t].op = "sleep" \/ Empty)
    <3>1. pc'[t] = "idle" /\ \A u \in Tasks : u # t => pc'[u] = pc[u] /\ call'[u] = call[u]
      BY <2>3, Types DEF Return
    <3>2. \/ call[t].op \notin {"fetch", "post"}
          \/ call[t].op = "fetch" /\ Empty
      BY <2>1, <2>3
    <3> QED BY <1>1, <1>2, <1>3, <3>1, <3>2, WakePlain
  <2> QED BY <1>6, <2>2, <2>3 DEF Recheck
<1> QED BY <1>4, <1>5, <1>6

\* A step that changes neither the calls nor the queue, nor puts a task about
\* to block or on an event list, keeps every second look.
LEMMA WakeQuiet ==
  ASSUME HeldInv, HeldInv', WakeInv, \A u \in Tasks : call'[u].op = call[u].op,
         \A e \in EventLists : Members(k'.ev[e]) \subseteq Members(k.ev[e]),
         \A u \in Tasks : pc'[u] = "place" => pc[u] = "place",
         uxMessagesWaiting' = uxMessagesWaiting, Posted' = Posted,
         cTxLock' = cTxLock \/ \A u \in Tasks : pc'[u] # "place"
  PROVE  WakeInv'
<1>1. \A op : Free(op) \subseteq Free(op)'
  BY DEF Free
<1>2. PlaceOk'
  <2>1. Full' <=> Full
    BY DEF Full
  <2> QED BY <2>1 DEF WakeInv, PlaceOk
<1> QED BY <1>1, <1>2, WakeFrame

LEMMA LockWake ==
  ASSUME HeldInv, HeldInv', WakeInv, NEW t \in Tasks, LockQueue(t)
  PROVE  WakeInv'
<1> DEFINE c == CheckForTimeOut(call[t])
           x == IF c.expired THEN "unlock" ELSE "check"
<1>1. /\ CanRun(t) /\ pc[t] = "lock"
      /\ cTxLock' = IF cTxLock = queueUNLOCKED THEN queueLOCKED_UNMODIFIED ELSE cTxLock
      /\ call' = [call EXCEPT ![t] = c] /\ pc' = [pc EXCEPT ![t] = x]
      /\ UNCHANGED <<k, uxMessagesWaiting>>
  BY DEF LockQueue
<1>2. c.op = call[t].op
  BY Types, CheckIs
<1> HIDE DEF c
<1>3. /\ cTxLock = queueUNLOCKED /\ \A u \in Tasks : pc[u] \notin Suspended
  <2>1. "lock" \notin Suspended
    BY DEF Suspended, Locked
  <2> QED BY <1>1, <2>1, FreeRun
<1>4. /\ pc'[t] # "place" /\ call'[t] = c
      /\ \A u \in Tasks : u # t => pc'[u] = pc[u] /\ call'[u] = call[u]
  BY <1>1, Types
<1>5. \A u \in Tasks : pc'[u] # "place" /\ call'[u].op = call[u].op
  BY <1>2, <1>3, <1>4 DEF Suspended, Locked
<1>6. Posted' = Posted
  BY <1>1, <1>3 DEF Posted, queueUNLOCKED, queueLOCKED_UNMODIFIED
<1> QED BY <1>1, <1>5, <1>6, WakeQuiet

\* A task is about to block only when it has found the queue empty, or full.
LEMMA CheckWake ==
  ASSUME HeldInv, HeldInv', CallInv, WakeInv, NEW t \in Tasks, CheckAgain(t)
  PROVE  WakeInv'
<1> DEFINE x == IF NotNow(t) THEN "place" ELSE "unlock"
<1>1. /\ pc[t] = "check" /\ pc' = [pc EXCEPT ![t] = x]
      /\ k' = k /\ call' = call /\ uxMessagesWaiting' = uxMessagesWaiting /\ cTxLock' = cTxLock
  BY DEF CheckAgain, Goto, kernelVars, queueVars
<1>2. pc'[t] = x /\ \A u \in Tasks : u # t => pc'[u] = pc[u]
  BY <1>1, Types
<1>p. Posted' = Posted
  BY <1>1 DEF Posted
<1>3. CASE ~NotNow(t)
  <2>1. \A u \in Tasks : pc'[u] = "place" => pc[u] = "place"
    BY <1>2, <1>3
  <2> QED BY <1>1, <1>p, <2>1, WakeQuiet
<1>4. CASE NotNow(t)
  <2>1. pc'[t] = "place"
    BY <1>2, <1>4
  <2>2. /\ pc[t] \in Locked /\ cTxLock # queueUNLOCKED
        /\ \A u \in Tasks : u # t => pc[u] \notin Suspended
    <3>1. pc[t] \in Locked /\ pc[t] \in Suspended
      BY <1>1 DEF Locked, Suspended
    <3> QED BY <3>1, HeldRun DEF HeldInv, LockInv
  <2>3. cTxLock >= 0
    BY <2>2, Types DEF queueUNLOCKED
  <2>4. \A u \in Tasks : u # t => pc'[u] # "place"
    BY <1>2, <2>2 DEF Suspended, Locked
  <2>5. \A op : call[t].op # op => Free(op) \subseteq Free(op)'
    BY <1>1, <2>4 DEF Free
  <2>6. CASE call[t].op = "fetch" /\ Empty
    <3>1. PlaceOk'
      <4>1. uxMessagesWaiting' <= cTxLock'
        BY <1>1, <2>3, <2>6 DEF Empty
      <4> QED BY <1>1, <2>4, <2>6, <4>1 DEF PlaceOk
    <3>2. ReceiveOk'
      BY <1>1, <2>6, Counts DEF ReceiveOk, Empty
    <3>3. Cardinality(Free("post")) <= Cardinality(Free("post")')
      BY <2>5, <2>6, Counts, Grows
    <3>4. SendOk'
      BY <3>3, <1>1, Counts DEF WakeInv, SendOk
    <3> QED BY <3>1, <3>2, <3>4 DEF WakeInv
  <2>7. CASE call[t].op = "post" /\ Full
    <3>1. PlaceOk'
      <4>1. Full'
        BY <1>1, <2>7 DEF Full
      <4> QED BY <1>1, <2>4, <2>7, <4>1 DEF PlaceOk
    <3>2. SendOk'
      BY <1>1, <2>7, Counts DEF SendOk, Full
    <3>3. Cardinality(Free("fetch")) <= Cardinality(Free("fetch")')
      BY <2>5, <2>7, Counts, Grows
    <3>4. ReceiveOk'
      BY <3>3, <1>1, <1>p, Counts DEF WakeInv, ReceiveOk
    <3> QED BY <3>1, <3>2, <3>4 DEF WakeInv
  <2> QED BY <1>4, <2>6, <2>7 DEF NotNow
<1> QED BY <1>3, <1>4

\* It joins the waiting tasks while the lock count still accounts for every
\* message that is there.
LEMMA PlaceWake ==
  ASSUME HeldInv, HeldInv', CallInv, WakeInv, NEW t \in Tasks, Place(t)
  PROVE  WakeInv'
<1> DEFINE e == IF call[t].op = "fetch" THEN "receive" ELSE "send"
           ticks == call[t].xTicksToWait
<1>1. /\ pc[t] = "place" /\ pc' = [pc EXCEPT ![t] = "unlock"]
      /\ k' = PlaceOnEventList(k, t, e, ticks)
      /\ call' = call /\ uxMessagesWaiting' = uxMessagesWaiting /\ cTxLock' = cTxLock
  BY DEF Place, Goto, queueVars
<1>2. e \in EventLists /\ ticks \in 1 .. portMAX_DELAY /\ k \in KernelType /\ Sound(k)
  <2>1. ticks \in Ticks /\ ticks > 0
    BY <1>1, Types, CallFields DEF HeldInv, LockInv, Blocking
  <2> QED BY <2>1, Sizes, Types DEF EventLists, Ticks, HeldInv
<1>o. call[t].op = IF e = "receive" THEN "fetch" ELSE "post"
  BY <1>1 DEF CallInv, CallOk, Blocking
<1>e. e \in {"receive", "send"}
  OBVIOUS
<1> HIDE DEF e, ticks
<1>3. /\ k'.ev[e] = Append(k.ev[e], t)
      /\ \A f \in EventLists : f # e => k'.ev[f] = k.ev[f]
  BY <1>1, <1>2, PlaceIs
<1>4. pc[t] \in Suspended /\ pc[t] \in Locked
  BY <1>1 DEF Suspended, Locked
<1>5. pc'[t] = "unlock" /\ \A u \in Tasks : u # t => pc'[u] = pc[u]
  BY <1>1, Types
<1>6. \A u \in Tasks : u # t => pc[u] \notin Suspended
  BY <1>4, HeldRun
<1>7. PlaceOk'
  BY <1>5, <1>6 DEF PlaceOk, Suspended, Locked
<1>8. \A f \in EventLists : \A u \in Tasks : u # t /\ u \in Members(k'.ev[f]) => u \in Members(k.ev[f])
  <2>1. Members(k'.ev[e]) = Members(k.ev[e]) \cup {t}
    <3>1. k.ev[e] \in Seq(Tasks) /\ Once(k.ev[e]) /\ t \notin Members(k.ev[e])
      BY <1>1, <1>2, Fields DEF HeldInv, EventInv, Waiting
    <3> QED BY <3>1, <1>3, AppendMembers
  <2> QED BY <1>3, <2>1
<1>9. \A op : Free(op) \subseteq Free(op)'
  BY <1>1, <1>5, <1>8 DEF Free
<1>10. Cardinality(Free("fetch")) <= Cardinality(Free("fetch")')
       /\ Cardinality(Free("post")) <= Cardinality(Free("post")')
  BY <1>9, Counts, Grows
<1>11. Posted' = Posted /\ Posted = cTxLock
  BY <1>1, <1>4 DEF Posted, HeldInv, LockInv
<1>12. "receive" \in EventLists /\ "send" \in EventLists /\ "receive" # "send"
  BY DEF EventLists
<1>13. CASE e = "receive"
  <2>1. uxMessagesWaiting <= cTxLock
    BY <1>1, <1>o, <1>13 DEF WakeInv, PlaceOk
  <2>2. ReceiveOk'
    BY <2>1, <1>1, <1>11, Counts DEF ReceiveOk
  <2>3. k'.ev["send"] = k.ev["send"]
    BY <1>3, <1>12, <1>13
  <2>4. SendOk'
    BY <2>3, <1>1, <1>10, Counts DEF WakeInv, SendOk
  <2> QED BY <1>7, <2>2, <2>4 DEF WakeInv
<1>14. CASE e = "send"
  <2>1. Full
    BY <1>1, <1>o, <1>14 DEF WakeInv, PlaceOk
  <2>2. SendOk'
    BY <2>1, <1>1, Counts DEF SendOk, Full
  <2>3. k'.ev["receive"] = k.ev["receive"]
    BY <1>3, <1>12, <1>14
  <2>4. ReceiveOk'
    BY <2>3, <1>1, <1>10, <1>11, Counts DEF WakeInv, ReceiveOk
  <2> QED BY <1>7, <2>2, <2>4 DEF WakeInv
<1> QED BY <1>e, <1>13, <1>14

\* prvUnlockQueue turns every post it finds in the lock count into a second
\* look of a waiting task.
LEMMA UnlockWake ==
  ASSUME HeldInv, HeldInv', WakeInv, NEW t \in Tasks, UnlockQueue(t)
  PROVE  WakeInv'
<1>1. /\ pc[t] = "unlock" /\ pc' = [pc EXCEPT ![t] = "resume"]
      /\ RemoveFromEventList("receive", cTxLock) /\ cTxLock' = queueUNLOCKED
      /\ UNCHANGED <<uxMessagesWaiting, call>>
  BY DEF UnlockQueue, Goto
<1>2. pc[t] \in Suspended /\ pc[t] \in Locked
  BY <1>1 DEF Suspended, Locked
<1>3. \A u \in Tasks : u # t => pc[u] \notin Suspended
  BY <1>2, HeldRun
<1>4. cTxLock \in Nat /\ cTxLock # queueUNLOCKED
  <2>1. cTxLock # -1
    BY <1>2 DEF HeldInv, LockInv, queueUNLOCKED
  <2> QED BY <2>1, Types DEF queueUNLOCKED
<1>5. pc'[t] = "resume" /\ \A u \in Tasks : u # t => pc'[u] = pc[u] /\ call'[u] = call[u]
  BY <1>1, Types
<1>6. /\ Once(k.ev["receive"]) /\ k \in KernelType /\ k' \in KernelType
      /\ "receive" \in EventLists /\ "send" \in EventLists
  BY Types DEF HeldInv, EventInv, Waiting, EventLists, TypeOK, KernelTypeOK
<1>7. PICK W : Removed("receive", cTxLock, W)
  BY <1>1, <1>4, <1>6, RemoveIs
<1>8. /\ W \in SUBSET Tasks /\ W \subseteq Members(k.ev["receive"])
      /\ Members(k'.ev["receive"]) = Members(k.ev["receive"]) \ W
      /\ k'.ev["send"] = k.ev["send"]
      /\ k'.ev["receive"] # << >> => Cardinality(W) = cTxLock
  BY <1>6, <1>7 DEF Removed
<1>9. \A f \in EventLists : Members(k'.ev[f]) \subseteq Members(k.ev[f])
  BY <1>8 DEF EventLists
<1>10. \A u \in Tasks : pc'[u] # "place"
  BY <1>3, <1>5 DEF Suspended, Locked
<1>11. \A op : Free(op) \subseteq Free(op)'
  BY <1>1, <1>9, <1>10 DEF Free
<1>12. W \subseteq Free("fetch")' /\ Free("fetch") \cap W = {}
  <2>1. Free("fetch") \cap W = {}
    BY <1>6, <1>8 DEF Free
  <2>2. ASSUME NEW u \in W PROVE u \in Free("fetch")'
    <3>1. u \in Tasks /\ u \in Members(k.ev["receive"]) /\ u \notin Members(k'.ev["receive"])
      BY <1>8, <2>2
    <3>2. call[u].op = "fetch"
      BY <3>1 DEF HeldInv, EventInv, Waiting
    <3>3. u \notin Members(k'.ev["send"])
      BY <3>1, <3>2, <1>8 DEF HeldInv, EventInv, Waiting
    <3> QED BY <3>1, <3>2, <3>3, <1>1, <1>10 DEF Free, EventLists
  <2> QED BY <2>1, <2>2
<1>13. PlaceOk'
  BY <1>10 DEF PlaceOk
<1>14. Posted = cTxLock /\ Posted' = 0
  BY <1>1, <1>4 DEF Posted
<1>15. ReceiveOk'
  <2> SUFFICES ASSUME k'.ev["receive"] # << >>
               PROVE  Cardinality(Free("fetch")') + Posted' >= uxMessagesWaiting'
    BY DEF ReceiveOk
  <2>1. k.ev["receive"] # << >> /\ Cardinality(W) = cTxLock
    BY <1>6, <1>8, <1>9, NonEmpty
  <2>2. Cardinality(Free("fetch")) + Posted >= uxMessagesWaiting
    BY <2>1 DEF WakeInv, ReceiveOk
  <2>3. Cardinality(Free("fetch")) + Cardinality(W) <= Cardinality(Free("fetch")')
    BY <1>8, <1>11, <1>12, Counts, Gains
  <2> QED BY <1>1, <1>14, <2>1, <2>2, <2>3, Counts
<1>16. SendOk'
  <2>1. Cardinality(Free("post")) <= Cardinality(Free("post")')
    BY <1>11, Counts, Grows
  <2> QED BY <2>1, <1>1, <1>8, Counts DEF WakeInv, SendOk
<1> QED BY <1>13, <1>15, <1>16 DEF WakeInv

\* A wake-up by the tick only adds second looks.
LEMMA KernelWake ==
  ASSUME HeldInv, HeldInv', WakeInv,
         TickInterrupt \/ \E t \in Tasks : Resume(t)
  PROVE  WakeInv'
<1>1. CASE TickInterrupt
  <2>1. UNCHANGED <<queueVars, pc, call>>
    BY <1>1 DEF TickInterrupt
  <2>2. \A e \in EventLists : Members(k'.ev[e]) \subseteq Members(k.ev[e])
    <3>1. CASE k' = IncrementTick(k)
      <4>1. Ticked(k, k')
        BY <3>1, Types, IncrementIs DEF HeldInv
      <4> QED BY <4>1, TickWaiting DEF HeldInv, EventInv
    <3>2. CASE k' = k
      BY <3>2
    <3> QED BY <1>1, <3>1, <3>2 DEF TickInterrupt, Tick
  <2>3. Posted' = Posted /\ cTxLock' = cTxLock /\ uxMessagesWaiting' = uxMessagesWaiting
    BY <2>1 DEF Posted, queueVars
  <2> QED BY <2>1, <2>2, <2>3, WakeQuiet
<1>2. ASSUME NEW t \in Tasks, Resume(t) PROVE WakeInv'
  <2>1. \A e \in EventLists : Members(k'.ev[e]) \subseteq Members(k.ev[e])
    BY <1>2, ResumeKernel
  <2>2. /\ UNCHANGED <<queueVars, call>>
        /\ \E x \in {"recheck", "try"} : pc' = [pc EXCEPT ![t] = x]
    BY <1>2 DEF Resume, Goto
  <2>3. \A u \in Tasks : pc'[u] = "place" => pc[u] = "place"
    BY <2>2, Types
  <2>4. Posted' = Posted /\ cTxLock' = cTxLock /\ uxMessagesWaiting' = uxMessagesWaiting
    BY <2>2 DEF Posted, queueVars
  <2> QED BY <2>1, <2>2, <2>3, <2>4, WakeQuiet
<1> QED BY <1>1, <1>2

LEMMA MsleepWake ==
  ASSUME HeldInv, HeldInv', CallInv, WakeInv, NEW t \in Tasks, Msleep(t)
  PROVE  WakeInv'
<1>0. PICK ms \in SleepMs :
        /\ ms \div TickMs > 0
        /\ pc' = [pc EXCEPT ![t] = "resume"]
        /\ call' = [call EXCEPT ![t] = [NoCall EXCEPT !.op = "sleep", !.asked = ms \div TickMs]]
        /\ k' = AddCurrentTaskToDelayedList(k, t, ms \div TickMs, FALSE)
  BY DEF Msleep
<1> DEFINE ticks == ms \div TickMs
<1>1. ticks \in 1 .. portMAX_DELAY
  <2>1. ms \in Nat /\ TickMs \in Nat \ {0} /\ ticks < portMAX_DELAY /\ ticks > 0
    BY <1>0, QueueAssumption
  <2>2. ticks \in Int
    BY <2>1
  <2> HIDE DEF ticks
  <2> QED BY <2>1, <2>2, Sizes
<1>2. k' = AddCurrentTaskToDelayedList(k, t, ticks, FALSE) /\ FALSE \in BOOLEAN
  BY <1>0
<1> HIDE DEF ticks
<1>3. k'.ev = k.ev
  BY <1>1, <1>2, Types, AddIs DEF HeldInv
<1>4. CanRun(t) /\ pc[t] = "idle" /\ UNCHANGED queueVars
  BY DEF Msleep
<1>5. call[t].op = "none"
  BY <1>4 DEF CallInv, CallOk
<1>6. \A u \in Tasks : pc[u] \notin Suspended
  <2>1. "idle" \notin Suspended
    BY DEF Suspended, Locked
  <2> QED BY <1>4, <2>1, FreeRun
<1>7. pc'[t] = "resume" /\ \A u \in Tasks : u # t => pc'[u] = pc[u] /\ call'[u] = call[u]
  BY <1>0, Types
<1>8. \A u \in Tasks : pc'[u] # "place"
  BY <1>6, <1>7 DEF Suspended, Locked
<1>9. \A op \in {"fetch", "post"} : Free(op) \subseteq Free(op)'
  BY <1>3, <1>5, <1>7, <1>8 DEF Free
<1>10. Posted' = Posted /\ uxMessagesWaiting' = uxMessagesWaiting
  BY <1>4 DEF Posted, queueVars
<1>11. PlaceOk'
  BY <1>8 DEF PlaceOk
<1> QED BY <1>3, <1>9, <1>10, <1>11, WakeFrame

LEMMA WakeNext ==
  ASSUME HeldInv, CallInv, WakeInv, [Next]_vars
  PROVE  WakeInv'
<1>0. HeldInv'
  BY HeldNext
<1>1. ASSUME NEW t \in Fetchers, Fetch(t) PROVE WakeInv'
  <2>1. PICK ticks \in Ticks : t \in Tasks /\ Begin(t, "fetch", ticks)
    BY <1>1, FetchTicks
  <2> QED BY <1>0, <2>1, BeginWake
<1>2. ASSUME NEW t \in Posters, Post(t) PROVE WakeInv'
  <2>1. t \in Tasks /\ \E ticks : Begin(t, "post", ticks)
    BY <1>2, QueueAssumption DEF Post
  <2> QED BY <1>0, <2>1, BeginWake
<1>3. ASSUME NEW t \in Posters, Msleep(t) PROVE WakeInv'
  <2>1. t \in Tasks
    BY QueueAssumption
  <2> QED BY <1>0, <1>3, <2>1, MsleepWake
<1>4. ASSUME NEW t \in Tasks, Step(t) PROVE WakeInv'
  BY <1>0, <1>4, TransferWake, TryWake, LockWake, CheckWake, PlaceWake, UnlockWake,
     KernelWake DEF Step
<1>5. CASE PostFromISR
  BY <1>0, <1>5, IsrWake
<1>6. CASE TickInterrupt
  BY <1>0, <1>6, KernelWake
<1>7. CASE UNCHANGED vars
  <2>1. /\ k' = k /\ call' = call /\ pc' = pc /\ uxMessagesWaiting' = uxMessagesWaiting
        /\ cTxLock' = cTxLock
    BY <1>7 DEF vars, kernelVars, queueVars
  <2>2. Posted' = Posted
    BY <2>1 DEF Posted
  <2> QED BY <1>0, <2>1, <2>2, WakeQuiet
<1> QED
  BY <1>1, <1>2, <1>3, <1>4, <1>5, <1>6, <1>7 DEF Next

\* No wake-up is lost, for any number of tasks, any length of the queue and
\* any interleaving with the interrupt's posts: while the queue is unlocked and
\* tasks wait on it, every message has a fetching task that will still look at
\* the queue, and every free slot a posting one.  It is why xQueueReceive may
\* check, lock, check again and only then block.
THEOREM QueueNoLostWakeup == Spec => []NoLostWakeup
<1>1. Init => WakeInv
  <2> SUFFICES ASSUME Init PROVE WakeInv
    OBVIOUS
  <2>1. k.ev = [e \in EventLists |-> << >>]
    BY DEF Init, KernelInit
  <2>2. k.ev["receive"] = << >> /\ k.ev["send"] = << >>
    BY <2>1 DEF EventLists
  <2>3. \A t \in Tasks : pc[t] # "place"
    BY DEF Init
  <2> QED BY <2>2, <2>3 DEF WakeInv, PlaceOk, ReceiveOk, SendOk
<1>2. (HeldInv /\ CallInv) /\ WakeInv /\ [Next]_vars => WakeInv'
  BY WakeNext
<1>3. HeldInv /\ WakeInv => NoLostWakeup
  <2> SUFFICES ASSUME HeldInv, WakeInv, cTxLock = queueUNLOCKED
               PROVE  /\ k.ev["receive"] # << >> => Cardinality(Awake("fetch")) >= uxMessagesWaiting
                      /\ k.ev["send"] # << >> => Cardinality(Awake("post")) >= Length - uxMessagesWaiting
    BY DEF NoLostWakeup
  <2>1. \A e \in EventLists : Range(k.ev[e]) = Members(k.ev[e])
    <3> SUFFICES ASSUME NEW e \in EventLists PROVE Range(k.ev[e]) = Members(k.ev[e])
      OBVIOUS
    <3>1. k.ev[e] \in Seq(Tasks)
      BY Types, Fields
    <3>2. DOMAIN k.ev[e] = 1 .. Len(k.ev[e])
      BY <3>1
    <3> QED BY <3>2 DEF Range, Members
  <2>2. \A op : Free(op) \subseteq Awake(op) /\ Free(op) \in SUBSET Tasks /\ Awake(op) \in SUBSET Tasks
    BY <2>1 DEF Free, Awake
  <2>3. \A op : /\ Cardinality(Free(op)) \in Nat /\ Cardinality(Awake(op)) \in Nat
                /\ Cardinality(Free(op)) <= Cardinality(Awake(op))
    BY <2>2, Grows
  <2>4. Posted = 0
    BY DEF Posted
  <2>5. uxMessagesWaiting \in Nat /\ Length \in Nat
    BY Types
  <2> QED BY <2>3, <2>4, <2>5 DEF WakeInv, ReceiveOk, SendOk
<1> QED BY <1>1, <1>2, <1>3, QueueHeld, PTL DEF Spec

-----------------------------------------------------------------------------
(* The mailbox. *)

\* The slot i places behind r.
Slot(r, i) == (r + i) % Length

\* The next slot to write follows the messages that begin after the last one
\* read.
RingInv == pcWriteTo = Slot(Slot(pcReadFrom, 1), uxMessagesWaiting)

LEMMA SlotIs ==
  ASSUME NEW r \in 0 .. Length - 1, NEW i \in 0 .. Length
  PROVE  /\ Slot(r, i) \in 0 .. Length - 1
         /\ Slot(r, i) = IF r + i < Length THEN r + i ELSE r + i - Length
<1>1. Length \in Nat /\ Length > 0
  BY QueueAssumption
<1> QED BY <1>1, SMT DEF Slot

\* Moving by one place, and then by i.
LEMMA SlotNext ==
  ASSUME NEW r \in 0 .. Length - 1, NEW i \in 0 .. Length - 1
  PROVE  /\ Slot(Slot(r, 1), i) = Slot(r, i + 1)
         /\ Slot(Slot(r, i), 1) = Slot(r, i + 1)
<1>1. Length \in Nat /\ Length > 0
  BY QueueAssumption
<1>2. 1 \in 0 .. Length /\ i \in 0 .. Length /\ i + 1 \in 0 .. Length
  BY <1>1
<1>3. /\ Slot(r, 1) \in 0 .. Length - 1
      /\ Slot(r, 1) = IF r + 1 < Length THEN r + 1 ELSE r + 1 - Length
  BY <1>2, SlotIs
<1>4. /\ Slot(r, i) \in 0 .. Length - 1
      /\ Slot(r, i) = IF r + i < Length THEN r + i ELSE r + i - Length
  BY <1>2, SlotIs
<1>5. Slot(r, i + 1) = IF r + (i + 1) < Length THEN r + (i + 1) ELSE r + (i + 1) - Length
  BY <1>2, SlotIs
<1> DEFINE a == Slot(r, 1)
           b == Slot(r, i)
<1> HIDE DEF a, b
<1>6. Slot(a, i) = IF a + i < Length THEN a + i ELSE a + i - Length
  BY <1>2, <1>3, SlotIs DEF a
<1>7. Slot(b, 1) = IF b + 1 < Length THEN b + 1 ELSE b + 1 - Length
  BY <1>2, <1>4, SlotIs DEF b
<1>8. Slot(a, i) = Slot(r, i + 1)
  BY <1>1, <1>3, <1>5, <1>6 DEF a
<1>9. Slot(b, 1) = Slot(r, i + 1)
  BY <1>1, <1>4, <1>5, <1>7 DEF b
<1> QED BY <1>8, <1>9 DEF a, b

\* Two places less than a turn apart are two slots.
LEMMA SlotsDiffer ==
  ASSUME NEW r \in 0 .. Length - 1, NEW i \in 1 .. Length, NEW j \in 1 .. Length, i # j
  PROVE  Slot(r, i) # Slot(r, j)
<1>1. Length \in Nat /\ i \in 0 .. Length /\ j \in 0 .. Length
  BY QueueAssumption
<1>2. Slot(r, i) = IF r + i < Length THEN r + i ELSE r + i - Length
  BY <1>1, SlotIs
<1>3. Slot(r, j) = IF r + j < Length THEN r + j ELSE r + j - Length
  BY <1>1, SlotIs
<1> QED BY <1>1, <1>2, <1>3

LEMMA ContentsIs ==
  ASSUME HeldInv
  PROVE  /\ Contents \in Seq(Messages \cup {NoMsg}) /\ Len(Contents) = uxMessagesWaiting
         /\ \A i \in 1 .. uxMessagesWaiting : Contents[i] = buf[Slot(pcReadFrom, i)]
<1>1. /\ uxMessagesWaiting \in Nat /\ uxMessagesWaiting <= Length /\ Length \in Nat
      /\ pcReadFrom \in 0 .. Length - 1
      /\ buf \in [0 .. Length - 1 -> Messages \cup {NoMsg}]
  BY Types
<1>2. \A i \in 1 .. uxMessagesWaiting : Slot(pcReadFrom, i) \in 0 .. Length - 1
  <2> SUFFICES ASSUME NEW i \in 1 .. uxMessagesWaiting PROVE Slot(pcReadFrom, i) \in 0 .. Length - 1
    OBVIOUS
  <2>1. i \in 0 .. Length
    BY <1>1
  <2> QED BY <1>1, <2>1, SlotIs
<1>3. Contents = [i \in 1 .. uxMessagesWaiting |-> buf[Slot(pcReadFrom, i)]]
  BY DEF Contents, Slot
<1>4. Contents \in [1 .. uxMessagesWaiting -> Messages \cup {NoMsg}]
  BY <1>1, <1>2, <1>3
<1>5. Contents \in Seq(Messages \cup {NoMsg}) /\ Len(Contents) = uxMessagesWaiting
  BY <1>1, <1>4
<1> QED BY <1>3, <1>5

\* A post appends to the mailbox,
LEMMA CopyToBox ==
  ASSUME HeldInv, HeldInv', RingInv, ~Full, NEW m \in Messages, CopyDataToQueue(m)
  PROVE  /\ RingInv' /\ Len(Contents) < Length
         /\ Contents' = Append(Contents, m)
<1> DEFINE n == uxMessagesWaiting
           r == pcReadFrom
<1>1. /\ n \in Nat /\ n <= Length /\ Length \in Nat \ {0} /\ r \in 0 .. Length - 1
      /\ buf \in [0 .. Length - 1 -> Messages \cup {NoMsg}]
  BY Types
<1>2. n < Length /\ n \in 0 .. Length - 1 /\ n + 1 \in 1 .. Length
  BY <1>1 DEF Full
<1>3. pcWriteTo = Slot(r, n + 1) /\ pcWriteTo \in 0 .. Length - 1
  BY <1>1, <1>2, SlotNext, Types DEF RingInv
<1>4. /\ buf' = [buf EXCEPT ![pcWriteTo] = m] /\ pcWriteTo' = Slot(pcWriteTo, 1)
      /\ uxMessagesWaiting' = n + 1 /\ pcReadFrom' = r
  BY DEF CopyDataToQueue, Slot
<1>5. /\ Len(Contents) = n /\ Contents \in Seq(Messages \cup {NoMsg})
      /\ \A i \in 1 .. n : Contents[i] = buf[Slot(r, i)]
  BY ContentsIs
<1>6. Contents' = [i \in 1 .. n + 1 |-> buf'[Slot(r, i)]]
  BY <1>4 DEF Contents, Slot
<1> HIDE DEF n, r
<1>7. ASSUME NEW i \in 1 .. n PROVE buf'[Slot(r, i)] = Contents[i]
  <2>1. i \in 1 .. Length /\ i \in 0 .. Length /\ i # n + 1
    BY <1>1
  <2>2. Slot(r, i) \in 0 .. Length - 1 /\ Slot(r, i) # pcWriteTo
    BY <1>1, <1>2, <1>3, <2>1, SlotIs, SlotsDiffer
  <2> QED BY <1>1, <1>4, <1>5, <2>2
<1>8. buf'[Slot(r, n + 1)] = m
  BY <1>1, <1>3, <1>4
<1>9. Contents' = Append(Contents, m)
  <2>1. Append(Contents, m) = [i \in 1 .. n + 1 |-> IF i <= n THEN Contents[i] ELSE m]
    BY <1>1, <1>5
  <2>2. \A i \in 1 .. n + 1 : (i <= n => i \in 1 .. n) /\ (~(i <= n) => i = n + 1)
    BY <1>1
  <2>3. \A i \in 1 .. n + 1 : buf'[Slot(r, i)] = IF i <= n THEN Contents[i] ELSE m
    BY <1>7, <1>8, <2>2
  <2> QED BY <1>6, <2>1, <2>3
<1>10. RingInv'
  <2>1. Slot(r, 1) \in 0 .. Length - 1
    <3>1. 1 \in 0 .. Length
      BY <1>1
    <3> QED BY <1>1, <3>1, SlotIs
  <2>2. Slot(Slot(Slot(r, 1), n), 1) = Slot(Slot(r, 1), n + 1)
    BY <1>2, <2>1, SlotNext
  <2>3. pcWriteTo = Slot(Slot(r, 1), n)
    BY DEF RingInv, n, r
  <2> QED BY <1>4, <2>2, <2>3 DEF RingInv, Slot
<1> QED BY <1>2, <1>5, <1>9, <1>10

\* and a fetch takes the oldest message.
LEMMA CopyFromBox ==
  ASSUME HeldInv, HeldInv', RingInv, ~Empty, NEW t \in Tasks, CopyDataFromQueue(t)
  PROVE  /\ RingInv' /\ Contents # << >>
         /\ Contents' = Tail(Contents)
         /\ got' = [got EXCEPT ![t] = Head(Contents)]
<1> DEFINE n == uxMessagesWaiting
           r == pcReadFrom
<1>1. /\ n \in Nat /\ n <= Length /\ Length \in Nat \ {0} /\ r \in 0 .. Length - 1
  BY Types
<1>2. n > 0 /\ n - 1 \in 0 .. Length - 1 /\ 1 \in 1 .. n /\ 1 \in 0 .. Length
  BY <1>1 DEF Empty
<1>4. /\ pcReadFrom' = Slot(r, 1) /\ got' = [got EXCEPT ![t] = buf[Slot(r, 1)]]
      /\ uxMessagesWaiting' = n - 1 /\ buf' = buf /\ pcWriteTo' = pcWriteTo
  BY DEF CopyDataFromQueue, Slot
<1>5. /\ Len(Contents) = n /\ Contents \in Seq(Messages \cup {NoMsg})
      /\ \A i \in 1 .. n : Contents[i] = buf[Slot(r, i)]
  BY ContentsIs
<1>6. Contents' = [i \in 1 .. n - 1 |-> buf[Slot(Slot(r, 1), i)]]
  BY <1>4 DEF Contents, Slot
<1>r. pcWriteTo = Slot(Slot(r, 1), n)
  BY DEF RingInv
<1> HIDE DEF n, r
<1>7. ASSUME NEW i \in 1 .. n - 1 PROVE buf[Slot(Slot(r, 1), i)] = Contents[i + 1]
  <2>1. i \in 0 .. Length - 1 /\ i + 1 \in 1 .. n
    BY <1>1
  <2>2. Slot(Slot(r, 1), i) = Slot(r, i + 1)
    BY <1>1, <2>1, SlotNext
  <2> QED BY <1>5, <2>1, <2>2
<1>8. Contents' = Tail(Contents)
  <2>0. Contents # << >>
    BY <1>2, <1>5
  <2>1. /\ Tail(Contents) \in Seq(Messages \cup {NoMsg}) /\ Len(Tail(Contents)) = n - 1
        /\ \A i \in 1 .. n - 1 : Tail(Contents)[i] = Contents[i + 1]
    BY <1>1, <1>2, <1>5, <2>0
  <2>2. Tail(Contents) = [i \in 1 .. n - 1 |-> Tail(Contents)[i]]
    <3> DEFINE s == Tail(Contents)
    <3> HIDE DEF s
    <3>1. s \in Seq(Messages \cup {NoMsg}) /\ Len(s) = n - 1
      BY <2>1 DEF s
    <3>2. s = [i \in 1 .. n - 1 |-> s[i]]
      BY <3>1
    <3> QED BY <3>2 DEF s
  <2> QED BY <1>6, <1>7, <2>1, <2>2
<1>9. Contents # << >> /\ Head(Contents) = buf[Slot(r, 1)]
  <2>1. Contents # << >>
    BY <1>2, <1>5
  <2>2. Head(Contents) = Contents[1]
    BY <1>5, <2>1
  <2> QED BY <1>2, <1>5, <2>1, <2>2
<1>10. RingInv'
  <2>1. Slot(r, 1) \in 0 .. Length - 1
    BY <1>1, <1>2, SlotIs
  <2>2. Slot(Slot(Slot(r, 1), 1), n - 1) = Slot(Slot(r, 1), (n - 1) + 1)
    BY <1>2, <2>1, SlotNext
  <2>3. (n - 1) + 1 = n
    BY <1>1
  <2>4. pcWriteTo' = Slot(Slot(pcReadFrom', 1), uxMessagesWaiting')
    BY <1>4, <1>r, <2>2, <2>3
  <2> QED BY <2>4 DEF RingInv, Slot
<1> QED BY <1>4, <1>8, <1>9, <1>10

\* A step that leaves the ring alone leaves the mailbox alone.
LEMMA SameBox ==
  ASSUME RingInv, UNCHANGED <<buf, pcWriteTo, pcReadFrom, uxMessagesWaiting>>
  PROVE  RingInv' /\ Contents' = Contents
<1>1. RingInv'
  BY DEF RingInv, Slot
<1>2. Contents' = Contents
  BY DEF Contents
<1> QED BY <1>1, <1>2

LEMMA TransferBox ==
  ASSUME HeldInv, HeldInv', CallInv, RingInv, NEW t \in Tasks, Transfer(t)
  PROVE  RingInv' /\ Box!Next
<1>1. CASE call[t].op = "fetch" /\ ~Empty /\ CopyDataFromQueue(t)
  <2>1. RingInv' /\ Box!Fetch(t)
    BY <1>1, CopyFromBox DEF Box!Fetch
  <2> QED BY <2>1 DEF Box!Next
<1>2. CASE call[t].op = "post" /\ ~Full /\ CopyDataToQueue(t) /\ UNCHANGED got
  <2>1. t \in Messages
    BY <1>2 DEF CallInv, CallOk, Messages
  <2>2. RingInv' /\ Box!Post(t)
    BY <1>2, <2>1, CopyToBox DEF Box!Post
  <2> QED BY <2>1, <2>2 DEF Box!Next
<1> QED BY <1>1, <1>2 DEF Transfer

LEMMA IsrBox ==
  ASSUME HeldInv, HeldInv', RingInv, PostFromISR
  PROVE  RingInv' /\ Box!Next
<1>1. IsrMsg \in Messages
  BY DEF Messages
<1>2. RingInv' /\ Box!Post(IsrMsg)
  BY <1>1, CopyToBox DEF PostFromISR, Box!Post
<1> QED BY <1>1, <1>2 DEF Box!Next

LEMMA EmptyBox ==
  ASSUME HeldInv
  PROVE  /\ Empty => Contents = << >>
         /\ Full => Len(Contents) = Length
<1>1. Contents \in Seq(Messages \cup {NoMsg}) /\ Len(Contents) = uxMessagesWaiting
  BY ContentsIs
<1>2. Len(Contents) = 0 => Contents = << >>
  BY <1>1
<1> QED BY <1>1, <1>2 DEF Empty, Full

\* A call that fails does so at an instant when the mailbox is empty, or full.
LEMMA FailBox ==
  ASSUME HeldInv, CallInv, RingInv, NEW t \in Tasks, Fail(t) \/ Recheck(t)
  PROVE  RingInv' /\ (Box!Next \/ UNCHANGED <<Contents, got>>)
<1>1. RingInv' /\ Contents' = Contents
  BY SameBox DEF Fail, Recheck, queueVars
<1>2. CASE Fail(t)
  <2>1. CASE call[t].op = "fetch" /\ Empty
    <3>1. Box!Miss(t)
      BY <1>1, <1>2, <2>1, EmptyBox DEF Fail, Box!Miss, Box!TimedOut, TimedOut
    <3> QED BY <1>1, <3>1 DEF Box!Next
  <2>2. CASE call[t].op = "post" /\ Full
    <3>1. Box!Refuse(t)
      BY <1>1, <1>2, <2>2, EmptyBox DEF Fail, Box!Refuse, Box!Refused, Refused
    <3> QED BY <1>1, <3>1 DEF Box!Next
  <2> QED BY <1>2, <2>1, <2>2 DEF Fail, NotNow
<1>3. CASE Recheck(t)
  <2>1. pc[t] = "recheck" /\ call[t].op # "post"
    BY <1>3 DEF Recheck, CallInv, CallOk
  <2>2. CASE UNCHANGED got
    BY <1>1, <2>2
  <2>3. CASE /\ call[t].op = "sleep" \/ Empty
             /\ got' = [got EXCEPT ![t] = IF call[t].op = "fetch" THEN TimedOut ELSE @]
    <3>1. CASE call[t].op = "fetch"
      <4>1. Box!Miss(t)
        BY <1>1, <2>3, <3>1, EmptyBox DEF Box!Miss, Box!TimedOut, TimedOut
      <4> QED BY <1>1, <4>1 DEF Box!Next
    <3>2. CASE call[t].op # "fetch"
      <4>1. got' = got
        BY <2>3, <3>2, Types
      <4> QED BY <1>1, <4>1
    <3> QED BY <3>1, <3>2
  <2> QED BY <1>3, <2>2, <2>3 DEF Recheck
<1> QED BY <1>2, <1>3

LEMMA BoxNext ==
  ASSUME HeldInv, CallInv, RingInv, [Next]_vars
  PROVE  RingInv' /\ (Box!Next \/ UNCHANGED <<Contents, got>>)
<1>0. HeldInv'
  BY HeldNext
<1>1. ASSUME NEW t \in Tasks, NEW op, NEW ticks, Begin(t, op, ticks)
      PROVE  RingInv' /\ Box!Next
  <2>1. RingInv' /\ Box!Call(t)
    BY <1>1, SameBox DEF Begin, queueVars, Box!Call
  <2> QED BY <2>1 DEF Box!Next
<1>2. ASSUME NEW t \in Fetchers, Fetch(t) PROVE RingInv' /\ Box!Next
  BY <1>1, <1>2, FetchTicks
<1>3. ASSUME NEW t \in Posters, Post(t) PROVE RingInv' /\ Box!Next
  <2>1. t \in Tasks /\ \E ticks : Begin(t, "post", ticks)
    BY <1>3, QueueAssumption DEF Post
  <2> QED BY <1>1, <2>1
<1>4. ASSUME NEW t, \/ Msleep(t) \/ NoteTime(t) \/ LockQueue(t) \/ CheckAgain(t)
                    \/ Place(t) \/ UnlockQueue(t) \/ Resume(t)
      PROVE  RingInv' /\ UNCHANGED <<Contents, got>>
  <2>1. UNCHANGED <<buf, pcWriteTo, pcReadFrom, uxMessagesWaiting>> /\ got' = got
    BY <1>4 DEF Msleep, NoteTime, LockQueue, CheckAgain, Place, UnlockQueue, Resume, queueVars
  <2> QED BY <2>1, SameBox
<1>5. CASE TickInterrupt \/ UNCHANGED vars
  <2>1. UNCHANGED <<buf, pcWriteTo, pcReadFrom, uxMessagesWaiting>> /\ got' = got
    BY <1>5 DEF TickInterrupt, vars, queueVars
  <2> QED BY <2>1, SameBox
<1>6. ASSUME NEW t \in Tasks, Step(t)
      PROVE  RingInv' /\ (Box!Next \/ UNCHANGED <<Contents, got>>)
  BY <1>0, <1>4, <1>6, TransferBox, FailBox DEF Step
<1>7. CASE PostFromISR
  BY <1>0, <1>7, IsrBox
<1> QED
  BY <1>2, <1>3, <1>4, <1>5, <1>6, <1>7 DEF Next

\* The ring of any length, with its pointers, its lock and its waiting tasks,
\* is a bounded mailbox: messages come out once, in the order they went in, a
\* fetch that reports a timeout does so at an instant when nothing is there,
\* and a refused post at one when there is no room.
THEOREM QueueIsMailbox == Spec => ImplementsMailbox
<1>1. Init => RingInv /\ Box!Init
  <2> SUFFICES ASSUME Init PROVE RingInv /\ Box!Init
    OBVIOUS
  <2>1. HeldInv
    BY HeldInit
  <2>2. /\ pcWriteTo = 0 /\ pcReadFrom = Length - 1 /\ uxMessagesWaiting = 0
        /\ got = [t \in Tasks |-> NoMsg]
    BY DEF Init
  <2>3. RingInv
    <3>1. Length \in Nat /\ Length > 0
      BY QueueAssumption
    <3>2. Length - 1 \in 0 .. Length - 1 /\ 1 \in 0 .. Length /\ 0 \in 0 .. Length
          /\ 0 \in 0 .. Length - 1
      BY <3>1
    <3> DEFINE r == Length - 1
    <3>3. Slot(r, 1) = IF r + 1 < Length THEN r + 1 ELSE r + 1 - Length
      BY <3>2, SlotIs
    <3>4. Slot(r, 1) = 0
      BY <3>1, <3>3
    <3>5. Slot(0, 0) = 0
      BY <3>1, <3>2, SlotIs
    <3> QED BY <2>2, <3>4, <3>5 DEF RingInv
  <2>4. Contents = << >>
    BY <2>1, <2>2, EmptyBox DEF Empty
  <2> QED BY <2>2, <2>3, <2>4 DEF Box!Init
<1>2. (HeldInv /\ CallInv) /\ RingInv /\ [Next]_vars
        => RingInv' /\ [Box!Next]_<<Contents, got>>
  BY BoxNext
<1> QED BY <1>1, <1>2, QueueHeld, PTL DEF Spec, ImplementsMailbox, Box!Spec

-----------------------------------------------------------------------------
(* The timer task: times modulo the range of the tick count. *)

LEMMA TimerSizes ==
  /\ Period \in Nat /\ Period > 0 /\ MaxLate \in Nat /\ Period + MaxLate < TickRange
  /\ TickRange \in Nat /\ Period < TickRange
  /\ Daemon \in Tasks /\ Netconf \in Tasks /\ Daemon # Netconf /\ Daemon # NoTask
BY TimerAssumption, KernelAssumption

\* Up to two turns of the count further on.
LEMMA PlusIs ==
  ASSUME NEW n \in Ticks, NEW x \in 0 .. 2 * TickRange - 1
  PROVE  /\ Plus(n, x) \in Ticks
         /\ Plus(n, x) = IF n + x < TickRange THEN n + x
                         ELSE IF n + x < 2 * TickRange THEN n + x - TickRange
                         ELSE n + x - 2 * TickRange
BY Sizes, SMT DEF Plus, Ticks

\* A timer set at since for a period later has expired by now just if a period
\* has passed, wherever the count wraps in between.
LEMMA ExpiresIs ==
  ASSUME NEW since \in Ticks, NEW now \in Ticks
  PROVE  ExpiresNow(Plus(since, Period), now, since) <=> Until(now, since) >= Period
<1> DEFINE next == Plus(since, Period)
<1>1. Until(now, since) = IF since <= now THEN now - since ELSE now - since + TickRange
  BY UntilIs
<1>2. next \in Ticks /\ next = IF since + Period < TickRange THEN since + Period
                                ELSE since + Period - TickRange
  <2>1. Period \in 0 .. 2 * TickRange - 1
    BY TimerSizes
  <2> QED BY <2>1, PlusIs, TimerSizes, SMT DEF Ticks
<1> HIDE DEF next
<1>3. ExpiresNow(next, now, since) <=>
        IF next <= now THEN Until(now, since) >= Period ELSE now < since /\ next >= since
  BY DEF ExpiresNow, Until
<1>4. ExpiresNow(next, now, since) <=> Until(now, since) >= Period
  BY <1>1, <1>2, <1>3, TimerSizes, SMT DEF Ticks
<1> QED BY <1>4 DEF next

\* n periods before d is over: where the count stands, and what is left.
LEMMA PeriodsOn ==
  ASSUME NEW expired \in Ticks, NEW now \in Ticks, NEW n \in Nat,
         n * Period <= Until(now, expired)
  PROVE  LET since == Plus(expired, n * Period)
         IN /\ since \in Ticks
            /\ Until(now, since) = Until(now, expired) - n * Period
            /\ Plus(expired, (n + 1) * Period) = Plus(since, Period)
<1> DEFINE p == n * Period
           d == Until(now, expired)
           since == Plus(expired, p)
<1>1. p \in Nat /\ (n + 1) * Period = p + Period
  BY TimerSizes, SMT
<1>2. d = (IF expired <= now THEN now - expired ELSE now - expired + TickRange)
  BY UntilIs
<1>3. p <= d
  OBVIOUS
<1> HIDE DEF p, d
<1>4. d \in Nat /\ d < TickRange /\ p \in 0 .. 2 * TickRange - 1
      /\ p + Period \in 0 .. 2 * TickRange - 1 /\ Period \in 0 .. 2 * TickRange - 1
  BY <1>1, <1>2, <1>3, TimerSizes, SMT DEF Ticks
<1>5. since \in Ticks /\ since = IF expired + p < TickRange THEN expired + p
                                  ELSE expired + p - TickRange
  <2>1. expired + p < 2 * TickRange
    BY <1>1, <1>2, <1>3, TimerSizes, SMT DEF Ticks
  <2> QED BY <2>1, <1>4, PlusIs
<1> HIDE DEF since
<1>6. Until(now, since) = d - p
  <2>1. Until(now, since) = IF since <= now THEN now - since ELSE now - since + TickRange
    BY <1>5, UntilIs
  <2> QED BY <2>1, <1>1, <1>2, <1>3, <1>5, TimerSizes, SMT DEF Ticks
<1>7. Plus(expired, p + Period) = Plus(since, Period)
  <2>1. Plus(expired, p + Period) = IF expired + (p + Period) < TickRange THEN expired + (p + Period)
                         ELSE IF expired + (p + Period) < 2 * TickRange
                              THEN expired + (p + Period) - TickRange
                         ELSE expired + (p + Period) - 2 * TickRange
    BY <1>4, PlusIs
  <2>2. Plus(since, Period) = IF since + Period < TickRange THEN since + Period
                         ELSE IF since + Period < 2 * TickRange THEN since + Period - TickRange
                         ELSE since + Period - 2 * TickRange
    BY <1>4, <1>5, PlusIs
  <2> QED BY <2>1, <2>2, <1>1, <1>5, TimerSizes, SMT DEF Ticks
<1> QED BY <1>1, <1>5, <1>6, <1>7 DEF p, d, since

\* prvReloadTimer's loop calls the timer for the whole periods that passed.
LEMMA MissedIs ==
  ASSUME NEW expired \in Ticks, NEW now \in Ticks
  PROVE  /\ Missed(expired, now) \in Nat
         /\ Until(now, expired) - Missed(expired, now) * Period \in 0 .. Period - 1
         /\ Plus(expired, (Missed(expired, now) + 1) * Period)
              = Plus(now, Period - (Until(now, expired) - Missed(expired, now) * Period))
<1> DEFINE d == Until(now, expired)
           m == d \div Period
           S == {n \in 0 .. TickRange :
                   ~ExpiresNow(Plus(expired, (n + 1) * Period), now, Plus(expired, n * Period))}
<1>1. d \in Nat /\ d < TickRange
  <2>1. d = IF expired <= now THEN now - expired ELSE now - expired + TickRange
    BY UntilIs
  <2> QED BY <2>1, TimerSizes, SMT DEF Ticks
<1>2. ASSUME NEW n \in Nat, n * Period <= d
      PROVE  ExpiresNow(Plus(expired, (n + 1) * Period), now, Plus(expired, n * Period))
               <=> d - n * Period >= Period
  BY <1>2, PeriodsOn, ExpiresIs
<1> HIDE DEF d
<1>3. m \in Nat /\ m * Period <= d /\ d < (m + 1) * Period /\ m <= d
  BY <1>1, TimerSizes, SMT
<1>4. (m + 1) * Period = m * Period + Period /\ m * Period \in Nat
  BY <1>3, TimerSizes, SMT
<1> HIDE DEF m
<1>5. m \in S
  <2>1. ~(d - m * Period >= Period)
    BY <1>1, <1>3, <1>4, TimerSizes
  <2> QED BY <2>1, <1>1, <1>2, <1>3, TimerSizes
<1>6. ASSUME NEW n \in S PROVE m <= n
  <2> SUFFICES ASSUME n < m PROVE FALSE
    BY <1>3, TimerSizes
  <2>1. n \in Nat /\ (n + 1) * Period <= m * Period /\ (n + 1) * Period = n * Period + Period
        /\ n * Period \in Nat
    BY <1>3, TimerSizes, SMT
  <2>2. n * Period <= d /\ d - n * Period >= Period
    BY <2>1, <1>1, <1>3, <1>4, TimerSizes
  <2> QED BY <2>1, <2>2, <1>2
<1>7. Min(S) = m
  <2>1. Min(S) \in S /\ \A y \in S : Min(S) <= y
    <3> HIDE DEF S
    <3> QED BY <1>5, <1>6 DEF Min
  <2>2. Min(S) \in Nat
    BY <2>1
  <2> HIDE DEF S
  <2> QED BY <2>1, <2>2, <1>3, <1>5, <1>6
<1>8. Missed(expired, now) = m
  BY <1>7 DEF Missed
<1>9. d - m * Period \in 0 .. Period - 1
  BY <1>1, <1>3, <1>4, TimerSizes
<1>10. Plus(expired, (m + 1) * Period) = Plus(now, Period - (d - m * Period))
  <2> DEFINE since == Plus(expired, m * Period)
             r == d - m * Period
  <2>1. since \in Ticks /\ Until(now, since) = r
        /\ Plus(expired, (m + 1) * Period) = Plus(since, Period)
    BY <1>3, PeriodsOn DEF d
  <2>2. r \in 0 .. Period - 1
    BY <1>9
  <2> HIDE DEF r, since
  <2>3. r = IF since <= now THEN now - since ELSE now - since + TickRange
    BY <2>1, UntilIs
  <2>4. Period \in 0 .. 2 * TickRange - 1 /\ Period - r \in 0 .. 2 * TickRange - 1
    BY <2>2, TimerSizes
  <2>5. Plus(since, Period) = IF since + Period < TickRange THEN since + Period
                         ELSE IF since + Period < 2 * TickRange THEN since + Period - TickRange
                         ELSE since + Period - 2 * TickRange
    BY <2>1, <2>4, PlusIs
  <2>6. Plus(now, Period - r) = IF now + (Period - r) < TickRange THEN now + (Period - r)
                         ELSE IF now + (Period - r) < 2 * TickRange
                              THEN now + (Period - r) - TickRange
                         ELSE now + (Period - r) - 2 * TickRange
    BY <2>4, PlusIs
  <2>7. Plus(since, Period) = Plus(now, Period - r)
    BY <2>1, <2>2, <2>3, <2>5, <2>6, TimerSizes, SMT DEF Ticks
  <2> QED BY <2>1, <2>7 DEF r
<1> QED BY <1>3, <1>8, <1>9, <1>10 DEF d

\* The list an expiry up to a period ahead goes into.
LEMMA InsertedIs ==
  ASSUME NEW now \in Ticks, NEW x \in 1 .. Period
  PROVE  /\ Plus(now, x) \in Ticks
         /\ Inserted(Plus(now, x), now).value = Plus(now, x)
         /\ Inserted(Plus(now, x), now).list =
              IF now + x < TickRange THEN "current" ELSE "overflow"
         /\ Plus(now, x) = IF now + x < TickRange THEN now + x ELSE now + x - TickRange
<1>1. x \in 0 .. 2 * TickRange - 1
  BY TimerSizes
<1>2. /\ Plus(now, x) \in Ticks
      /\ Plus(now, x) = IF now + x < TickRange THEN now + x ELSE now + x - TickRange
  BY <1>1, PlusIs, TimerSizes, SMT DEF Ticks
<1>3. Plus(now, x) <= now <=> ~(now + x < TickRange)
  BY <1>2, TimerSizes, SMT DEF Ticks
<1> QED BY <1>2, <1>3 DEF Inserted

-----------------------------------------------------------------------------
(* The timer task's inductive invariant. *)

\* A timer on the overflow list expires in the next turn of the count.
Turn == IF timer.list = "overflow" THEN TickRange ELSE 0

\* At tick count q.tick, b ticks of which are not accounted for: they have
\* passed since the call of xTimerStart, or the timer is due Period - b ticks
\* from now; it lies in the turn of xLastTime or the next, as its list says,
\* and a timer task that sleeps wakes by then.
ClockAt(q, b) ==
  /\ npc = "send" => b = Until(q.tick, stamp)
  /\ xTimerQueue # << >> => b = Until(q.tick, Head(xTimerQueue))
  /\ timer.list # "none" =>
       /\ Until(q.tick, xLastTime) <= b
       /\ timer.value = xLastTime + Period - (b - Until(q.tick, xLastTime)) - Turn
       /\ q.list[Daemon] # "suspended"
       /\ q.list[Daemon] \in Timed => b + Until(q.wake[Daemon], q.tick) <= Period

\* Where the timer task is: only it suspends the scheduler, it blocks nowhere
\* else, and what it has read of the lists is still so.
PlaceInv ==
  /\ suspender = IF dpc \in {"resume", "resumeExpired"} THEN Daemon ELSE NoTask
  /\ suspender = NoTask => xPendedTicks = 0
  /\ pendingReady = {} /\ age = [t \in Tasks |-> -1]
  /\ k.list[Daemon] # "ready" => dpc \in {"resume", "receive"}
  /\ dpc = "block" => /\ xListWasEmpty = (timer.list # "current")
                      /\ xNextExpireTime = IF timer.list = "current" THEN timer.value ELSE 0
  /\ dpc \in {"resumeExpired", "expired"} =>
       /\ timer.list = "current" /\ xNextExpireTime = timer.value
       /\ xNextExpireTime <= xTimeNow /\ xTimeNow = xLastTime

\* The start command is in one place: not sent, in the queue, or carried out.
CommandInv ==
  /\ npc # "done" => timer.list = "none" /\ xTimerQueue = << >>
  /\ npc = "call" => owed = 0
  /\ npc # "call" => owed >= xPendedTicks
  /\ npc = "done" => (timer.list = "none" <=> xTimerQueue # << >>)
  /\ dpc = "start" => xTimerQueue # << >>

DaemonInv ==
  /\ TimerTypeOK /\ Sound(k) /\ PlaceInv /\ CommandInv
  /\ ClockAt(k, owed - xPendedTicks)

Commands == {<< >>} \cup {<<n>> : n \in Ticks}

LEMMA TimerTypes ==
  ASSUME TimerTypeOK
  PROVE  /\ k \in KernelType /\ xPendedTicks \in 0 .. MaxPended /\ xPendedTicks \in Nat
         /\ timer.list \in {"none", "current", "overflow"} /\ timer.value \in Ticks
         /\ timer = [list |-> timer.list, value |-> timer.value]
         /\ xLastTime \in Ticks /\ xNextExpireTime \in Ticks /\ xTimeNow \in Ticks
         /\ stamp \in Ticks /\ k.tick \in Ticks /\ k.wake[Daemon] \in Ticks
         /\ xTimerQueue \in Commands
         /\ xTimerQueue # << >> => Head(xTimerQueue) \in Ticks /\ Tail(xTimerQueue) = << >>
         /\ owed \in Int /\ owed < TickRange /\ owed <= Period + MaxLate
<1>1. k \in KernelType
  BY DEF TimerTypeOK, KernelTypeOK
<1>2. k.tick \in Ticks /\ k.wake[Daemon] \in Ticks
  BY <1>1, Fields, TimerSizes
<1>3. xPendedTicks \in 0 .. MaxPended /\ xPendedTicks \in Nat
  BY Sizes DEF TimerTypeOK, KernelTypeOK
<1>4. owed \in Int /\ owed < TickRange /\ owed <= Period + MaxLate
  BY TimerSizes DEF TimerTypeOK
<1>5. xTimerQueue \in Commands
  BY DEF TimerTypeOK, Commands, Ticks
<1>6. xTimerQueue # << >> => Head(xTimerQueue) \in Ticks /\ Tail(xTimerQueue) = << >>
  <2> SUFFICES ASSUME xTimerQueue # << >>
               PROVE  Head(xTimerQueue) \in Ticks /\ Tail(xTimerQueue) = << >>
    OBVIOUS
  <2>1. PICK n \in Ticks : xTimerQueue = <<n>>
    BY <1>5 DEF Commands
  <2> QED BY <2>1
<1>7. /\ timer.list \in {"none", "current", "overflow"} /\ timer.value \in Ticks
      /\ timer = [list |-> timer.list, value |-> timer.value]
      /\ xLastTime \in Ticks /\ xNextExpireTime \in Ticks /\ xTimeNow \in Ticks
      /\ stamp \in Ticks
  BY DEF TimerTypeOK, Ticks
<1> QED BY <1>1, <1>2, <1>3, <1>4, <1>5, <1>6, <1>7

LEMMA UntilRange ==
  ASSUME NEW at \in Ticks, NEW now \in Ticks
  PROVE  Until(at, now) \in Ticks /\ Until(at, now) \in Int
<1>1. Until(at, now) = IF now <= at THEN at - now ELSE at - now + TickRange
  BY UntilIs
<1> QED BY <1>1, Sizes, SMT DEF Ticks

\* The time since a moment grows by one, until the count has come round.
LEMMA SinceTick ==
  ASSUME NEW at \in Ticks, NEW now \in Ticks, Until(now, at) + 1 < TickRange
  PROVE  Until((now + 1) % TickRange, at) = Until(now, at) + 1
<1> DEFINE n == (now + 1) % TickRange
<1>1. n \in Ticks /\ n = IF now = TickRange - 1 THEN 0 ELSE now + 1
  BY TickStep
<1>2. Until(now, at) = IF at <= now THEN now - at ELSE now - at + TickRange
  BY UntilIs
<1> HIDE DEF n
<1>3. Until(n, at) = IF at <= n THEN n - at ELSE n - at + TickRange
  BY <1>1, UntilIs
<1>4. Until(n, at) = Until(now, at) + 1
  BY <1>1, <1>2, <1>3, Sizes, SMT DEF Ticks
<1> QED BY <1>4 DEF n

\* One tick of the kernel.
LEMMA ClockTick ==
  ASSUME TimerTypeOK, CommandInv, NEW q \in KernelType, Sound(q), NEW r, Ticked(q, r),
         NEW b \in Int, npc # "call" => b + 1 < TickRange, ClockAt(q, b)
  PROVE  ClockAt(r, b + 1)
<1>1. r \in KernelType /\ r.tick = (q.tick + 1) % TickRange /\ q.tick \in Ticks
      /\ r.tick \in Ticks /\ q.wake[Daemon] \in Ticks
  BY Fields, TimerSizes DEF Ticked
<1>2. ASSUME NEW at \in Ticks, Until(q.tick, at) <= b, npc # "call"
      PROVE  Until(r.tick, at) = Until(q.tick, at) + 1 /\ Until(q.tick, at) \in Int
  <2>1. Until(q.tick, at) \in Int
    BY <1>1, UntilRange
  <2>2. Until(q.tick, at) + 1 < TickRange
    BY <2>1, <1>2, TimerSizes
  <2> QED BY <2>1, <2>2, <1>1, SinceTick
<1>3. npc = "send" => b + 1 = Until(r.tick, stamp)
  BY <1>2, TimerTypes DEF ClockAt
<1>4. xTimerQueue # << >> => b + 1 = Until(r.tick, Head(xTimerQueue))
  BY <1>2, TimerTypes DEF ClockAt, CommandInv
<1>5. ASSUME timer.list # "none"
      PROVE  /\ Until(r.tick, xLastTime) <= b + 1
             /\ timer.value = xLastTime + Period - ((b + 1) - Until(r.tick, xLastTime)) - Turn
             /\ r.list[Daemon] # "suspended"
             /\ r.list[Daemon] \in Timed => b + 1 + Until(r.wake[Daemon], r.tick) <= Period
  <2>1. npc # "call"
    BY <1>5 DEF CommandInv
  <2>2. Until(r.tick, xLastTime) = Until(q.tick, xLastTime) + 1 /\ Until(q.tick, xLastTime) \in Int
    BY <1>2, <1>5, <2>1, TimerTypes DEF ClockAt
  <2>3. Turn \in Int /\ xLastTime \in Int /\ Period \in Int
    BY TimerSizes, TimerTypes DEF Turn, Ticks
  <2>4. b - Until(q.tick, xLastTime) = (b + 1) - Until(r.tick, xLastTime)
    BY <2>2
  <2>5. r.list[Daemon] # "suspended"
    BY <1>5, TimerSizes DEF Ticked, Left, ClockAt, Timed
  <2>6. ASSUME r.list[Daemon] \in Timed
        PROVE  b + 1 + Until(r.wake[Daemon], r.tick) <= Period
    <3>1. q.list[Daemon] \in Timed /\ r.wake[Daemon] = q.wake[Daemon]
      BY <2>6, TimerSizes DEF Ticked, Left, Timed
    <3>2. q.wake[Daemon] # q.tick
      BY <3>1, <1>1, TimerSizes DEF Sound, Timed, Ticks
    <3>3. Until(q.wake[Daemon], q.tick) = Until(q.wake[Daemon], r.tick) + 1
      BY <1>1, <3>2, UntilTick
    <3>4. b + Until(q.wake[Daemon], q.tick) <= Period
      BY <1>5, <3>1 DEF ClockAt
    <3>5. Until(q.wake[Daemon], r.tick) \in Int
      BY <1>1, UntilRange
    <3> QED BY <3>1, <3>3, <3>4, <3>5, TimerSizes
  <2> QED BY <1>5, <2>2, <2>3, <2>4, <2>5, <2>6 DEF ClockAt
<1> QED BY <1>3, <1>4, <1>5 DEF ClockAt

-----------------------------------------------------------------------------
(* The steps of the timer task. *)

LEMMA FreeDaemon ==
  ASSUME DaemonInv, CanRun(Daemon), dpc \notin {"resume", "resumeExpired"}
  PROVE  /\ suspender = NoTask /\ xPendedTicks = 0 /\ k.list[Daemon] = "ready"
         /\ owed - xPendedTicks = owed /\ ClockAt(k, owed)
<1>1. suspender = NoTask
  BY DEF DaemonInv, PlaceInv
<1>2. xPendedTicks = 0 /\ k.list[Daemon] = "ready"
  BY <1>1, TimerSizes DEF DaemonInv, PlaceInv, CanRun
<1>3. owed - xPendedTicks = owed
  BY <1>2, TimerTypes DEF DaemonInv
<1> QED BY <1>1, <1>2, <1>3 DEF DaemonInv

LEMMA FreeNetconf ==
  ASSUME DaemonInv, CanRun(Netconf)
  PROVE  /\ suspender = NoTask /\ xPendedTicks = 0
         /\ owed - xPendedTicks = owed /\ ClockAt(k, owed)
<1>1. suspender = NoTask
  BY TimerSizes DEF DaemonInv, PlaceInv, CanRun
<1>2. xPendedTicks = 0
  BY <1>1 DEF DaemonInv, PlaceInv
<1>3. owed - xPendedTicks = owed
  BY <1>2, TimerTypes DEF DaemonInv
<1> QED BY <1>1, <1>2, <1>3 DEF DaemonInv

\* The expiry against the tick count: prvSampleTimeNow sees a wrap just if
\* there was one since it last looked.
LEMMA ExpiryIs ==
  ASSUME TimerTypeOK, CommandInv, xPendedTicks = 0, ClockAt(k, owed), timer.list # "none"
  PROVE  /\ owed \in Nat
         /\ k.tick >= xLastTime => timer.value = k.tick + ((Period - owed) - Turn)
         /\ k.tick < xLastTime => timer.value = k.tick + ((Period - owed) - Turn) + TickRange
<1>1. Until(k.tick, xLastTime) = IF xLastTime <= k.tick THEN k.tick - xLastTime
                                 ELSE k.tick - xLastTime + TickRange
  BY UntilIs, TimerTypes
<1>2. timer.value = xLastTime + Period - (owed - Until(k.tick, xLastTime)) - Turn
  BY DEF ClockAt
<1>3. owed \in Nat
  BY TimerTypes DEF CommandInv
<1>4. Turn \in Int
  BY TimerSizes DEF Turn
<1>5. xLastTime \in Int /\ k.tick \in Int /\ Period \in Int /\ TickRange \in Int
  BY TimerSizes, TimerTypes DEF Ticks
<1> QED BY <1>1, <1>2, <1>3, <1>4, <1>5

LEMMA GetNextStep ==
  ASSUME DaemonInv, GetNextExpireTime
  PROVE  DaemonInv'
<1>0. UNCHANGED <<kernelVars, timer, xLastTime, xTimeNow, xTimerQueue, npc, stamp, owed>>
      /\ dpc = "next" /\ dpc' = "block"
      /\ xListWasEmpty' = (timer.list # "current")
      /\ xNextExpireTime' = IF timer.list = "current" THEN timer.value ELSE 0
  BY DEF GetNextExpireTime
<1>1. TimerTypeOK'
  BY <1>0, TimerTypes, Sizes DEF DaemonInv, TimerTypeOK, KernelTypeOK, kernelVars, Ticks
<1>2. PlaceInv'
  <2>1. k.list[Daemon] = "ready"
    BY <1>0, FreeDaemon DEF GetNextExpireTime
  <2> QED BY <1>0, <2>1 DEF DaemonInv, PlaceInv, kernelVars
<1>3. CommandInv' /\ ClockAt(k, owed - xPendedTicks)' /\ Sound(k)'
  BY <1>0 DEF DaemonInv, CommandInv, ClockAt, Turn, Until, Sound, kernelVars
<1> QED BY <1>1, <1>2, <1>3 DEF DaemonInv

LEMMA ReceiveStep ==
  ASSUME DaemonInv, ReceiveCommand
  PROVE  DaemonInv'
<1>0. UNCHANGED <<kernelVars, timer, xLastTime, xNextExpireTime, xListWasEmpty,
                  xTimeNow, xTimerQueue, npc, stamp, owed>>
      /\ dpc = "receive" /\ dpc' = IF xTimerQueue = << >> THEN "next" ELSE "start"
  BY DEF ReceiveCommand
<1>1. TimerTypeOK'
  BY <1>0 DEF DaemonInv, TimerTypeOK, KernelTypeOK, kernelVars
<1>2. PlaceInv'
  <2>1. k.list[Daemon] = "ready"
    BY <1>0, FreeDaemon DEF ReceiveCommand
  <2> QED BY <1>0, <2>1 DEF DaemonInv, PlaceInv, kernelVars
<1>3. CommandInv' /\ ClockAt(k, owed - xPendedTicks)' /\ Sound(k)'
  BY <1>0 DEF DaemonInv, CommandInv, ClockAt, Turn, Until, Sound, kernelVars
<1> QED BY <1>1, <1>2, <1>3 DEF DaemonInv

\* The timer after an insertion at the sampled time, with x ticks to go.
LEMMA Armed ==
  ASSUME NEW at \in Ticks, NEW x \in 1 .. Period, xLastTime' = at, TimerTypeOK, xPendedTicks = 0,
         timer' = Inserted(Plus(at, x), at), UNCHANGED kernelVars, k.list[Daemon] = "ready",
         owed' \in Int, owed' - Until(k.tick, at) = Period - x,
         npc' # "send", xTimerQueue' = << >>
  PROVE  ClockAt(k, owed - xPendedTicks)' /\ timer'.list # "none" /\ owed' >= 0
         /\ timer' \in [list : {"none", "current", "overflow"}, value : Ticks]
<1>1. /\ Plus(at, x) \in Ticks
      /\ timer'.value = Plus(at, x)
      /\ timer'.list = (IF at + x < TickRange THEN "current" ELSE "overflow")
      /\ Plus(at, x) = IF at + x < TickRange THEN at + x ELSE at + x - TickRange
  BY InsertedIs
<1>2. timer'.list # "none" /\ Turn' = IF at + x < TickRange THEN 0 ELSE TickRange
  BY <1>1 DEF Turn
<1>3. Until(k.tick, at) \in Int /\ Until(k.tick, at) >= 0
  BY TimerTypes, UntilRange DEF Ticks
<1>4. k' = k /\ xPendedTicks' = 0 /\ owed' - xPendedTicks' = owed'
  <2>1. k' = k /\ xPendedTicks' = xPendedTicks
    BY DEF kernelVars
  <2>2. xPendedTicks' = 0
    BY <2>1
  <2>3. \A a \in Int : a - 0 = a
    OBVIOUS
  <2>4. owed' - 0 = owed'
    BY <2>3
  <2> QED BY <2>1, <2>2, <2>4
<1>5. x \in Int /\ x <= Period /\ at \in Int /\ Period \in Int /\ TickRange \in Int
  BY TimerSizes DEF Ticks
<1>6. Until(k.tick, at) <= owed' /\ owed' >= 0
  BY <1>3, <1>5
<1>7. timer'.value = at + Period - (owed' - Until(k.tick, at)) - Turn'
  BY <1>1, <1>2, <1>5
<1>8. k'.list[Daemon] \notin Timed /\ k'.list[Daemon] # "suspended"
  BY <1>4 DEF Timed
<1>9. ClockAt(k, owed - xPendedTicks)'
  BY <1>4, <1>6, <1>7, <1>8 DEF ClockAt
<1>10. timer' \in [list : {"none", "current", "overflow"}, value : Ticks]
  BY <1>1 DEF Inserted
<1> QED BY <1>2, <1>6, <1>9, <1>10

LEMMA ExpiredStep ==
  ASSUME DaemonInv, ProcessExpiredTimer
  PROVE  DaemonInv'
<1>0. UNCHANGED <<kernelVars, xLastTime, xNextExpireTime, xListWasEmpty, xTimeNow,
                  xTimerQueue, npc, stamp>>
      /\ dpc = "expired" /\ dpc' = "receive"
      /\ timer' = Reloaded(xNextExpireTime, xTimeNow)
      /\ owed' = owed - (Missed(xNextExpireTime, xTimeNow) + 1) * Period
  BY DEF ProcessExpiredTimer, Callbacks
<1>1. xPendedTicks = 0 /\ k.list[Daemon] = "ready" /\ suspender = NoTask /\ ClockAt(k, owed)
  BY <1>0, FreeDaemon DEF ProcessExpiredTimer
<1>2. /\ timer.list = "current" /\ xNextExpireTime = timer.value
      /\ xNextExpireTime <= xTimeNow /\ xTimeNow = xLastTime
  BY <1>0 DEF DaemonInv, PlaceInv
<1>3. TimerTypeOK /\ CommandInv
  BY DEF DaemonInv
<1> DEFINE m == Missed(xNextExpireTime, xTimeNow)
           d == Until(xTimeNow, xNextExpireTime)
           p == m * Period
           x == Period - (d - p)
<1>4. m \in Nat /\ d - p \in 0 .. Period - 1
      /\ Plus(xNextExpireTime, (m + 1) * Period) = Plus(xTimeNow, x)
  BY <1>3, TimerTypes, MissedIs
<1>5. p \in Int /\ (m + 1) * Period = p + Period
  BY <1>4, TimerSizes, SMT
<1>6. d = xTimeNow - xNextExpireTime /\ d \in Int
  BY <1>2, <1>3, TimerTypes, UntilIs, UntilRange
<1>7. timer' = Inserted(Plus(xTimeNow, x), xTimeNow)
  BY <1>0, <1>4 DEF Reloaded
<1>8. owed' = owed - (p + Period)
  BY <1>0, <1>5
<1> HIDE DEF m, p, d
<1>9. x \in 1 .. Period
  BY <1>4, <1>5, <1>6, TimerSizes
<1>10. owed' \in Int /\ owed' - Until(k.tick, xTimeNow) = Period - x
  <2>1. timer.value = xLastTime + Period - (owed - Until(k.tick, xLastTime)) - 0
    BY <1>1, <1>2 DEF ClockAt, Turn
  <2>2. Until(k.tick, xLastTime) \in Int /\ owed \in Int /\ xLastTime \in Int /\ timer.value \in Int
    BY <1>3, TimerTypes, UntilRange DEF Ticks
  <2> QED BY <2>1, <2>2, <1>2, <1>5, <1>6, <1>8, TimerSizes
<1>11. npc = "done" /\ xTimerQueue = << >>
  BY <1>2, <1>3 DEF CommandInv, TimerTypeOK
<1>12. /\ ClockAt(k, owed - xPendedTicks)' /\ timer'.list # "none" /\ owed' >= 0
       /\ timer' \in [list : {"none", "current", "overflow"}, value : Ticks]
  <2> HIDE DEF x
  <2>1. xTimeNow \in Ticks /\ xLastTime' = xTimeNow
    BY <1>0, <1>2, <1>3, TimerTypes
  <2> QED BY <1>0, <1>1, <1>3, <1>7, <1>9, <1>10, <1>11, <2>1, Armed
<1>13. owed' \in -Period .. Period + MaxLate
  <2>1. p >= 0
    BY <1>4, TimerSizes, SMT DEF p
  <2> QED BY <2>1, <1>3, <1>5, <1>8, <1>10, <1>12, TimerTypes, TimerSizes
<1>14. TimerTypeOK'
  BY <1>0, <1>3, <1>12, <1>13 DEF TimerTypeOK, KernelTypeOK, kernelVars, Ticks
<1>15. PlaceInv'
  BY <1>0, <1>1 DEF DaemonInv, PlaceInv, kernelVars
<1>16. CommandInv'
  BY <1>0, <1>1, <1>11, <1>12 DEF CommandInv, kernelVars
<1> QED BY <1>0, <1>12, <1>14, <1>15, <1>16 DEF DaemonInv, Sound, kernelVars

LEMMA StartStep ==
  ASSUME DaemonInv, StartTimer
  PROVE  DaemonInv'
<1> DEFINE asked == Head(xTimerQueue)
           first == Plus(asked, Period)
           now == k.tick
<1>0. UNCHANGED <<kernelVars, xNextExpireTime, xListWasEmpty, xTimeNow, npc, stamp>>
      /\ dpc = "start" /\ dpc' = "receive" /\ xTimerQueue' = Tail(xTimerQueue)
      /\ xLastTime' = now
      /\ IF ExpiresNow(first, now, asked)
         THEN timer' = Reloaded(first, now) /\ owed' = owed - (Missed(first, now) + 1) * Period
         ELSE timer' = Inserted(first, now) /\ owed' = owed - 0 * Period
  BY DEF StartTimer, Callbacks
<1>1. xPendedTicks = 0 /\ k.list[Daemon] = "ready" /\ suspender = NoTask /\ ClockAt(k, owed)
  BY <1>0, FreeDaemon DEF StartTimer
<1>2. TimerTypeOK /\ CommandInv
  BY DEF DaemonInv
<1>3. xTimerQueue # << >> /\ asked \in Ticks /\ xTimerQueue' = << >> /\ now \in Ticks
      /\ npc = "done" /\ timer.list = "none"
  <2>1. xTimerQueue # << >>
    BY <1>0, <1>2 DEF CommandInv
  <2>2. npc = "done"
    BY <2>1, <1>2 DEF CommandInv
  <2> QED BY <2>1, <2>2, <1>0, <1>2, TimerTypes DEF CommandInv
<1>4. owed = Until(now, asked) /\ owed \in Nat /\ owed < TickRange /\ owed <= Period + MaxLate
  BY <1>1, <1>2, <1>3, TimerTypes DEF ClockAt, CommandInv
<1>5. ExpiresNow(first, now, asked) <=> owed >= Period
  BY <1>3, <1>4, ExpiresIs
<1> HIDE DEF asked, now
<1>6. \E x \in 1 .. Period : /\ timer' = Inserted(Plus(now, x), now)
                             /\ owed' \in Int /\ owed' - Until(k.tick, now) = Period - x
                             /\ owed' <= owed
  <2>0. Until(k.tick, now) = 0
    <3>1. Until(now, now) = now - now
      BY <1>3, UntilIs, SMT DEF Ticks
    <3> QED BY <3>1, <1>3 DEF now, Ticks
  <2>1. Period \in 0 .. 2 * TickRange - 1 /\ Period \in Nat
    BY TimerSizes
  <2>a. owed = IF asked <= now THEN now - asked ELSE now - asked + TickRange
    BY <1>3, <1>4, UntilIs
  <2>2. first \in Ticks /\ first = IF asked + Period < TickRange THEN asked + Period
                                   ELSE asked + Period - TickRange
    BY <2>1, <1>3, PlusIs, TimerSizes, SMT DEF Ticks
  <2>3. CASE owed >= Period
    <3> DEFINE m == Missed(first, now)
               d == Until(now, first)
               p == m * Period
               x == Period - (d - p)
    <3>1. m \in Nat /\ d - p \in 0 .. Period - 1 /\ Plus(first, (m + 1) * Period) = Plus(now, x)
      BY <1>3, <2>2, MissedIs
    <3>2. p \in Nat /\ (m + 1) * Period = p + Period
      BY <3>1, TimerSizes, SMT
    <3>3. timer' = Inserted(Plus(now, x), now) /\ owed' = owed - (p + Period)
      BY <1>0, <1>5, <2>3, <3>1, <3>2 DEF Reloaded
    <3>4. d = IF first <= now THEN now - first ELSE now - first + TickRange
      BY <1>3, <2>2, UntilIs
    <3> HIDE DEF m, p, d, first
    <3>5. d = owed - Period
      BY <2>a, <2>2, <2>3, <3>4, <1>3, <1>4, TimerSizes, SMT DEF Ticks
    <3>6. x \in 1 .. Period /\ owed' \in Int /\ owed' - 0 = Period - x /\ owed' <= owed
      BY <3>1, <3>2, <3>3, <3>5, <1>4, TimerSizes
    <3> QED BY <3>3, <3>6, <2>0
  <2>4. CASE ~(owed >= Period)
    <3> DEFINE x == Period - owed
    <3>1. timer' = Inserted(first, now) /\ owed' = owed
      <4>1. timer' = Inserted(first, now) /\ owed' = owed - 0 * Period
        BY <1>0, <1>5, <2>4
      <4> QED BY <4>1, <1>4, TimerSizes
    <3>2. x \in 1 .. Period /\ x \in 0 .. 2 * TickRange - 1
      BY <1>4, <2>4, TimerSizes
    <3>3. first = Plus(now, x)
      <4>1. Plus(now, x) = IF now + x < TickRange THEN now + x
                           ELSE IF now + x < 2 * TickRange THEN now + x - TickRange
                           ELSE now + x - 2 * TickRange
        BY <1>3, <3>2, PlusIs
      <4> HIDE DEF first
      <4> QED BY <4>1, <2>a, <2>2, <2>4, <1>3, <1>4, TimerSizes, SMT DEF Ticks
    <3>4. owed' - 0 = Period - x /\ owed' \in Int /\ owed' <= owed
      BY <3>1, <1>4, TimerSizes
    <3> HIDE DEF x
    <3> QED BY <3>1, <3>2, <3>3, <3>4, <2>0
  <2> QED BY <2>3, <2>4
<1>7. PICK x \in 1 .. Period : /\ timer' = Inserted(Plus(now, x), now)
                               /\ owed' \in Int /\ owed' - Until(k.tick, now) = Period - x
                               /\ owed' <= owed
  BY <1>6
<1>8. /\ ClockAt(k, owed - xPendedTicks)' /\ timer'.list # "none" /\ owed' >= 0
      /\ timer' \in [list : {"none", "current", "overflow"}, value : Ticks]
  <2>1. npc' # "send"
    BY <1>0, <1>3
  <2> QED BY <2>1, <1>0, <1>1, <1>2, <1>3, <1>7, Armed
<1>9. owed' \in -Period .. Period + MaxLate
  BY <1>4, <1>7, <1>8, TimerSizes
<1>10. TimerTypeOK'
  BY <1>0, <1>2, <1>3, <1>8, <1>9 DEF TimerTypeOK, KernelTypeOK, kernelVars, Ticks
<1>11. PlaceInv'
  BY <1>0, <1>1 DEF DaemonInv, PlaceInv, kernelVars
<1>12. CommandInv'
  BY <1>0, <1>1, <1>3, <1>8 DEF CommandInv, kernelVars
<1> QED BY <1>0, <1>8, <1>10, <1>11, <1>12 DEF DaemonInv, Sound, kernelVars

\* prvSwitchTimerLists after a wrap: the timer is in the turn that has begun.
LEMMA SwitchedIs ==
  ASSUME TimerTypeOK, CommandInv, xPendedTicks = 0, ClockAt(k, owed), k.tick < xLastTime,
         SwitchTimerLists
  PROVE  /\ timer' \in [list : {"none", "current", "overflow"}, value : Ticks]
         /\ timer'.list = "none" <=> timer.list = "none"
         /\ timer'.list # "overflow"
         /\ owed' \in Int /\ owed' <= owed
         /\ owed >= 0 => owed' >= 0
         /\ timer'.list = "current" => timer'.value = k.tick + (Period - owed')
<1>0. owed \in Int /\ \A a \in Int : a - 0 * Period = a
  BY TimerTypes, TimerSizes
<1>1. CASE timer.list = "current"
  <2> DEFINE now == TickRange - 1
             m == Missed(timer.value, now)
             d == Until(now, timer.value)
             p == m * Period
             x == Period - (d - p)
  <2>1. now \in Ticks /\ timer.value \in Ticks
    BY TimerTypes, Sizes DEF Ticks
  <2>2. m \in Nat /\ d - p \in 0 .. Period - 1 /\ Plus(timer.value, (m + 1) * Period) = Plus(now, x)
    BY <2>1, MissedIs
  <2>3. p \in Nat /\ (m + 1) * Period = p + Period
    BY <2>2, TimerSizes, SMT
  <2>4. timer' = [Inserted(Plus(now, x), now) EXCEPT !.list = "current"]
        /\ owed' = owed - (p + Period)
    BY <1>1, <2>2, <2>3 DEF SwitchTimerLists, Reloaded, Callbacks
  <2>5. d = (TickRange - 1) - timer.value
    <3>1. d = IF timer.value <= now THEN now - timer.value ELSE now - timer.value + TickRange
      BY <2>1, UntilIs
    <3> QED BY <3>1, <2>1, Sizes, SMT DEF Ticks
  <2>6. owed \in Nat /\ timer.value = k.tick + ((Period - owed) - 0) + TickRange
    BY <1>1, ExpiryIs DEF Turn
  <2> HIDE DEF m, p, d
  <2>7. x \in 1 .. Period
    BY <2>2, <2>3, <2>5, <2>1, TimerSizes, SMT DEF Ticks
  <2>8. Plus(now, x) \in Ticks /\ Plus(now, x) = x - 1
    <3>1. /\ Plus(now, x) \in Ticks
          /\ Plus(now, x) = IF now + x < TickRange THEN now + x ELSE now + x - TickRange
      BY <2>1, <2>7, InsertedIs
    <3> QED BY <3>1, <2>7, TimerSizes
  <2>9. timer' = [list |-> "current", value |-> x - 1] /\ x - 1 \in Ticks
    <3> HIDE DEF x
    <3> QED BY <2>4, <2>8 DEF Inserted
  <2>10. k.tick \in Int /\ k.tick >= 0 /\ timer.value \in Int /\ Period \in Int /\ TickRange \in Int
    BY TimerTypes, TimerSizes DEF Ticks
  <2>11. owed' \in Int /\ owed' <= owed /\ owed' >= 0 /\ x - 1 = k.tick + (Period - owed')
    BY <2>2, <2>3, <2>4, <2>5, <2>6, <2>7, <2>10
  <2> HIDE DEF x
  <2> QED BY <1>1, <2>9, <2>11
<1>2. CASE timer.list = "overflow"
  <2>1. timer' = [timer EXCEPT !.list = "current"] /\ owed' = owed
    BY <1>0, <1>2 DEF SwitchTimerLists, Callbacks
  <2>2. timer'.list = "current" /\ timer'.value = timer.value
        /\ timer' = [list |-> "current", value |-> timer.value]
    BY <2>1, TimerTypes
  <2>3. owed \in Nat /\ timer.value = k.tick + ((Period - owed) - TickRange) + TickRange
    BY <1>2, ExpiryIs DEF Turn
  <2>4. timer.value = k.tick + (Period - owed)
    <3>1. k.tick \in Int /\ Period \in Int /\ TickRange \in Int
      BY TimerTypes, TimerSizes DEF Ticks
    <3> QED BY <3>1, <2>3
  <2> QED BY <1>2, <2>1, <2>2, <2>3, <2>4, TimerTypes
<1>3. CASE timer.list = "none"
  <2>1. timer' = [timer EXCEPT !.list = "none"] /\ owed' = owed
    BY <1>0, <1>3 DEF SwitchTimerLists, Callbacks
  <2>2. timer' = timer
    BY <2>1, <1>3, TimerTypes
  <2>3. timer \in [list : {"none", "current", "overflow"}, value : Ticks]
    BY DEF TimerTypeOK, Ticks
  <2> QED BY <1>0, <1>3, <2>1, <2>2, <2>3
<1> QED BY <1>1, <1>2, <1>3, TimerTypes

\* The timer task blocks until the expiry, until the wrap that comes before it,
\* or for ever if there is no timer.
LEMMA WaitIs ==
  ASSUME DaemonInv, suspender = NoTask, xPendedTicks = 0, ClockAt(k, owed), dpc = "block",
         k.list[Daemon] = "ready", k.tick >= xLastTime, xListWasEmpty \/ xNextExpireTime > k.tick,
         WaitForMessage(Plus(xNextExpireTime, TickRange - k.tick),
                        xListWasEmpty /\ timer.list # "overflow")
  PROVE  /\ k' \in KernelType /\ Sound(k') /\ k'.tick = k.tick
         /\ timer.list # "none" =>
              /\ k'.list[Daemon] # "suspended"
              /\ k'.list[Daemon] \in Timed => owed + Until(k'.wake[Daemon], k'.tick) <= Period
<1> DEFINE v == [k.ev EXCEPT !["receive"] = Append(@, Daemon)]
           q == [k EXCEPT !.ev = v]
           ticks == Plus(xNextExpireTime, TickRange - k.tick)
           forever == xListWasEmpty /\ timer.list # "overflow"
<1>t. TimerTypeOK /\ CommandInv /\ k \in KernelType /\ Sound(k)
  BY TimerTypes DEF DaemonInv
<1>1. CASE k' = k
  BY <1>1, <1>t, TimerTypes DEF Timed
<1>2. CASE k' = AddCurrentTaskToDelayedList(
             [k EXCEPT !.ev["receive"] = Append(@, Daemon)], Daemon, ticks, forever)
  <2>1. /\ q \in KernelType /\ q.tick = k.tick /\ q.next = k.next
        /\ q.list = k.list /\ q.wake = k.wake
    <3>1. v \in [EventLists -> Seq(Tasks)]
      BY <1>t, Fields, TimerSizes DEF EventLists
    <3> QED BY <1>t, <3>1, SetEv
  <2>2. Sound(q)
    BY <1>t, <2>1 DEF Sound
  <2>3. [k EXCEPT !.ev["receive"] = Append(@, Daemon)] = q
    BY <1>t DEF KernelType
  <2>4. k' = AddCurrentTaskToDelayedList(q, Daemon, ticks, forever)
    BY <1>2, <2>3
  <2> HIDE DEF q, v
  <2>5. /\ xListWasEmpty = (timer.list # "current")
        /\ xNextExpireTime = IF timer.list = "current" THEN timer.value ELSE 0
    BY DEF DaemonInv, PlaceInv
  <2>6. CASE timer.list = "none"
    <3>1. forever
      BY <2>5, <2>6
    <3>2. AddCurrentTaskToDelayedList(q, Daemon, ticks, forever)
            = AddCurrentTaskToDelayedList(q, Daemon, 1, TRUE)
      BY <3>1 DEF AddCurrentTaskToDelayedList
    <3>3. 1 \in 1 .. portMAX_DELAY
      BY Sizes
    <3>4. LET r == AddCurrentTaskToDelayedList(q, Daemon, 1, TRUE)
          IN r \in KernelType /\ Sound(r) /\ r.tick = q.tick
      BY <2>1, <2>2, <3>3, AddIs, TimerSizes
    <3>5. k' = AddCurrentTaskToDelayedList(q, Daemon, 1, TRUE)
      BY <2>4, <3>2
    <3> QED BY <2>1, <2>6, <3>4, <3>5
  <2>7. CASE timer.list # "none"
    <3>1. ~forever /\ forever \in BOOLEAN
      BY <2>5, <2>7, <1>t, TimerTypes
    <3>2. owed \in Nat /\ timer.value = k.tick + ((Period - owed) - Turn)
      BY <1>t, <2>7, ExpiryIs
    <3>3. k.tick \in Ticks /\ xNextExpireTime \in Ticks /\ timer.value \in Ticks
      BY <1>t, TimerTypes
    <3>p. TickRange - k.tick \in 0 .. 2 * TickRange - 1
      BY <3>3, Sizes, SMT DEF Ticks
    <3>4. ticks = IF xNextExpireTime + (TickRange - k.tick) < TickRange
                  THEN xNextExpireTime + (TickRange - k.tick)
                  ELSE IF xNextExpireTime + (TickRange - k.tick) < 2 * TickRange
                  THEN xNextExpireTime + (TickRange - k.tick) - TickRange
                  ELSE xNextExpireTime + (TickRange - k.tick) - 2 * TickRange
      BY <3>3, <3>p, PlusIs
    <3> HIDE DEF ticks, forever
    <3>5. ticks \in 1 .. portMAX_DELAY /\ owed + ticks <= Period
      <4>1. CASE timer.list = "current"
        <5>1. xNextExpireTime = timer.value /\ timer.value > k.tick
          BY <2>5, <4>1
        <5>2. timer.value = k.tick + ((Period - owed) - 0)
          BY <3>2, <4>1 DEF Turn
        <5> QED BY <5>1, <5>2, <3>2, <3>3, <3>4, Sizes, TimerSizes, SMT DEF Ticks
      <4>2. CASE timer.list = "overflow"
        <5>1. xNextExpireTime = 0
          BY <2>5, <4>2
        <5>2. timer.value = k.tick + ((Period - owed) - TickRange)
          BY <3>2, <4>2 DEF Turn
        <5> QED BY <5>1, <5>2, <3>2, <3>3, <3>4, Sizes, TimerSizes, SMT DEF Ticks
      <4> QED BY <2>7, <4>1, <4>2, <1>t, TimerTypes
    <3>6. LET r == AddCurrentTaskToDelayedList(q, Daemon, ticks, forever)
          IN /\ r \in KernelType /\ Sound(r) /\ r.tick = q.tick
             /\ r.list[Daemon] \in Timed /\ Until(r.wake[Daemon], r.tick) = ticks
      BY <2>1, <2>2, <3>1, <3>5, AddIs, TimerSizes
    <3>7. /\ k' \in KernelType /\ Sound(k') /\ k'.tick = k.tick
          /\ k'.list[Daemon] \in Timed /\ Until(k'.wake[Daemon], k'.tick) = ticks
      BY <2>1, <2>4, <3>6
    <3> QED BY <3>5, <3>7 DEF Timed
  <2> QED BY <2>6, <2>7
<1> QED BY <1>1, <1>2 DEF WaitForMessage

LEMMA BlockStep ==
  ASSUME DaemonInv, ProcessTimerOrBlockTask
  PROVE  DaemonInv'
<1>0. UNCHANGED <<xPendedTicks, pendingReady, age, xNextExpireTime, xListWasEmpty,
                  xTimerQueue, npc, stamp>>
      /\ dpc = "block" /\ suspender' = Daemon /\ xTimeNow' = k.tick /\ xLastTime' = k.tick
  BY DEF ProcessTimerOrBlockTask
<1>1. xPendedTicks = 0 /\ k.list[Daemon] = "ready" /\ suspender = NoTask /\ ClockAt(k, owed)
  BY <1>0, FreeDaemon DEF ProcessTimerOrBlockTask
<1>2. TimerTypeOK /\ CommandInv /\ k \in KernelType /\ Sound(k) /\ PlaceInv /\ k.tick \in Ticks
      /\ owed \in Int /\ owed <= Period + MaxLate
  BY TimerTypes DEF DaemonInv
<1>z. Until(k.tick, k.tick) = 0
  <2>1. Until(k.tick, k.tick) = k.tick - k.tick
    BY <1>2, UntilIs, SMT DEF Ticks
  <2> QED BY <2>1, <1>2 DEF Ticks
<1>c. ASSUME k' \in KernelType, k'.tick = k.tick, owed' \in Int, timer.list = "none" => owed' = owed,
             timer'.list = "none" <=> timer.list = "none",
             timer'.list # "none" =>
               /\ owed' >= 0
               /\ timer'.value = k.tick + ((Period - owed') - Turn')
               /\ k'.list[Daemon] # "suspended"
               /\ k'.list[Daemon] \in Timed => owed' + Until(k'.wake[Daemon], k'.tick) <= Period
      PROVE  ClockAt(k, owed - xPendedTicks)'
  <2>1. xPendedTicks' = 0 /\ owed' - 0 = owed'
    <3>1. \A a \in Int : a - 0 = a
      OBVIOUS
    <3>2. xPendedTicks' = 0
      BY <1>0, <1>1
    <3> QED BY <3>1, <3>2, <1>c
  <2>2. npc' = "send" => owed' = Until(k'.tick, stamp')
    <3>1. npc = "send" => timer.list = "none"
      BY <1>2 DEF CommandInv
    <3> QED BY <3>1, <1>0, <1>1, <1>c DEF ClockAt
  <2>3. xTimerQueue' # << >> => owed' = Until(k'.tick, Head(xTimerQueue'))
    <3>1. xTimerQueue # << >> => timer.list = "none"
      BY <1>2 DEF CommandInv, TimerTypeOK
    <3> QED BY <3>1, <1>0, <1>1, <1>c DEF ClockAt
  <2>4. ASSUME timer'.list # "none"
        PROVE  /\ Until(k'.tick, xLastTime') <= owed'
               /\ timer'.value = xLastTime' + Period - (owed' - Until(k'.tick, xLastTime')) - Turn'
               /\ k'.list[Daemon] # "suspended"
               /\ k'.list[Daemon] \in Timed => owed' + Until(k'.wake[Daemon], k'.tick) <= Period
    <3>1. Until(k'.tick, xLastTime') = 0
      BY <1>0, <1>c, <1>z
    <3>2. k.tick \in Int /\ Period \in Int /\ Turn' \in Int
      BY <1>2, TimerSizes DEF Ticks, Turn
    <3>3. k.tick + Period - (owed' - 0) - Turn' = k.tick + ((Period - owed') - Turn')
      BY <2>1
    <3> QED BY <3>1, <3>3, <2>4, <1>0, <1>c
  <2> QED BY <2>1, <2>2, <2>3, <2>4 DEF ClockAt
<1>g. ASSUME owed' \in Int, owed' <= owed, owed >= 0 => owed' >= 0,
             timer.list = "none" => owed' = owed,
             timer'.list = "none" <=> timer.list = "none", dpc' \in {"resume", "resumeExpired"}
      PROVE  CommandInv' /\ owed' \in -Period .. Period + MaxLate
  <2>1. owed >= 0 /\ npc = "call" => timer.list = "none"
    BY <1>1, <1>2 DEF CommandInv
  <2>2. owed' >= 0
    BY <2>1, <1>1, <1>2, <1>g DEF CommandInv
  <2>3. CommandInv'
    BY <2>1, <2>2, <1>0, <1>1, <1>2, <1>g DEF CommandInv
  <2> QED BY <2>2, <2>3, <1>2, <1>g, TimerSizes
<1>3. CASE k.tick < xLastTime /\ SwitchTimerLists /\ dpc' = "resume" /\ UNCHANGED k
  <2>1. /\ timer' \in [list : {"none", "current", "overflow"}, value : Ticks]
        /\ timer'.list = "none" <=> timer.list = "none"
        /\ timer'.list # "overflow"
        /\ owed' \in Int /\ owed' <= owed
        /\ owed >= 0 => owed' >= 0
        /\ timer'.list = "current" => timer'.value = k.tick + (Period - owed')
    BY <1>1, <1>2, <1>3, SwitchedIs
  <2>2. timer.list = "none" => owed' = owed
    <3>1. owed - 0 * Period = owed
      BY <1>2, TimerSizes
    <3> QED BY <3>1, <1>3 DEF SwitchTimerLists, Callbacks
  <2>3. CommandInv' /\ owed' \in -Period .. Period + MaxLate
    BY <1>3, <2>1, <2>2, <1>g
  <2>4. ASSUME timer'.list # "none"
        PROVE  /\ owed' >= 0
               /\ timer'.value = k.tick + ((Period - owed') - Turn')
               /\ k'.list[Daemon] # "suspended"
               /\ k'.list[Daemon] \notin Timed
    <3>1. timer'.list = "current" /\ Turn' = 0
      BY <2>1, <2>4 DEF Turn
    <3>2. (Period - owed') - 0 = Period - owed'
      BY <2>1, TimerSizes
    <3>3. owed' >= 0
      BY <2>3, <2>4, <2>1, <1>0, <1>1, <1>2 DEF CommandInv
    <3> QED BY <3>1, <3>2, <3>3, <2>1, <1>1, <1>3 DEF Timed
  <2>5. ClockAt(k, owed - xPendedTicks)'
    BY <1>c, <2>1, <2>2, <2>4, <1>2, <1>3
  <2>6. TimerTypeOK'
    BY <1>0, <1>2, <1>3, <2>1, <2>3, TimerSizes DEF TimerTypeOK, KernelTypeOK, Ticks
  <2>7. PlaceInv'
    BY <1>0, <1>1, <1>2, <1>3 DEF PlaceInv
  <2> QED BY <2>3, <2>5, <2>6, <2>7, <1>2, <1>3 DEF DaemonInv, Sound
<1>4. CASE /\ k.tick >= xLastTime /\ ~xListWasEmpty /\ xNextExpireTime <= k.tick
           /\ dpc' = "resumeExpired" /\ UNCHANGED <<k, timer, owed>>
  <2>1. CommandInv'
    BY <1>2, <1>4, <1>g
  <2>2. ASSUME timer'.list # "none"
        PROVE  owed' >= 0 /\ timer'.value = k.tick + ((Period - owed') - Turn')
    <3>1. Turn' = Turn
      BY <1>4 DEF Turn
    <3> QED BY <3>1, <2>2, <1>1, <1>2, <1>4, ExpiryIs
  <2>3. ClockAt(k, owed - xPendedTicks)'
    BY <1>c, <2>2, <1>1, <1>2, <1>4 DEF Timed
  <2>4. TimerTypeOK'
    BY <1>0, <1>2, <1>4, TimerSizes DEF TimerTypeOK, KernelTypeOK, Ticks
  <2>5. PlaceInv'
    BY <1>0, <1>1, <1>2, <1>4 DEF PlaceInv
  <2> QED BY <2>1, <2>3, <2>4, <2>5, <1>2, <1>4 DEF DaemonInv, Sound
<1>5. CASE /\ k.tick >= xLastTime
           /\ xListWasEmpty \/ xNextExpireTime > k.tick
           /\ WaitForMessage(Plus(xNextExpireTime, TickRange - k.tick),
                             xListWasEmpty /\ timer.list # "overflow")
           /\ dpc' = "resume" /\ UNCHANGED <<timer, owed>>
  <2>1. CommandInv'
    BY <1>2, <1>5, <1>g
  <2>2. /\ k' \in KernelType /\ Sound(k') /\ k'.tick = k.tick
        /\ timer.list # "none" =>
             /\ k'.list[Daemon] # "suspended"
             /\ k'.list[Daemon] \in Timed => owed + Until(k'.wake[Daemon], k'.tick) <= Period
    BY <1>0, <1>1, <1>5, WaitIs
  <2>3. ASSUME timer'.list # "none"
        PROVE  owed' >= 0 /\ timer'.value = k.tick + ((Period - owed') - Turn')
    <3>1. Turn' = Turn
      BY <1>5 DEF Turn
    <3> QED BY <3>1, <2>3, <1>1, <1>2, <1>5, ExpiryIs
  <2>4. ClockAt(k, owed - xPendedTicks)'
    BY <1>c, <2>2, <2>3, <1>2, <1>5
  <2>5. TimerTypeOK'
    BY <1>0, <1>2, <1>5, <2>2, TimerSizes DEF TimerTypeOK, KernelTypeOK, Ticks
  <2>6. PlaceInv'
    BY <1>0, <1>1, <1>2, <1>5 DEF PlaceInv
  <2> QED BY <2>1, <2>2, <2>4, <2>5, <2>6 DEF DaemonInv, Sound
<1> QED BY <1>3, <1>4, <1>5 DEF ProcessTimerOrBlockTask

\* Nobody times a call here.
LEMMA NoAge ==
  ASSUME PlaceInv
  PROVE  \A n : Aged(n) = [t \in Tasks |-> -1]
BY DEF PlaceInv, Aged

LEMMA WakeAll ==
  ASSUME DaemonInv, DaemonResume
  PROVE  /\ k' \in KernelType /\ Sound(k') /\ ClockAt(k', owed)
         /\ k.list[Daemon] = "ready" => k'.list[Daemon] = "ready"
<1>1. TimerTypeOK /\ CommandInv /\ PlaceInv /\ k \in KernelType /\ Sound(k)
      /\ xPendedTicks \in 0 .. MaxPended /\ xPendedTicks \in Nat
      /\ owed \in Int /\ owed < TickRange
      /\ ClockAt(k, owed - xPendedTicks)
  BY TimerTypes DEF DaemonInv
<1>2. k' = CatchUp(k, xPendedTicks)
  BY <1>1 DEF DaemonResume, ResumeAll, PlaceInv
<1> DEFINE b == owed - xPendedTicks
           Kept(i, r) == /\ Sound(r)
                         /\ k.list[Daemon] = "ready" => r.list[Daemon] = "ready"
                         /\ i <= xPendedTicks => ClockAt(r, b + i)
           P == {x \in Nat \X KernelType : Kept(x[1], x[2])}
<1>3. <<0, k>> \in P
  <2>1. b + 0 = b
    BY <1>1
  <2> QED BY <1>1, <2>1
<1>4. ASSUME NEW i \in 0 .. MaxPended - 1, NEW r, <<i, r>> \in P
      PROVE  <<i + 1, IncrementTick(r)>> \in P
  <2>1. r \in KernelType /\ Kept(i, r) /\ i \in Nat /\ i + 1 \in Nat
    BY <1>4, Sizes
  <2>2. Ticked(r, IncrementTick(r))
    BY <2>1, IncrementIs
  <2>3. k.list[Daemon] = "ready" => IncrementTick(r).list[Daemon] = "ready"
    BY <2>1, <2>2, TimerSizes DEF Ticked, Left, Timed
  <2>4. ASSUME i + 1 <= xPendedTicks PROVE ClockAt(IncrementTick(r), b + (i + 1))
    <3>1. i <= xPendedTicks /\ b + i \in Int /\ (b + i) + 1 < TickRange /\ (b + i) + 1 = b + (i + 1)
      BY <2>1, <2>4, <1>1, TimerSizes
    <3> HIDE DEF b
    <3>2. ClockAt(IncrementTick(r), (b + i) + 1)
      BY <2>1, <2>2, <3>1, <1>1, ClockTick
    <3> QED BY <3>1, <3>2
  <2>5. IncrementTick(r) \in KernelType /\ Sound(IncrementTick(r))
    BY <2>2 DEF Ticked
  <2> HIDE DEF b
  <2> QED BY <2>1, <2>3, <2>4, <2>5
<1> HIDE DEF P
<1>5. <<xPendedTicks, CatchUp(k, xPendedTicks)>> \in P
  BY <1>1, <1>3, <1>4, CatchUpIn
<1>6. b + xPendedTicks = owed
  BY <1>1
<1> HIDE DEF b
<1> QED BY <1>1, <1>2, <1>5, <1>6 DEF P

\* What was owed then is known as the same now.
LEMMA ClockKept ==
  ASSUME UNCHANGED <<npc, xTimerQueue, stamp, timer, xLastTime>>, NEW b, ClockAt(k', b)
  PROVE  ClockAt(k, b)'
BY DEF ClockAt, Turn

LEMMA DaemonResumeStep ==
  ASSUME DaemonInv, DaemonResume
  PROVE  DaemonInv'
<1>0. UNCHANGED <<timer, xLastTime, xNextExpireTime, xListWasEmpty, xTimeNow,
                  xTimerQueue, npc, stamp, owed>>
      /\ suspender = Daemon /\ dpc' = (IF dpc = "resumeExpired" THEN "expired" ELSE "receive")
      /\ age' = Aged(xPendedTicks) /\ xPendedTicks' = 0 /\ suspender' = NoTask
      /\ pendingReady' = {}
  BY DEF DaemonResume, ResumeAll
<1>1. TimerTypeOK /\ CommandInv /\ PlaceInv /\ owed \in Int /\ xPendedTicks \in Nat
  BY TimerTypes DEF DaemonInv
<1>2. /\ k' \in KernelType /\ Sound(k') /\ ClockAt(k', owed)
      /\ k.list[Daemon] = "ready" => k'.list[Daemon] = "ready"
  BY WakeAll
<1>3. dpc \in {"resume", "resumeExpired"}
  BY <1>0, <1>1, TimerSizes DEF PlaceInv
<1>4. age' = [t \in Tasks |-> -1] /\ age' = age
  BY <1>0, <1>1, NoAge DEF PlaceInv
<1>5. TimerTypeOK'
  BY <1>0, <1>1, <1>2, <1>4, Sizes DEF TimerTypeOK, KernelTypeOK
<1>6. PlaceInv'
  BY <1>0, <1>1, <1>2, <1>3, <1>4 DEF PlaceInv
<1>7. CommandInv'
  <2>1. npc # "call" => owed >= 0
    BY <1>1 DEF CommandInv
  <2> QED BY <2>1, <1>0, <1>1 DEF CommandInv
<1>8. ClockAt(k, owed - xPendedTicks)'
  <2>1. owed - 0 = owed /\ owed' = owed
    BY <1>0, <1>1
  <2>2. owed' - xPendedTicks' = owed
    BY <2>1, <1>0
  <2>3. ClockAt(k', owed' - xPendedTicks')
    BY <2>2, <1>2
  <2> QED BY <1>0, <2>3, ClockKept DEF ClockAt, Turn
<1> QED BY <1>2, <1>5, <1>6, <1>7, <1>8 DEF DaemonInv, Sound

-----------------------------------------------------------------------------
(* The steps of netconf and of the tick. *)

LEMMA CallStartStep ==
  ASSUME DaemonInv, TimerStart
  PROVE  DaemonInv'
<1>0. UNCHANGED <<kernelVars, daemonVars, xTimerQueue, owed>>
      /\ npc = "call" /\ npc' = "send" /\ stamp' = k.tick
  BY DEF TimerStart
<1>1. TimerTypeOK /\ CommandInv /\ PlaceInv /\ owed \in Int /\ k.tick \in Ticks
  BY TimerTypes DEF DaemonInv
<1>2. xPendedTicks = 0 /\ owed = 0
  BY <1>0, <1>1, FreeNetconf DEF CommandInv, TimerStart
<1>3. TimerTypeOK'
  BY <1>0, <1>1 DEF TimerTypeOK, KernelTypeOK, kernelVars, daemonVars, Ticks
<1>4. PlaceInv' /\ CommandInv' /\ Sound(k)'
  BY <1>0, <1>1, <1>2 DEF DaemonInv, PlaceInv, CommandInv, Sound, kernelVars, daemonVars
<1>5. ClockAt(k, owed - xPendedTicks)'
  <2>1. Until(k.tick, k.tick) = 0
    <3>1. Until(k.tick, k.tick) = k.tick - k.tick
      BY <1>1, UntilIs, SMT DEF Ticks
    <3> QED BY <3>1, <1>1 DEF Ticks
  <2>2. owed' - xPendedTicks' = 0 /\ k' = k
    BY <1>0, <1>2 DEF kernelVars
  <2>3. xTimerQueue' = << >> /\ timer'.list = "none"
    BY <1>0, <1>1 DEF CommandInv, daemonVars
  <2> QED BY <2>1, <2>2, <2>3, <1>0 DEF ClockAt
<1> QED BY <1>3, <1>4, <1>5 DEF DaemonInv

\* The command wakes the timer task if it waits for one.
LEMMA WakeOne ==
  ASSUME k \in KernelType, Sound(k), suspender = NoTask, RemoveFromEventList("receive", 1)
  PROVE  /\ k' \in KernelType /\ Sound(k') /\ k'.tick = k.tick /\ pendingReady' = pendingReady
         /\ k.list[Daemon] = "ready" => k'.list[Daemon] = "ready"
<1> DEFINE s == k.ev["receive"]
           m == IF 1 < Len(s) THEN 1 ELSE Len(s)
           W == Woken("receive", 1)
           r == SubSeq(s, Cardinality(W) + 1, Len(s))
           v == [k.ev EXCEPT !["receive"] = r]
           q == [k EXCEPT !.ev = v]
<1>1. s \in Seq(Tasks) /\ k.ev \in [EventLists -> Seq(Tasks)]
  BY Fields DEF EventLists
<1>2. W = {s[i] : i \in 1 .. m} /\ m \in {0, 1} /\ m <= Len(s)
  <2>1. Len(s) \in Nat
    BY <1>1
  <2>2. W = {s[i] : i \in 1 .. m}
    BY DEF Woken
  <2>3. \A n \in Nat : (IF 1 < n THEN 1 ELSE n) \in {0, 1} /\ (IF 1 < n THEN 1 ELSE n) <= n
    OBVIOUS
  <2>4. m \in {0, 1} /\ m <= Len(s)
    <3> HIDE DEF s
    <3> QED BY <2>1, <2>3
  <2> QED BY <2>2, <2>4
<1>3. Cardinality(W) \in {0, 1}
  <2> HIDE DEF m
  <2>1. CASE m = 0
    <3>1. W = {}
      BY <1>2, <2>1
    <3> QED BY <3>1, FS_EmptySet
  <2>2. CASE m = 1
    <3>1. W = {s[1]}
      BY <1>2, <2>2
    <3> QED BY <3>1, FS_Singleton
  <2> QED BY <1>2, <2>1, <2>2
<1> HIDE DEF W, m
<1>4. r \in Seq(Tasks)
  <2> HIDE DEF s
  <2>1. Len(s) \in Nat /\ \A i \in 1 .. Len(s) : s[i] \in Tasks
    BY <1>1
  <2>2. CASE Cardinality(W) = 0
    BY <2>1, <2>2, <1>1
  <2>3. CASE Cardinality(W) = 1
    BY <2>1, <2>3, <1>1
  <2> QED BY <1>3, <2>2, <2>3
<1>5. v \in [EventLists -> Seq(Tasks)]
  <2> HIDE DEF r
  <2> QED BY <1>1, <1>4
<1>6. [k EXCEPT !.ev["receive"] = SubSeq(@, Cardinality(W) + 1, Len(@))] = q
  BY DEF KernelType
<1>7. k' = Ready(q, W) /\ pendingReady' = pendingReady
  BY <1>6 DEF RemoveFromEventList, W
<1> HIDE DEF v
<1>8. q \in KernelType /\ q.tick = k.tick /\ q.next = k.next /\ q.list = k.list /\ q.wake = k.wake
  BY <1>5, SetEv
<1> HIDE DEF q
<1>9. /\ k' \in KernelType /\ k'.tick = k.tick /\ k'.next = k.next
      /\ \A t \in Tasks :
           /\ k'.list[t] = IF t \in W THEN "ready" ELSE k.list[t]
           /\ k'.wake[t] = IF t \in W THEN 0 ELSE k.wake[t]
  BY <1>7, <1>8, ReadyIs
<1>10. Sound(k')
  BY <1>9 DEF Sound
<1> QED BY <1>7, <1>9, <1>10, TimerSizes

LEMMA SendStep ==
  ASSUME DaemonInv, SendCommand
  PROVE  DaemonInv'
<1>0. UNCHANGED <<xPendedTicks, suspender, age, daemonVars, stamp, owed>>
      /\ npc = "send" /\ npc' = "done" /\ xTimerQueue' = Append(xTimerQueue, stamp)
      /\ RemoveFromEventList("receive", 1)
  BY DEF SendCommand
<1>1. TimerTypeOK /\ CommandInv /\ PlaceInv /\ k \in KernelType /\ Sound(k) /\ stamp \in Ticks
      /\ owed \in Int /\ timer.list = "none" /\ xTimerQueue = << >>
  BY <1>0, TimerTypes DEF DaemonInv, CommandInv
<1>2. suspender = NoTask /\ xPendedTicks = 0 /\ ClockAt(k, owed)
  BY FreeNetconf DEF SendCommand
<1>3. /\ k' \in KernelType /\ Sound(k') /\ k'.tick = k.tick /\ pendingReady' = pendingReady
      /\ k.list[Daemon] = "ready" => k'.list[Daemon] = "ready"
  BY <1>0, <1>1, <1>2, WakeOne
<1>4. xTimerQueue' = <<stamp>>
  BY <1>0, <1>1
<1>5. TimerTypeOK'
  BY <1>0, <1>1, <1>3, <1>4 DEF TimerTypeOK, KernelTypeOK, daemonVars, Ticks
<1>6. PlaceInv'
  BY <1>0, <1>1, <1>2, <1>3 DEF PlaceInv, daemonVars
<1>7. CommandInv'
  BY <1>0, <1>1, <1>2, <1>4 DEF CommandInv, daemonVars
<1>8. ClockAt(k, owed - xPendedTicks)'
  <2>1. owed = Until(k.tick, stamp)
    BY <1>0, <1>2 DEF ClockAt
  <2>2. owed' - xPendedTicks' = owed
    BY <1>0, <1>1, <1>2
  <2>3. timer'.list = "none" /\ Head(xTimerQueue') = stamp
    BY <1>0, <1>1, <1>4 DEF daemonVars
  <2> QED BY <2>1, <2>2, <2>3, <1>0, <1>3 DEF ClockAt
<1> QED BY <1>3, <1>5, <1>6, <1>7, <1>8 DEF DaemonInv, Sound

LEMMA TimerTickStep ==
  ASSUME DaemonInv, TimerTick
  PROVE  DaemonInv'
<1>0. UNCHANGED <<suspender, pendingReady, daemonVars, xTimerQueue, npc, stamp>>
      /\ owed < Period + MaxLate /\ owed' = IF npc = "call" THEN owed ELSE owed + 1
  BY DEF TimerTick, Tick
<1>1. TimerTypeOK /\ CommandInv /\ PlaceInv /\ k \in KernelType /\ Sound(k)
      /\ owed \in Int /\ xPendedTicks \in Nat /\ ClockAt(k, owed - xPendedTicks)
  BY TimerTypes DEF DaemonInv
<1>2. owed' \in -Period .. Period + MaxLate /\ owed' \in Int
  BY <1>0, <1>1, TimerSizes DEF TimerTypeOK
<1>3. CASE /\ suspender = NoTask /\ k' = IncrementTick(k) /\ age' = Aged(1)
           /\ UNCHANGED xPendedTicks
  <2>1. Ticked(k, k')
    BY <1>1, <1>3, IncrementIs
  <2>2. k' \in KernelType /\ Sound(k') /\ (k.list[Daemon] = "ready" => k'.list[Daemon] = "ready")
    BY <2>1, TimerSizes DEF Ticked, Left, Timed
  <2>3. xPendedTicks = 0 /\ xPendedTicks' = 0
    BY <1>1, <1>3 DEF PlaceInv
  <2>4. age' = [t \in Tasks |-> -1] /\ age' = age
    BY <1>1, <1>3, NoAge DEF PlaceInv
  <2>5. TimerTypeOK'
    BY <1>0, <1>1, <1>2, <1>3, <2>2, <2>4 DEF TimerTypeOK, KernelTypeOK, daemonVars
  <2>6. PlaceInv'
    BY <1>0, <1>1, <1>3, <2>2, <2>4 DEF PlaceInv, daemonVars
  <2>7. CommandInv'
    BY <1>0, <1>1, <1>2, <2>3 DEF CommandInv, daemonVars
  <2>8. ClockAt(k, owed - xPendedTicks)'
    <3>0. owed - 0 = owed
      BY <1>1
    <3>1. ClockAt(k, owed)
      BY <1>1, <2>3, <3>0
    <3>2. npc # "call" => owed + 1 < TickRange
      BY <1>0, <1>1, TimerSizes
    <3>3. ClockAt(k', owed + 1)
      BY <1>1, <2>1, <3>1, <3>2, ClockTick
    <3>4. CASE npc = "call"
      <4>1. npc' = "call" /\ xTimerQueue' = << >> /\ timer'.list = "none"
        BY <3>4, <1>0, <1>1 DEF CommandInv, daemonVars
      <4> QED BY <4>1 DEF ClockAt
    <3>5. CASE npc # "call"
      <4>1. owed' = owed + 1 /\ owed' - xPendedTicks' = owed + 1
        BY <3>5, <1>0, <1>1, <1>2, <2>3
      <4>2. ClockAt(k', owed' - xPendedTicks')
        BY <3>3, <4>1
      <4> QED BY <4>2, <1>0 DEF ClockAt, Turn, daemonVars
    <3> QED BY <3>4, <3>5
  <2> QED BY <2>2, <2>5, <2>6, <2>7, <2>8 DEF DaemonInv, Sound
<1>4. CASE /\ suspender /= NoTask /\ xPendedTicks < MaxPended
           /\ xPendedTicks' = xPendedTicks + 1 /\ UNCHANGED <<k, age>>
  <2>1. xPendedTicks' \in 0 .. MaxPended
    BY <1>1, <1>4, Sizes
  <2>2. TimerTypeOK'
    BY <1>0, <1>1, <1>2, <1>4, <2>1 DEF TimerTypeOK, KernelTypeOK, daemonVars
  <2>3. PlaceInv'
    BY <1>0, <1>1, <1>4 DEF PlaceInv, daemonVars
  <2>4. CommandInv'
    BY <1>0, <1>1, <1>2, <1>4 DEF CommandInv, daemonVars
  <2>5. ClockAt(k, owed - xPendedTicks)'
    <3>1. CASE npc = "call"
      <4>1. npc' = "call" /\ xTimerQueue' = << >> /\ timer'.list = "none"
        BY <3>1, <1>0, <1>1 DEF CommandInv, daemonVars
      <4> QED BY <4>1 DEF ClockAt
    <3>2. CASE npc # "call"
      <4>1. owed' = owed + 1
        BY <3>2, <1>0
      <4>2. (owed + 1) - (xPendedTicks + 1) = owed - xPendedTicks
        BY <1>1
      <4>3. owed' - xPendedTicks' = owed - xPendedTicks
        BY <4>1, <4>2, <1>4
      <4> QED BY <4>3, <1>0, <1>1, <1>4 DEF ClockAt, Turn, daemonVars
    <3> QED BY <3>1, <3>2
  <2> QED BY <2>2, <2>3, <2>4, <2>5, <1>1, <1>4 DEF DaemonInv, Sound
<1> QED BY <1>3, <1>4 DEF TimerTick, Tick

LEMMA DaemonInit ==
  ASSUME TimerInit
  PROVE  DaemonInv
<1>1. PICK n \in Ticks :
        k = [tick |-> n, ovf |-> 0, next |-> portMAX_DELAY,
             list |-> [t \in Tasks |-> "ready"], wake |-> [t \in Tasks |-> 0],
             ev |-> [e \in EventLists |-> << >>]]
  BY DEF TimerInit, KernelInit, Ticks
<1>2. k.list = [t \in Tasks |-> "ready"] /\ k \in KernelType
  <2>1. << >> \in Seq(Tasks) /\ 0 \in 0 .. OverflowRange - 1
    BY Sizes
  <2>2. n \in 0 .. TickRange - 1 /\ 0 \in 0 .. TickRange - 1 /\ portMAX_DELAY \in 0 .. TickRange - 1
    BY Sizes DEF Ticks
  <2> QED BY <1>1, <2>1, <2>2 DEF KernelType
<1>3. /\ xPendedTicks = 0 /\ suspender = NoTask /\ pendingReady = {}
      /\ age = [t \in Tasks |-> -1]
      /\ timer = [list |-> "none", value |-> 0] /\ xLastTime = 0 /\ dpc = "next"
      /\ xNextExpireTime = 0 /\ xListWasEmpty = TRUE /\ xTimeNow = 0
      /\ xTimerQueue = << >> /\ npc = "call" /\ stamp = 0 /\ owed = 0
  BY DEF TimerInit, KernelInit
<1>4. MaxAge \in Nat
  BY Sizes DEF MaxAge
<1>5. TimerTypeOK
  <2>1. KernelTypeOK
    BY <1>2, <1>3, <1>4, Sizes DEF KernelTypeOK
  <2>2. 0 \in 0 .. TickRange - 1 /\ 0 \in -Period .. Period + MaxLate
    BY TimerSizes
  <2> QED BY <1>3, <2>1, <2>2 DEF TimerTypeOK
<1>6. Sound(k)
  BY <1>2 DEF Sound
<1>7. PlaceInv /\ CommandInv /\ ClockAt(k, owed - xPendedTicks)
  BY <1>2, <1>3, TimerSizes DEF PlaceInv, CommandInv, ClockAt
<1> QED BY <1>5, <1>6, <1>7 DEF DaemonInv

LEMMA DaemonNext ==
  ASSUME DaemonInv, [TimerNext]_timerVars
  PROVE  DaemonInv'
<1>1. CASE DaemonStep
  BY <1>1, GetNextStep, BlockStep, DaemonResumeStep, ExpiredStep, ReceiveStep, StartStep
     DEF DaemonStep
<1>2. CASE TimerStart
  BY <1>2, CallStartStep
<1>3. CASE SendCommand
  BY <1>3, SendStep
<1>4. CASE TimerTick
  BY <1>4, TimerTickStep
<1>5. CASE UNCHANGED timerVars
  BY <1>5 DEF timerVars, kernelVars, daemonVars, DaemonInv, TimerTypeOK, KernelTypeOK, Sound,
     PlaceInv, CommandInv, ClockAt, Turn, Until
<1> QED BY <1>1, <1>2, <1>3, <1>4, <1>5 DEF TimerNext

LEMMA DaemonAlways == TimerSpec => []DaemonInv
<1>1. TimerInit => DaemonInv
  BY DaemonInit
<1>2. DaemonInv /\ [TimerNext]_timerVars => DaemonInv'
  BY DaemonNext
<1> QED BY <1>1, <1>2, PTL DEF TimerSpec

\* LocalTime never runs ahead of the clock, however late the timer task is and
\* wherever the tick count wraps, for every period, tick range and lateness.
THEOREM TimerNeverEarly == TimerSpec => []TimerInv
<1>1. DaemonInv => TimerInv
  <2> SUFFICES ASSUME DaemonInv PROVE owed >= 0 /\ TimerTypeOK
    BY DEF TimerInv, NeverEarly
  <2>1. owed \in Int /\ xPendedTicks \in Nat
    BY TimerTypes DEF DaemonInv
  <2> QED BY <2>1 DEF DaemonInv, CommandInv
<1> QED BY <1>1, DaemonAlways, PTL

\* The timer task never sleeps past an expiry, in whichever list the timer is
\* and however late the task was when it went to sleep.
THEOREM TimerWakesInTime == TimerSpec => []SleepsUntilExpiry
<1>1. DaemonInv => SleepsUntilExpiry
  <2> SUFFICES ASSUME DaemonInv, suspender = NoTask, k.list[Daemon] # "ready", timer.list # "none"
               PROVE  /\ k.list[Daemon] # "suspended"
                      /\ owed + ((k.wake[Daemon] - k.tick) % TickRange) <= Period
    BY DEF SleepsUntilExpiry, Blocked
  <2>1. owed \in Int /\ xPendedTicks = 0 /\ k \in KernelType
    BY TimerTypes DEF DaemonInv, PlaceInv
  <2>2. owed - xPendedTicks = owed
    BY <2>1
  <2>3. ClockAt(k, owed)
    BY <2>2 DEF DaemonInv
  <2>4. k.list[Daemon] \in Lists
    BY <2>1, Fields, TimerSizes
  <2>5. k.list[Daemon] # "suspended" /\ k.list[Daemon] \in Timed
    BY <2>3, <2>4 DEF ClockAt, Lists, Timed
  <2> QED BY <2>3, <2>5 DEF ClockAt, Until
<1> QED BY <1>1, DaemonAlways, PTL
================================================================================
