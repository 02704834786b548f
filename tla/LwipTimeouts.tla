------------------------------ MODULE LwipTimeouts ------------------------------
(***************************************************************************)
(* lwIP's timers: the sorted list of sys_timeout over the wrapping clock   *)
(* sys_now, the cyclic timers that rearm themselves, the TCP timer started *)
(* on demand, and tcpip_thread, which sleeps on its mailbox for the time   *)
(* to the first timer, rounded down to ticks.  Other tasks take the core   *)
(* lock while it sleeps and may start the TCP timer.                       *)
(***************************************************************************)
EXTENDS Integers, Sequences, SequencesExt

CONSTANTS
  Cyclic,       \* lwip_cyclic_timers without tcp_tmr
  Interval,     \* interval_ms of each timer
  ClockRange,   \* sys_now counts modulo this (2^32 in the code)
  TickMs,       \* portTICK_PERIOD_MS
  MaxBusy       \* bound: ticks in one turn of tcpip_thread's loop

Tcp == "tcp_tmr"
Timers == Cyclic \cup {Tcp}
MaxTimeout == ClockRange \div 2 - 1  \* LWIP_MAX_TIMEOUT

\* Two intervals and two turns of the loop are within half the clock's range:
\* 25 days, where the longest interval is a minute.
ASSUME TimeoutsAssumption ==
  /\ Cyclic # {} /\ IsFiniteSet(Cyclic) /\ {Tcp, ""} \cap Cyclic = {}
  /\ ClockRange \in Nat /\ TickMs \in Nat \ {0} /\ MaxBusy \in Nat
  /\ ClockRange % 2 = 0 /\ ClockRange % TickMs = 0
  /\ Interval \in [Timers -> Nat \ {0}]
  /\ \A h \in Timers : 2 * Interval[h] + 2 * (MaxBusy * TickMs) < ClockRange \div 2

VARIABLES
  now,          \* sys_now(), xTickCount * portTICK_PERIOD_MS
  next_timeout, \* the list, first due first
  due,          \* current_timeout_due_time
  running,      \* the timer whose handler runs, "" for none
  snap,         \* "now" of sys_check_timeouts
  pc,           \* where tcpip_thread is
  wait,         \* ticks left of its fetch
  busy,         \* ticks since its loop began, sleep not counted
  tcpActive,    \* tcpip_tcp_timer_active
  tcpPcbs,      \* tcp_active_pcbs || tcp_tw_pcbs
  last          \* due time of each cyclic timer's last run: not in the code

timeoutsVars == <<now, next_timeout, due, running, snap, pc, wait, busy, tcpActive,
                  tcpPcbs, last>>

Clock == 0 .. ClockRange - 1
SysTimeo == [h : Timers, time : Clock]  \* struct sys_timeo

TimeoutsTypeOK ==
  /\ now \in Clock /\ due \in Clock /\ snap \in Clock
  /\ next_timeout \in Seq(SysTimeo) /\ Len(next_timeout) <= Cardinality(Timers)
  /\ running \in Timers \cup {""}
  /\ pc \in {"again", "fetch", "check", "run", "handle"}
  /\ wait \in 0 .. ClockRange /\ busy \in 0 .. MaxBusy
  /\ tcpActive \in BOOLEAN /\ tcpPcbs \in BOOLEAN
  /\ last \in [Cyclic -> Clock]

-----------------------------------------------------------------------------
(* The list. *)

\* TIME_LESS_THAN: the unsigned difference is in the upper half.
TimeLessThan(t, compare_to) == (t - compare_to) % ClockRange > MaxTimeout

\* sys_timeout_abs: before the first entry that is later.
Insert(list, h, time) ==
  LET later == {i \in 1 .. Len(list) : TimeLessThan(time, list[i].time)}
      at    == IF later = {} THEN Len(list) + 1 ELSE Min(later)
  IN InsertAt(list, at, [h |-> h, time |-> time])

\* sys_timeout: from now on.
Timeout(list, h) == Insert(list, h, (now + Interval[h]) % ClockRange)

\* sys_timeouts_init at time n, one timer of the table after the other.
Started(order, n) ==
  LET upTo[i \in 0 .. Len(order)] ==
        IF i = 0 THEN << >>
        ELSE Insert(upTo[i - 1], order[i], (n + Interval[order[i]]) % ClockRange)
  IN upTo[Len(order)]

\* The table may have any order and the clock any time.
TimeoutsInit ==
  /\ \E order \in SetToSeqs(Cyclic), n \in {i \in Clock : i % TickMs = 0} :
       /\ now = n
       /\ next_timeout = Started(order, n)
       /\ due = n /\ snap = n /\ last = [h \in Cyclic |-> n]
  /\ running = "" /\ pc = "again" /\ wait = 0 /\ busy = 0
  /\ tcpActive = FALSE /\ tcpPcbs = FALSE

-----------------------------------------------------------------------------
(* tcpip_thread. *)

\* sys_timeouts_sleeptime; the cyclic timers keep the list from being empty
\* between handlers.
Sleeptime ==
  LET t == Head(next_timeout).time
  IN IF TimeLessThan(t, now) THEN 0 ELSE (t - now) % ClockRange

Mut_FetchTicks == (Sleeptime + TickMs - 1) \div TickMs

\* timeout_ms / portTICK_RATE_MS: a sleep below a tick is a poll.
FetchTicks == Sleeptime \div TickMs

\* tcpip_timeouts_mbox_fetch from its label: a timer is due, or
\* sys_arch_mbox_fetch waits and the core lock is free meanwhile.
Again ==
  /\ pc = "again"
  /\ IF Sleeptime = 0
       THEN pc' = "check" /\ snap' = now /\ UNCHANGED wait
       ELSE pc' = "fetch" /\ wait' = FetchTicks /\ UNCHANGED snap
  /\ UNCHANGED <<now, next_timeout, due, running, busy, tcpActive, tcpPcbs, last>>

\* After the sleep the first timer is taken to be due.
Mut_FetchTimesOut ==
  /\ pc = "fetch" /\ wait = 0
  /\ pc' = "check" /\ snap' = Head(next_timeout).time
  /\ UNCHANGED <<now, next_timeout, due, running, wait, busy, tcpActive, tcpPcbs,
                 last>>

\* SYS_ARCH_TIMEOUT: sys_check_timeouts begins.
FetchTimesOut ==
  /\ pc = "fetch" /\ wait = 0
  /\ pc' = "check" /\ snap' = now
  /\ UNCHANGED <<now, next_timeout, due, running, wait, busy, tcpActive, tcpPcbs,
                 last>>

\* A message arrives, and tcpip_thread_handle_msg runs.
FetchMessage ==
  /\ pc = "fetch"
  /\ pc' = "handle" /\ wait' = 0
  /\ UNCHANGED <<now, next_timeout, due, running, snap, busy, tcpActive, tcpPcbs,
                 last>>

\* Back in the loop.
NextTurn ==
  /\ pc' = "again" /\ busy' = 0
  /\ UNCHANGED <<now, due, running, snap, wait, last>>

\* What a message does to the timers: it may open or close connections.
HandleMessage ==
  /\ pc = "handle"
  /\ tcpPcbs' \in BOOLEAN
  /\ IF ~tcpActive /\ tcpPcbs'
       THEN tcpActive' = TRUE /\ next_timeout' = Timeout(next_timeout, Tcp)
       ELSE UNCHANGED <<tcpActive, next_timeout>>
  /\ NextTurn

\* One round of sys_check_timeouts: the first timer has not expired,
CheckDone ==
  /\ pc = "check"
  /\ next_timeout = << >> \/ TimeLessThan(snap, Head(next_timeout).time)
  /\ UNCHANGED <<next_timeout, tcpActive, tcpPcbs>>
  /\ NextTurn

\* or it leaves the list and its handler runs.
CheckExpired ==
  /\ pc = "check" /\ next_timeout /= << >>
  /\ LET e == Head(next_timeout)
     IN /\ ~TimeLessThan(snap, e.time)
        /\ due' = e.time /\ running' = e.h
        /\ last' = IF e.h \in Cyclic THEN [last EXCEPT ![e.h] = e.time] ELSE last
  /\ next_timeout' = Tail(next_timeout)
  /\ pc' = "run"
  /\ UNCHANGED <<now, snap, wait, busy, tcpActive, tcpPcbs>>

\* lwip_cyclic_timer after its handler: from the time it was due, or from now
\* if that has passed already.
RearmCyclic ==
  LET t == (due + Interval[running]) % ClockRange
  IN next_timeout' =
       IF TimeLessThan(t, now) THEN Timeout(next_timeout, running)
       ELSE Insert(next_timeout, running, t)

\* Rearmed whether or not it is still needed.
Mut_RearmTcp ==
  /\ tcpPcbs' \in {tcpPcbs, FALSE}
  /\ tcpActive' = tcpPcbs'
  /\ next_timeout' = Timeout(next_timeout, Tcp)

\* tcpip_tcp_timer after tcp_tmr, which may remove the last connection.
RearmTcp ==
  /\ tcpPcbs' \in {tcpPcbs, FALSE}
  /\ tcpActive' = tcpPcbs'
  /\ next_timeout' = IF tcpPcbs' THEN Timeout(next_timeout, Tcp) ELSE next_timeout

HandlerEnds ==
  /\ pc = "run"
  /\ \/ running \in Cyclic /\ RearmCyclic /\ UNCHANGED <<tcpActive, tcpPcbs>>
     \/ running = Tcp /\ RearmTcp
  /\ running' = "" /\ pc' = "check"
  /\ UNCHANGED <<now, due, snap, wait, busy, last>>

-----------------------------------------------------------------------------

\* Another task, with the core lock: tcp_connect or tcp_listen's first
\* connection starts the TCP timer through tcp_timer_needed, or the last
\* connection goes away.
OtherTask ==
  /\ pc = "fetch"
  /\ tcpPcbs' = ~tcpPcbs
  /\ IF ~tcpActive /\ tcpPcbs'
       THEN tcpActive' = TRUE /\ next_timeout' = Timeout(next_timeout, Tcp)
       ELSE UNCHANGED <<tcpActive, next_timeout>>
  /\ UNCHANGED <<now, due, running, snap, pc, wait, busy, last>>

\* The tick: a sleeping fetch counts down, anything else takes its time.
Tick ==
  /\ now' = (now + TickMs) % ClockRange
  /\ IF pc = "fetch" /\ wait > 0
       THEN wait' = wait - 1 /\ UNCHANGED busy
       ELSE busy < MaxBusy /\ busy' = busy + 1 /\ UNCHANGED wait
  /\ UNCHANGED <<next_timeout, due, running, snap, pc, tcpActive, tcpPcbs, last>>

Thread ==
  \/ Again \/ FetchTimesOut \/ HandleMessage \/ CheckDone \/ CheckExpired
  \/ HandlerEnds

TimeoutsNext == Thread \/ FetchMessage \/ OtherTask \/ Tick

TimeoutsSpec == TimeoutsInit /\ [][TimeoutsNext]_timeoutsVars

-----------------------------------------------------------------------------
(* Properties. *)

\* Every cyclic timer is in the list once, or its handler is running and will
\* put it back; the TCP timer is there exactly while tcpip_tcp_timer_active.
\* A second start of it, or a lost rearm, would break this.
EachTimerOnce ==
  \A h \in Timers :
    Cardinality({i \in 1 .. Len(next_timeout) : next_timeout[i].h = h})
      = IF running = h THEN 0
        ELSE IF h = Tcp /\ ~tcpActive THEN 0 ELSE 1

\* How long the entry has been due, 0 if it is not.
Overdue(e) == IF TimeLessThan(e.time, now) THEN (now - e.time) % ClockRange ELSE 0

\* The list stays sorted over the wrap of the clock, so that the first entry
\* is the one to sleep for.
ListSorted ==
  \A i, j \in 1 .. Len(next_timeout) :
    i < j => ~TimeLessThan(next_timeout[j].time, next_timeout[i].time)

\* The list of timers is whole and in order.
ListInv == TimeoutsTypeOK /\ EachTimerOnce /\ ListSorted

\* No cyclic timer is late by more than two turns of the loop, however many
\* messages arrive; the sleep, computed before the core lock is given up, is
\* never longer than the time to the first of them.  (A TCP timer another task
\* starts during the sleep may be later: the sleeping thread is not told.)
CyclicOnTime ==
  \A i \in 1 .. Len(next_timeout) :
    LET e == next_timeout[i]
    IN e.h \in Cyclic =>
         /\ Overdue(e) <= 2 * MaxBusy * TickMs
         /\ pc = "fetch" /\ wait > 0 =>
              ~TimeLessThan(e.time, (now + wait * TickMs) % ClockRange)

\* A handler runs when its time has come, and a cyclic one on its own beat:
\* its due times are an interval apart, more only by what the loop was late.
CyclicSpacing ==
  [][running' \in Cyclic /\ running = "" =>
       /\ ~TimeLessThan(now, due')
       /\ (due' - last[running']) % ClockRange
            \in Interval[running'] .. Interval[running'] + 2 * MaxBusy * TickMs]_timeoutsVars
=============================================================================
