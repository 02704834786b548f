------------------------------- MODULE SoftTimer -------------------------------
(***************************************************************************)
(* The FreeRTOS timer task and the one timer of the program: the           *)
(* auto-reload timer whose callback advances LocalTime.  netconf starts it *)
(* with a command that carries the tick count of the call; the timer task  *)
(* may read the command, or come to an expiry, any number of ticks later,  *)
(* with the tick count wrapped meanwhile, and makes up for every period it *)
(* has missed.  The ticks, the delayed lists and the blocking are Kernel's.*)
(***************************************************************************)
EXTENDS Kernel

CONSTANTS
  Daemon,   \* the timer task
  Netconf,  \* the task that calls LwIP_Init
  Period,   \* xTimerPeriodInTicks: WCHNETTIMERPERIOD in ticks
  MaxLate   \* bound: ticks by which an expiry may be late (of 2^32)

ASSUME TimerAssumption ==
  /\ {Daemon, Netconf} \subseteq Tasks /\ Daemon # Netconf
  /\ Period \in Nat \ {0} /\ MaxLate \in Nat
  /\ Period + MaxLate < TickRange

VARIABLES
  timer,            \* the list the timer is in, and its item's value
  xLastTime,        \* the static of prvSampleTimeNow
  dpc,              \* where the timer task is
  xNextExpireTime, xListWasEmpty, xTimeNow,  \* its locals
  xTimerQueue,      \* the start command, as the tick count it carries
  npc, stamp,       \* where netconf is; xTaskGetTickCount() in xTimerStart
  owed              \* ticks since the call of xTimerStart that no callback has
                    \* accounted for: not in the code

daemonVars == <<timer, xLastTime, dpc, xNextExpireTime, xListWasEmpty, xTimeNow>>
timerVars == <<kernelVars, daemonVars, xTimerQueue, npc, stamp, owed>>

TimerTypeOK ==
  /\ KernelTypeOK
  /\ timer \in [list : {"none", "current", "overflow"}, value : 0 .. TickRange - 1]
  /\ {xLastTime, xNextExpireTime, xTimeNow, stamp} \subseteq 0 .. TickRange - 1
  /\ xListWasEmpty \in BOOLEAN
  /\ dpc \in {"next", "block", "resume", "resumeExpired", "expired", "receive", "start"}
  /\ xTimerQueue \in {<< >>} \cup {<<n>> : n \in 0 .. TickRange - 1}
  /\ npc \in {"call", "send", "done"}
  /\ owed \in -Period .. Period + MaxLate

\* The scheduler starts with the tick count at 0.
TimerInit ==
  /\ KernelInit /\ k.tick = 0
  /\ timer = [list |-> "none", value |-> 0]
  /\ xLastTime = 0 /\ dpc = "next"
  /\ xNextExpireTime = 0 /\ xListWasEmpty = TRUE /\ xTimeNow = 0
  /\ xTimerQueue = << >> /\ npc = "call" /\ stamp = 0
  /\ owed = 0

-----------------------------------------------------------------------------
(* The timer lists. *)

Plus(n, ticks) == (n + ticks) % TickRange

\* The list is chosen by the expiry time alone.
Mut_ExpiresNow(next, now, since) == next <= now

\* prvInsertTimerInActiveList: the time from since to next has passed by now.
ExpiresNow(next, now, since) ==
  IF next <= now THEN (now - since) % TickRange >= Period
  ELSE now < since /\ next >= since

Inserted(next, now) ==
  [list |-> IF next <= now THEN "overflow" ELSE "current", value |-> next]

\* A timer that is late is not called for the periods it missed.
Mut_Missed(expired, now) == 0

\* prvReloadTimer: the further expiries that have passed, a callback each.
Missed(expired, now) ==
  Min({n \in 0 .. TickRange :
         ~ExpiresNow(Plus(expired, (n + 1) * Period), now, Plus(expired, n * Period))})

Reloaded(expired, now) ==
  Inserted(Plus(expired, (Missed(expired, now) + 1) * Period), now)

Callbacks(n) == owed' = owed - n * Period

\* prvSwitchTimerLists: what is left in the current list has expired before
\* the wrap; the reload ends up in the overflow list, which becomes current.
SwitchTimerLists ==
  IF timer.list = "current"
  THEN /\ timer' = [Reloaded(timer.value, TickRange - 1) EXCEPT !.list = "current"]
       /\ Callbacks(Missed(timer.value, TickRange - 1) + 1)
  ELSE /\ timer' = [timer EXCEPT !.list = IF @ = "none" THEN @ ELSE "current"]
       /\ Callbacks(0)

-----------------------------------------------------------------------------
(* prvTimerTask. *)

\* prvGetNextExpireTime: 0, the next wrap, if the list is empty.
GetNextExpireTime ==
  /\ CanRun(Daemon) /\ dpc = "next" /\ dpc' = "block"
  /\ xListWasEmpty' = (timer.list # "current")
  /\ xNextExpireTime' = IF timer.list = "current" THEN timer.value ELSE 0
  /\ UNCHANGED <<kernelVars, timer, xLastTime, xTimeNow, xTimerQueue, npc, stamp, owed>>

\* A message that came before the queue was locked is overlooked.
Mut_WaitForMessage(ticks, forever) ==
  k' = AddCurrentTaskToDelayedList(
         [k EXCEPT !.ev["receive"] = Append(@, Daemon)], Daemon, ticks, forever)

\* vQueueWaitForMessageRestricted: no message, so wait for one, for ever if
\* there is no timer in either list.
WaitForMessage(ticks, forever) ==
  k' = IF xTimerQueue = << >>
       THEN AddCurrentTaskToDelayedList(
              [k EXCEPT !.ev["receive"] = Append(@, Daemon)], Daemon, ticks, forever)
       ELSE k

\* prvProcessTimerOrBlockTask up to xTaskResumeAll: with the scheduler
\* suspended ticks are only pended.
ProcessTimerOrBlockTask ==
  /\ CanRun(Daemon) /\ dpc = "block"
  /\ suspender' = Daemon
  /\ xTimeNow' = k.tick /\ xLastTime' = k.tick
  /\ \/ /\ k.tick < xLastTime
        /\ SwitchTimerLists
        /\ dpc' = "resume" /\ UNCHANGED k
     \/ /\ k.tick >= xLastTime
        /\ ~xListWasEmpty /\ xNextExpireTime <= k.tick
        /\ dpc' = "resumeExpired" /\ UNCHANGED <<k, timer, owed>>
     \/ /\ k.tick >= xLastTime
        /\ xListWasEmpty \/ xNextExpireTime > k.tick
        /\ WaitForMessage(Plus(xNextExpireTime, TickRange - k.tick),
                          xListWasEmpty /\ timer.list # "overflow")
        /\ dpc' = "resume" /\ UNCHANGED <<timer, owed>>
  /\ UNCHANGED <<xPendedTicks, pendingReady, age, xNextExpireTime, xListWasEmpty,
                 xTimerQueue, npc, stamp>>

DaemonResume ==
  /\ suspender = Daemon
  /\ dpc' = IF dpc = "resumeExpired" THEN "expired" ELSE "receive"
  /\ ResumeAll
  /\ UNCHANGED <<timer, xLastTime, xNextExpireTime, xListWasEmpty, xTimeNow,
                 xTimerQueue, npc, stamp, owed>>

\* prvProcessExpiredTimer, on the time sampled before xTaskResumeAll.
ProcessExpiredTimer ==
  /\ CanRun(Daemon) /\ dpc = "expired" /\ dpc' = "receive"
  /\ timer' = Reloaded(xNextExpireTime, xTimeNow)
  /\ Callbacks(Missed(xNextExpireTime, xTimeNow) + 1)
  /\ UNCHANGED <<kernelVars, xLastTime, xNextExpireTime, xListWasEmpty, xTimeNow,
                 xTimerQueue, npc, stamp>>

\* prvProcessReceivedCommands: the next command, or the end of its loop.
ReceiveCommand ==
  /\ CanRun(Daemon) /\ dpc = "receive"
  /\ dpc' = IF xTimerQueue = << >> THEN "next" ELSE "start"
  /\ UNCHANGED <<kernelVars, timer, xLastTime, xNextExpireTime, xListWasEmpty,
                 xTimeNow, xTimerQueue, npc, stamp, owed>>

\* tmrCOMMAND_START: sample the time, which may switch the (empty) lists, and
\* insert the timer; its first expiry may have passed already.
StartTimer ==
  LET asked == Head(xTimerQueue)
      first == Plus(asked, Period)
      now   == k.tick
  IN /\ CanRun(Daemon) /\ dpc = "start" /\ dpc' = "receive"
     /\ xTimerQueue' = Tail(xTimerQueue)
     /\ xLastTime' = now
     /\ IF ExpiresNow(first, now, asked)
        THEN timer' = Reloaded(first, now) /\ Callbacks(Missed(first, now) + 1)
        ELSE timer' = Inserted(first, now) /\ Callbacks(0)
     /\ UNCHANGED <<kernelVars, xNextExpireTime, xListWasEmpty, xTimeNow, npc, stamp>>

DaemonStep ==
  \/ GetNextExpireTime \/ ProcessTimerOrBlockTask \/ DaemonResume \/ ProcessExpiredTimer
  \/ ReceiveCommand \/ StartTimer

-----------------------------------------------------------------------------
(* LwIP_Init and the tick. *)

\* xTimerStart(localtime_timer, 0) reads the tick count,
TimerStart ==
  /\ CanRun(Netconf) /\ npc = "call" /\ npc' = "send"
  /\ stamp' = k.tick
  /\ UNCHANGED <<kernelVars, daemonVars, xTimerQueue, owed>>

\* then sends the command, which wakes the timer task.
SendCommand ==
  /\ CanRun(Netconf) /\ npc = "send" /\ npc' = "done"
  /\ xTimerQueue' = Append(xTimerQueue, stamp)
  /\ RemoveFromEventList("receive", 1)
  /\ UNCHANGED <<xPendedTicks, suspender, age, daemonVars, stamp, owed>>

TimerTick ==
  /\ owed < Period + MaxLate
  /\ Tick
  /\ owed' = IF npc = "call" THEN owed ELSE owed + 1
  /\ UNCHANGED <<daemonVars, xTimerQueue, npc, stamp>>

TimerNext == DaemonStep \/ TimerStart \/ SendCommand \/ TimerTick

TimerSpec == TimerInit /\ [][TimerNext]_timerVars

\* Time slicing runs every ready task; the tick goes on.
TimerFairSpec ==
  /\ TimerSpec /\ WF_timerVars(TimerTick)
  /\ SF_timerVars(DaemonStep) /\ SF_timerVars(TimerStart \/ SendCommand)

-----------------------------------------------------------------------------
(* Properties. *)

\* LocalTime is never ahead of the clock: no period is called for twice, and
\* none before it has passed.
NeverEarly == owed >= 0

\* LocalTime is within the bounds of the clock, for every lateness of the task.
TimerInv == TimerTypeOK /\ NeverEarly

Blocked == suspender = NoTask /\ k.list[Daemon] # "ready"

\* The timer task never sleeps past an expiry, whichever list the timer is in
\* and however late the task was when it set its alarm.
SleepsUntilExpiry ==
  Blocked /\ timer.list # "none" =>
    /\ k.list[Daemon] # "suspended"
    /\ owed + ((k.wake[Daemon] - k.tick) % TickRange) <= Period

\* LocalTime keeps advancing: no start command is lost, and no wake-up of the
\* timer task, over every wrap of the tick count.
KeepsTime == []<><<owed' < owed>>_timerVars
===============================================================================
