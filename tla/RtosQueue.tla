------------------------------- MODULE RtosQueue -------------------------------
(***************************************************************************)
(* A FreeRTOS queue and the mailbox lwIP's port builds on it: posting      *)
(* (sys_mbox_post, sys_mbox_trypost, sys_mbox_trypost_fromisr), fetching   *)
(* (sys_arch_mbox_fetch, sys_arch_mbox_tryfetch) and sys_arch_msleep.  The *)
(* semaphores of the driver are the same code with empty items: with one   *)
(* message and Length = 1 this is xQueueSemaphoreTake and                  *)
(* xQueueGiveFromISR.  A blocking call is a loop of critical sections with *)
(* the scheduler suspended in the middle; interrupts come between them.    *)
(***************************************************************************)
EXTENDS Kernel

CONSTANTS
  Fetchers, Posters,  \* the tasks that call each half
  Length,             \* uxLength
  FetchMs,            \* each fetcher's timeouts in ms, 0: for ever
  SleepMs,            \* the delays in ms given to sys_arch_msleep
  TickMs              \* portTICK_PERIOD_MS (2)

NoMsg == "NULL"
IsrMsg == "from the interrupt"
Messages == Posters \cup {IsrMsg}  \* a message is named by who posts it
Refused == "refused"     \* errQUEUE_FULL
TimedOut == "timed out"  \* errQUEUE_EMPTY: SYS_ARCH_TIMEOUT or SYS_MBOX_EMPTY
queueUNLOCKED == -1
queueLOCKED_UNMODIFIED == 0

ASSUME QueueAssumption ==
  /\ Fetchers \subseteq Tasks /\ Posters \subseteq Tasks
  /\ Posters \cap {NoMsg, Refused, TimedOut, IsrMsg} = {}
  /\ Length \in Nat \ {0} /\ TickMs \in Nat \ {0}
  /\ FetchMs \in [Fetchers -> SUBSET Nat] /\ SleepMs \in SUBSET Nat
  /\ \A ms \in SleepMs \cup UNION {FetchMs[t] : t \in Fetchers} :
       ms \div TickMs < portMAX_DELAY

VARIABLES
  buf,                \* the storage area
  pcWriteTo,          \* next slot to write
  pcReadFrom,         \* last slot read
  uxMessagesWaiting,
  cTxLock,            \* queueUNLOCKED, or posts made while the queue is locked
  pc,                 \* where each task is
  call,               \* the arguments and locals of the task's call
  got                 \* what the task's call gave it

queueVars == <<buf, pcWriteTo, pcReadFrom, uxMessagesWaiting, cTxLock>>
vars == <<kernelVars, queueVars, pc, call, got>>

NoCall == [op |-> "none", asked |-> 0, xTicksToWait |-> 0,
           entrySet |-> FALSE, onEntering |-> 0, ovf |-> 0, expired |-> FALSE]

Calls ==
  [op : {"none", "fetch", "post", "sleep"},
   asked : 0 .. portMAX_DELAY, xTicksToWait : 0 .. portMAX_DELAY,
   entrySet : BOOLEAN, onEntering : 0 .. TickRange - 1,
   ovf : 0 .. OverflowRange - 1, expired : BOOLEAN]

TypeOK ==
  /\ KernelTypeOK
  /\ buf \in [0 .. Length - 1 -> Messages \cup {NoMsg}]
  /\ pcWriteTo \in 0 .. Length - 1 /\ pcReadFrom \in 0 .. Length - 1
  /\ uxMessagesWaiting \in 0 .. Length
  /\ cTxLock \in -1 .. Length
  /\ pc \in [Tasks -> {"idle", "try", "lock", "check", "place", "unlock",
                       "resume", "recheck"}]
  /\ call \in [Tasks -> Calls]
  /\ got \in [Tasks -> Messages \cup {NoMsg, Refused, TimedOut}]

\* xQueueGenericReset: pcReadFrom is the last slot, so the first read wraps.
Init ==
  /\ KernelInit
  /\ buf = [i \in 0 .. Length - 1 |-> NoMsg]
  /\ pcWriteTo = 0 /\ pcReadFrom = Length - 1
  /\ uxMessagesWaiting = 0
  /\ cTxLock = queueUNLOCKED
  /\ pc = [t \in Tasks |-> "idle"]
  /\ call = [t \in Tasks |-> NoCall]
  /\ got = [t \in Tasks |-> NoMsg]

-----------------------------------------------------------------------------
(* The parts of a call. *)

Goto(t, from, to) == pc[t] = from /\ pc' = [pc EXCEPT ![t] = to]

Empty == uxMessagesWaiting = 0
Full  == uxMessagesWaiting = Length

\* prvCopyDataToQueue, queueSEND_TO_BACK.
CopyDataToQueue(m) ==
  /\ buf' = [buf EXCEPT ![pcWriteTo] = m]
  /\ pcWriteTo' = (pcWriteTo + 1) % Length
  /\ uxMessagesWaiting' = uxMessagesWaiting + 1
  /\ UNCHANGED pcReadFrom

\* prvCopyDataFromQueue: the pointer moves before the item is read.
CopyDataFromQueue(t) ==
  LET slot == (pcReadFrom + 1) % Length IN
  /\ pcReadFrom' = slot
  /\ got' = [got EXCEPT ![t] = buf[slot]]
  /\ uxMessagesWaiting' = uxMessagesWaiting - 1
  /\ UNCHANGED <<buf, pcWriteTo>>

Return(t) ==
  /\ pc' = [pc EXCEPT ![t] = "idle"]
  /\ call' = [call EXCEPT ![t] = NoCall]
  /\ age' = [age EXCEPT ![t] = -1]

\* vTaskInternalSetTimeOutState
TimeOutState(c) == [c EXCEPT !.onEntering = k.tick, !.ovf = k.ovf]

\* The wait is shortened but the time of entry is not renewed.
Mut_CheckForTimeOut(c) ==
  LET elapsed == (k.tick - c.onEntering) % TickRange
  IN IF c.xTicksToWait = portMAX_DELAY THEN [c EXCEPT !.expired = FALSE]
     ELSE IF elapsed >= c.xTicksToWait
       THEN [c EXCEPT !.expired = TRUE, !.xTicksToWait = 0]
       ELSE [c EXCEPT !.expired = FALSE, !.xTicksToWait = @ - elapsed]

\* xTaskCheckForTimeOut
CheckForTimeOut(c) ==
  LET elapsed == (k.tick - c.onEntering) % TickRange
  IN CASE c.xTicksToWait = portMAX_DELAY -> [c EXCEPT !.expired = FALSE]
       [] /\ c.xTicksToWait /= portMAX_DELAY
          /\ \/ k.ovf /= c.ovf /\ k.tick >= c.onEntering
             \/ elapsed >= c.xTicksToWait
            -> [c EXCEPT !.expired = TRUE, !.xTicksToWait = 0]
       [] OTHER
            -> TimeOutState([c EXCEPT !.expired = FALSE, !.xTicksToWait = @ - elapsed])

-----------------------------------------------------------------------------
(* The API of the port. *)

Begin(t, op, ticks) ==
  /\ CanRun(t) /\ Goto(t, "idle", "try")
  /\ call' = [call EXCEPT ![t] = [NoCall EXCEPT !.op = op,
                                     !.asked = ticks, !.xTicksToWait = ticks]]
  /\ got' = [got EXCEPT ![t] = NoMsg]
  /\ UNCHANGED <<kernelVars, queueVars>>

\* sys_arch_mbox_fetch: no timeout waits for ever, others are rounded down to
\* ticks, a timeout below one tick to none; sys_arch_mbox_tryfetch gives 0.
Fetch(t) ==
  \/ \E ms \in FetchMs[t] :
       Begin(t, "fetch", IF ms = 0 THEN portMAX_DELAY ELSE ms \div TickMs)
  \/ Begin(t, "fetch", 0)

\* sys_mbox_post waits for ever, sys_mbox_trypost not at all.
Post(t) ==
  \E ticks \in {0, portMAX_DELAY} : Begin(t, "post", ticks)

\* sys_arch_msleep: vTaskDelay suspends the scheduler around the list
\* operation; a delay below one tick only yields.
Msleep(t) ==
  /\ CanRun(t) /\ pc[t] = "idle"
  /\ \E ms \in SleepMs :
       /\ ms \div TickMs > 0
       /\ pc' = [pc EXCEPT ![t] = "resume"]
       /\ call' = [call EXCEPT ![t] = [NoCall EXCEPT !.op = "sleep",
                                          !.asked = ms \div TickMs]]
       /\ k' = AddCurrentTaskToDelayedList(k, t, ms \div TickMs, FALSE)
  /\ suspender' = t
  /\ age' = [age EXCEPT ![t] = 0]
  /\ UNCHANGED <<xPendedTicks, pendingReady, queueVars, got>>

-----------------------------------------------------------------------------
(* xQueueReceive and xQueueGenericSend. *)

\* The critical section at the head of the loop: the operation succeeds and
\* wakes one task waiting for the opposite,
Transfer(t) ==
  /\ CanRun(t) /\ pc[t] = "try"
  /\ \/ /\ call[t].op = "fetch" /\ ~Empty
        /\ CopyDataFromQueue(t)
        /\ RemoveFromEventList("send", 1)
     \/ /\ call[t].op = "post" /\ ~Full
        /\ CopyDataToQueue(t)
        /\ RemoveFromEventList("receive", 1)
        /\ UNCHANGED got
  /\ Return(t)
  /\ UNCHANGED <<xPendedTicks, suspender, cTxLock>>

\* or it cannot: without time left the call fails, otherwise it notes the
\* time, once, and goes on to block (a call for ever never compares it).
NotNow(t) ==
  \/ call[t].op = "fetch" /\ Empty
  \/ call[t].op = "post" /\ Full

Fail(t) ==
  /\ CanRun(t) /\ pc[t] = "try" /\ NotNow(t)
  /\ call[t].xTicksToWait = 0
  /\ got' = [got EXCEPT ![t] = IF call[t].op = "fetch" THEN TimedOut ELSE Refused]
  /\ Return(t)
  /\ UNCHANGED <<k, xPendedTicks, suspender, pendingReady, queueVars>>

NoteTime(t) ==
  /\ CanRun(t) /\ Goto(t, "try", "lock") /\ NotNow(t)
  /\ call[t].xTicksToWait /= 0
  /\ call' = [call EXCEPT ![t] =
                IF @.entrySet \/ @.asked = portMAX_DELAY THEN @
                ELSE TimeOutState([@ EXCEPT !.entrySet = TRUE])]
  /\ age' = IF call[t].entrySet \/ call[t].asked = portMAX_DELAY THEN age
            ELSE [age EXCEPT ![t] = 0]
  /\ UNCHANGED <<k, xPendedTicks, suspender, pendingReady, queueVars, got>>

\* vTaskSuspendAll, prvLockQueue, xTaskCheckForTimeOut: from here only
\* interrupts come between, and they do not change what the check reads.
LockQueue(t) ==
  /\ CanRun(t) /\ pc[t] = "lock"
  /\ suspender' = t
  /\ cTxLock' = IF cTxLock = queueUNLOCKED THEN queueLOCKED_UNMODIFIED ELSE cTxLock
  /\ LET c == CheckForTimeOut(call[t])
     IN /\ call' = [call EXCEPT ![t] = c]
        /\ pc' = [pc EXCEPT ![t] = IF c.expired THEN "unlock" ELSE "check"]
  /\ UNCHANGED <<k, xPendedTicks, pendingReady, age, buf, pcWriteTo, pcReadFrom,
                 uxMessagesWaiting, got>>

\* prvIsQueueEmpty or prvIsQueueFull, a critical section of its own.
CheckAgain(t) ==
  /\ CanRun(t)
  /\ Goto(t, "check", IF NotNow(t) THEN "place" ELSE "unlock")
  /\ UNCHANGED <<kernelVars, queueVars, call, got>>

Place(t) ==
  /\ CanRun(t) /\ Goto(t, "place", "unlock")
  /\ k' = PlaceOnEventList(k, t, IF call[t].op = "fetch" THEN "receive" ELSE "send",
                           call[t].xTicksToWait)
  /\ UNCHANGED <<xPendedTicks, suspender, pendingReady, age, queueVars, call, got>>

\* The posts made while the queue was locked wake nobody.
Mut_UnlockQueue(t) ==
  /\ CanRun(t) /\ Goto(t, "unlock", "resume")
  /\ cTxLock' = queueUNLOCKED
  /\ UNCHANGED <<kernelVars, buf, pcWriteTo, pcReadFrom, uxMessagesWaiting, call, got>>

\* prvUnlockQueue: one waiting task is woken for each post made meanwhile.
\* cRxLock counts only xQueueReceiveFromISR, which nothing calls.
UnlockQueue(t) ==
  /\ CanRun(t) /\ Goto(t, "unlock", "resume")
  /\ RemoveFromEventList("receive", cTxLock)
  /\ cTxLock' = queueUNLOCKED
  /\ UNCHANGED <<xPendedTicks, suspender, age, buf, pcWriteTo, pcReadFrom,
                 uxMessagesWaiting, call, got>>

\* xTaskResumeAll and the yield: the task runs on if it was not placed or has
\* been woken.  A delay is over when the task runs again.
Resume(t) ==
  /\ suspender = t
  /\ Goto(t, "resume", IF call[t].expired \/ call[t].op = "sleep" THEN "recheck"
                       ELSE "try")
  /\ ResumeAll
  /\ UNCHANGED <<queueVars, call, got>>

\* The time is up, whatever has arrived meanwhile.
Mut_Recheck(t) ==
  /\ CanRun(t) /\ pc[t] = "recheck"
  /\ got' = [got EXCEPT ![t] = IF call[t].op = "fetch" THEN TimedOut ELSE @]
  /\ Return(t)
  /\ UNCHANGED <<k, xPendedTicks, suspender, pendingReady, queueVars>>

\* The time is up: a fetch looks once more, and takes what has arrived; a
\* delay ends.
Recheck(t) ==
  /\ CanRun(t) /\ pc[t] = "recheck"
  /\ \/ /\ call[t].op = "fetch" /\ ~Empty
        /\ pc' = [pc EXCEPT ![t] = "try"]
        /\ UNCHANGED <<call, age, got>>
     \/ /\ call[t].op = "sleep" \/ Empty
        /\ got' = [got EXCEPT ![t] = IF call[t].op = "fetch" THEN TimedOut ELSE @]
        /\ Return(t)
  /\ UNCHANGED <<k, xPendedTicks, suspender, pendingReady, queueVars>>

\* sys_mbox_trypost_fromisr, between any two steps of the tasks.
PostFromISR ==
  /\ ~Full
  /\ CopyDataToQueue(IsrMsg)
  /\ IF cTxLock = queueUNLOCKED
       THEN RemoveFromEventList("receive", 1) /\ UNCHANGED cTxLock
       ELSE cTxLock' = cTxLock + 1 /\ UNCHANGED <<k, pendingReady>>
  /\ UNCHANGED <<xPendedTicks, suspender, age, pc, call, got>>

TickInterrupt == Tick /\ UNCHANGED <<queueVars, pc, call, got>>

Step(t) ==
  \/ Transfer(t) \/ Fail(t) \/ NoteTime(t) \/ LockQueue(t) \/ CheckAgain(t)
  \/ Place(t) \/ UnlockQueue(t) \/ Resume(t) \/ Recheck(t)

Next ==
  \/ \E t \in Fetchers : Fetch(t)
  \/ \E t \in Posters : Post(t) \/ Msleep(t)
  \/ \E t \in Tasks : Step(t)
  \/ PostFromISR \/ TickInterrupt

Spec == Init /\ [][Next]_vars

-----------------------------------------------------------------------------
(* Properties. *)

\* Ring pointers, lock counts and the kernel's delayed lists keep their shape.
QueueInv == TypeOK /\ DelayListsSound

\* Tasks inside a call that will look at the queue again before they block.
Awake(op) ==
  {t \in Tasks : call[t].op = op /\ \A e \in EventLists : t \notin Range(k.ev[e])}

\* No wake-up is lost.  With the queue unlocked and tasks blocked on it, every
\* message has a fetching task awake to take it and every free slot a posting
\* one, wherever the interrupt's posts fell in a blocking call.
NoLostWakeup ==
  cTxLock = queueUNLOCKED =>
    /\ k.ev["receive"] /= << >> => Cardinality(Awake("fetch")) >= uxMessagesWaiting
    /\ k.ev["send"] /= << >> => Cardinality(Awake("post")) >= Length - uxMessagesWaiting

\* A timed call stays blocked until exactly the time it was given, however
\* often it was woken for a message another task took, whether the tick count
\* wraps meanwhile and however many ticks were pended.
BlockedForTimeout ==
  \A t \in Tasks :
    k.list[t] \in {"delayed", "overflow"} =>
      age[t] + ((k.wake[t] - k.tick) % TickRange) = call[t].asked

\* The ring behind the pointers is a bounded mailbox.
Contents == [i \in 1 .. uxMessagesWaiting |-> buf[(pcReadFrom + i) % Length]]

Box == INSTANCE Mailbox WITH Callers <- Tasks, None <- NoMsg, box <- Contents

\* The queue keeps a mailbox's promises: first in, first out, once each, and
\* a timed-out fetch says the mailbox was empty when it gave up.
ImplementsMailbox == Box!Spec
================================================================================
