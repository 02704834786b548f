-------------------------------- MODULE Kernel --------------------------------
(***************************************************************************)
(* The FreeRTOS kernel under the network tasks: the tick, the two lists of *)
(* delayed tasks that are exchanged when the 32-bit tick count wraps, the  *)
(* event lists of a queue, and the suspension of the scheduler.  Every     *)
(* application task has priority 5, so the event lists are first in, first *)
(* out, and time slicing lets any ready task run next.                     *)
(***************************************************************************)
EXTENDS Integers, Sequences, FiniteSetsExt

CONSTANTS
  Tasks,          \* the tasks of priority 5
  TickRange,      \* xTickCount counts modulo this (2^32 in the code)
  OverflowRange,  \* xNumOfOverflows counts modulo this (2^32 in the code)
  MaxPended       \* bound: ticks that arrive during one suspension

NoTask == "no task"

ASSUME KernelAssumption ==
  /\ NoTask \notin Tasks /\ IsFiniteSet(Tasks)
  /\ TickRange \in Nat /\ TickRange > 1
  /\ OverflowRange \in Nat /\ OverflowRange > 1
  /\ MaxPended \in Nat

portMAX_DELAY == TickRange - 1

\* Bound: a timed call lasts at most one turn of the tick count (99 days); the
\* count of overflows tells one turn from none, not two from one.
MaxAge == TickRange

EventLists == {"receive", "send"}

VARIABLES
  k,              \* what the tick changes, see KernelType
  xPendedTicks,   \* ticks counted while the scheduler is suspended
  suspender,      \* the running task while it has the scheduler suspended
  pendingReady,   \* xPendingReadyList: woken, not yet moved to the ready list
  age             \* ticks since the task's timed call began, -1 outside one:
                  \* not in the code, it is what a timeout is measured against

kernelVars == <<k, xPendedTicks, suspender, pendingReady, age>>

\* list is the list that holds a task's state item, wake the value of that
\* item, ev the event lists.
KernelType ==
  [tick : 0 .. TickRange - 1,
   ovf  : 0 .. OverflowRange - 1,
   next : 0 .. TickRange - 1,
   list : [Tasks -> {"ready", "delayed", "overflow", "suspended"}],
   wake : [Tasks -> 0 .. TickRange - 1],
   ev   : [EventLists -> Seq(Tasks)]]

KernelTypeOK ==
  /\ k \in KernelType
  /\ xPendedTicks \in 0 .. MaxPended
  /\ suspender \in Tasks \cup {NoTask}
  /\ pendingReady \subseteq Tasks
  /\ age \in [Tasks -> -1 .. MaxAge]

\* The tick count starts anywhere: the wrap is one of the ordinary cases.
KernelInit ==
  /\ \E n \in 0 .. TickRange - 1 :
       k = [tick |-> n, ovf |-> 0, next |-> portMAX_DELAY,
            list |-> [t \in Tasks |-> "ready"],
            wake |-> [t \in Tasks |-> 0],
            ev   |-> [e \in EventLists |-> << >>]]
  /\ xPendedTicks = 0 /\ suspender = NoTask /\ pendingReady = {}
  /\ age = [t \in Tasks |-> -1]

-----------------------------------------------------------------------------
(* The tick. *)

\* prvAddTaskToReadyList; the value of the state item no longer matters.
Ready(q, S) ==
  [q EXCEPT !.list = [t \in Tasks |-> IF t \in S THEN "ready" ELSE q.list[t]],
            !.wake = [t \in Tasks |-> IF t \in S THEN 0 ELSE q.wake[t]]]

OnDelayedList(list) == {t \in Tasks : list[t] = "delayed"}

\* prvResetNextTaskUnblockTime: the wake time at the head of the sorted list.
NextUnblock(list, wake) ==
  IF OnDelayedList(list) = {} THEN portMAX_DELAY
  ELSE Min({wake[t] : t \in OnDelayedList(list)})

\* The wrap is counted but the lists are not exchanged.
Mut_SwitchDelayedLists(q) == [q EXCEPT !.ovf = (@ + 1) % OverflowRange]

\* taskSWITCH_DELAYED_LISTS
SwitchDelayedLists(q) ==
  LET swapped == [t \in Tasks |-> CASE q.list[t] = "delayed"  -> "overflow"
                                    [] q.list[t] = "overflow" -> "delayed"
                                    [] OTHER -> q.list[t]]
  IN [q EXCEPT !.list = swapped,
               !.ovf  = (@ + 1) % OverflowRange,
               !.next = NextUnblock(swapped, q.wake)]

\* An event list without the tasks of D, the others in their order.
Without(s, D) ==
  LET upTo[i \in 0 .. Len(s)] ==
        IF i = 0 THEN << >>
        ELSE IF s[i] \in D THEN upTo[i - 1] ELSE Append(upTo[i - 1], s[i])
  IN upTo[Len(s)]

\* Tasks whose wake time has come leave the delayed list and their event list.
UnblockDue(q) ==
  LET due == {t \in OnDelayedList(q.list) : q.wake[t] <= q.tick}
      r   == Ready(q, due)
  IN [r EXCEPT !.ev   = [e \in EventLists |-> Without(q.ev[e], due)],
               !.next = NextUnblock(r.list, r.wake)]

\* xTaskIncrementTick with the scheduler running.
IncrementTick(q) ==
  LET n  == (q.tick + 1) % TickRange
      q1 == [q EXCEPT !.tick = n]
      q2 == IF n = 0 THEN SwitchDelayedLists(q1) ELSE q1
  IN IF n >= q2.next THEN UnblockDue(q2) ELSE q2

\* The ticks that xTaskResumeAll makes up for.
CatchUp(q, n) ==
  LET after[i \in 0 .. MaxPended] ==
        IF i = 0 THEN q ELSE IncrementTick(after[i - 1])
  IN after[n]

Aged(n) == [t \in Tasks |-> IF age[t] < 0 THEN -1 ELSE age[t] + n]

Tick ==
  /\ \A t \in Tasks : age[t] + xPendedTicks < MaxAge
  /\ \/ /\ suspender = NoTask
        /\ k' = IncrementTick(k)
        /\ age' = Aged(1)
        /\ UNCHANGED xPendedTicks
     \/ /\ suspender /= NoTask /\ xPendedTicks < MaxPended
        /\ xPendedTicks' = xPendedTicks + 1
        /\ UNCHANGED <<k, age>>
  /\ UNCHANGED <<suspender, pendingReady>>

-----------------------------------------------------------------------------
(* Blocking and waking. *)

\* A task may run unless it is blocked or another has suspended the scheduler.
CanRun(t) ==
  \/ suspender = t
  \/ suspender = NoTask /\ k.list[t] = "ready"

\* prvAddCurrentTaskToDelayedList; "forever" is portMAX_DELAY where allowed.
AddCurrentTaskToDelayedList(q, t, ticks, forever) ==
  LET at == (q.tick + ticks) % TickRange
  IN IF forever THEN [q EXCEPT !.list[t] = "suspended"]
     ELSE IF at < q.tick
       THEN [q EXCEPT !.list[t] = "overflow", !.wake[t] = at]
       ELSE [q EXCEPT !.list[t] = "delayed", !.wake[t] = at,
                      !.next = IF at < @ THEN at ELSE @]

\* vTaskPlaceOnEventList: equal priorities, so behind those already waiting.
PlaceOnEventList(q, t, e, ticks) ==
  AddCurrentTaskToDelayedList([q EXCEPT !.ev[e] = Append(@, t)], t, ticks,
                              ticks = portMAX_DELAY)

\* xTaskRemoveFromEventList on each of the first n tasks of an event list.
Woken(e, n) ==
  {k.ev[e][i] : i \in 1 .. (IF n < Len(k.ev[e]) THEN n ELSE Len(k.ev[e]))}

RemoveFromEventList(e, n) ==
  LET woken == Woken(e, n)
      q     == [k EXCEPT !.ev[e] = SubSeq(@, Cardinality(woken) + 1, Len(@))]
  IN IF suspender = NoTask
     THEN k' = Ready(q, woken) /\ UNCHANGED pendingReady
     ELSE k' = q /\ pendingReady' = pendingReady \cup woken

\* xTaskResumeAll: the pending tasks, then the pended ticks.
ResumeAll ==
  LET r == Ready(k, pendingReady)
      q == IF pendingReady = {} THEN k
           ELSE [r EXCEPT !.next = NextUnblock(r.list, r.wake)]
  IN /\ k' = CatchUp(q, xPendedTicks)
     /\ age' = Aged(xPendedTicks)
     /\ xPendedTicks' = 0 /\ suspender' = NoTask /\ pendingReady' = {}

-----------------------------------------------------------------------------

\* The lists of delayed tasks against the tick count: a task on the delayed
\* list is due strictly later in this turn of the count and not before
\* xNextTaskUnblockTime, one on the overflow list in the next turn.  It is
\* what the assertion in taskSWITCH_DELAYED_LISTS needs (no task is left
\* behind when the count wraps) and what lets xTaskIncrementTick skip the
\* list while the count is below xNextTaskUnblockTime.
DelayListsSound ==
  \A t \in Tasks :
    /\ k.list[t] = "delayed"  => k.tick < k.wake[t] /\ k.next <= k.wake[t]
    /\ k.list[t] = "overflow" => k.wake[t] < k.tick
=============================================================================
