# TLA+ models of the CH32V307 lwIP demo's network path

The repository is a firmware for the CH32V307: FreeRTOS, lwIP and, as its own
code, an Ethernet driver (`ETH_Driver/`), the glue between driver and lwIP
(`LWIP_PORT/`) and a `main` that starts them (`User/`). The rest (`FreeRTOS/`,
`LWIP/`, `Peripheral/`, `Core/`, `Startup/`, `Debug/`) is vendored. This
directory models the firmware's own code where it is concurrent (what the DMA,
the interrupt routine and the tasks do to the state they share) and, below and
above it, the vendored code the network path stands on: the kernel's ticks,
queues and software timer, lwIP's timers, DHCP client and ARP table.

The build as configured (`LWIP_USE_LAN8720A`) uses `eth_driver_RMII.c`; the
models follow that driver, `Phy10M` excepted, which models what is particular to
the other one, `eth_driver_10M.c`. `lwipopts.h` 145 has `LWIP_USE_DHCP` 0, a static
address; `Dhcp` and the DHCP branches of `LinkRmii` (`UseDhcp`) model the other
setting, the one for which the client and its start in `netconf.c` are there.

## 1. Inventory

| Component | State it keeps | Operations | Interacts with |
|---|---|---|---|
| Receive chain (`eth_driver_RMII.c`) | `OWN` bit and frame of each descriptor, `pDMARxSet` | `ETH_RecPeek`, `ETH_RecFree` | DMA (shared descriptors, `DMARPDR`), netif task |
| Transmit chain (`eth_driver_RMII.c`) | `OWN` bit and buffer of each descriptor, `DMATxDescToSet` | `ETH_GetTxBuf`, `ETH_SendFrame` | DMA (`DMATPDR`), whoever sends through lwIP |
| Interrupt (`WCHNET_ETHIsr`) | `DMASR`, its snapshot `int_sta` | one routine | DMA, both semaphores, `DMARPDR` |
| Glue (`ethernetif.c`) | `eth_rx_semaphore`, `eth_tx_semaphore` | `ethernetif_input`, `low_level_input`, `low_level_output`, the two signals | driver, pbuf pool, tcpip_thread mailbox, core lock |
| netif task (`netconf.c`) | `link_was_up`, `dhcp_started` | `lwip_netif_thread` | glue, link poll, lwIP's netif API |
| Link poll (`WCHNET_HandlePhyNegotiation`) | `link_poll_time`, `phy_link_state`, `LinkSta`, `MACCR` | poll, `ETH_Start`, `ETH_Stop` | PHY over SMI, `LocalTime` |
| `LocalTime` | an unsigned 32-bit counter | `WCHNET_TimeIsr` from a FreeRTOS software timer | link poll |
| tcpip_thread (lwIP, as the glue uses it) | mailbox, INPKT messages, pbuf pool, `pbuf_free_ooseq_pending` | `tcpip_inpkt`, dispatch, `pbuf_alloc`, reclaim callback | netif task |
| Core lock (lwIP, `sys_arch.c`) | a recursive mutex | lock, unlock | every sender |
| Start-up (`LwIP_Init`, `main.c`) | how far it has come | creates all of the above in order | everything it has already switched on |
| 10M PHY driver (`eth_driver_10M.c`) | clock of the PHY, `phyLinkReset`, `phyStatus`, polarity and counters of the search, MAC filter | recovery and search (task), `ETH_PHYLink` (interrupt) | netif task, PHY; not in this build |
| FreeRTOS kernel (`tasks.c`, `queue.c`) | tick count, delayed lists, event lists, pended ticks; ring, locks of a queue | tick, block, wake, suspend; send, receive, delay | every task and the interrupt |
| Timer task (`timers.c`) | two timer lists, the command queue | `prvTimerTask` | tick, `LwIP_Init`, `LocalTime` |
| `sys_arch.c` | mailboxes, semaphores, the core mutex | post, fetch, sleep, `sys_now`, ms to ticks | kernel, lwIP |
| lwIP timers (`timeouts.c`) | the sorted list `next_timeout`, `tcpip_tcp_timer_active` | `sys_timeout`, `sys_check_timeouts`, the sleep of tcpip_thread | clock, mailbox, DHCP, ARP, TCP |
| DHCP client (`dhcp.c`) | `struct dhcp`, the shared pcb, the netif's address | start, stop, timers, replies, ARP answers, link-up | server, netif task, application, lwIP timers |
| ARP (`etharp.c`) | `arp_table`, the queues on it, their pool | input, output, query, timer | every sender, DHCP, lwIP timers |

What is hard here is not in any one function. The DMA moves while the interrupt
routine reads; the routine clears from an old snapshot; the netif task holds a
pointer into a DMA buffer while it allocates; a sender waits under the core lock
for a semaphore whose tokens say nothing about the present; the poll compares
times that wrap and are written by another task; start-up switches the interrupt
and the timer on while later stages may still fail; the 10M driver's task and
interrupt write the same globals without a lock; a task that is about to block
races the interrupt that would wake it; tick counts and clocks wrap under
sleeping tasks; replies of the DHCP server arrive late, twice or never, while the
link comes and goes. `PROJECT.json` lists these
places as hazards, each at its line with the properties that watch it.

What makes each component correct:

* chains: the driver's pointer and the DMA's never drift apart, and a buffer is
  worked on by one party at a time;
* reception: frames reach the stack in order and at most once; no pbuf and no
  message is lost; no frame sits in the ring unannounced; a suspended DMA is
  restarted;
* transmission: an accepted frame goes out once and in order; a sender always
  comes back;
* link: the poll keeps its period; the MAC's mode is the PHY's; driver, MAC and
  lwIP come to agree with the wire;
* start-up: it ends, if the PLL locks, and nothing runs before what it needs exists;
* 10M recovery: a PHY that was switched off is switched on again, not before its
  time; without a link the search goes on; the MAC filter does not stay open;
* kernel: no wake-up is lost, a timed call blocks for exactly its time, a queue is
  a mailbox; the software timer is called once for each period, never before;
* lwIP timers: each is armed once, in order, and runs on its beat;
* DHCP: the client is always driven by a timer, holds no lease the server has
  ended (but for rounding) and takes no stale answer, as far as the ids tell answers
  apart, and gets an address;
* ARP: no queue element is lost, no address has two entries, no packet overtakes a
  queued one or stays queued.

## 2. Modules

| Module | Models | Extends |
|---|---|---|
| `DescRing` | the closed chain of descriptors and the shape of its ownership | |
| `EthIsr` | `DMASR`, `WCHNET_ETHIsr`, the two semaphores | |
| `Pools` | what the holders of a pool's elements have of it together | |
| `EthRx` | reception from the DMA to tcpip_thread | `EthIsr`, `DescRing`, `Pools` |
| `EthTx` | transmission from the caller of lwIP to the DMA | `EthIsr`, `DescRing` |
| `LinkRmii` | link poll, netif task's edges, `LocalTime` | |
| `NetStart` | `main`, `LwIP_Init`, `ETH_Init`, with every failure | `LinkRmii` |
| `Phy10M` | link recovery of the internal PHY, task against interrupt | |
| `FrameChannel` | abstract: an in-order, at-most-once channel, with or without loss | |
| `Kernel` | tick, delayed and event lists, suspension of the scheduler | |
| `RtosQueue` | a queue with its locks, and the port's mailbox and sleep on it | `Kernel` |
| `Mailbox` | abstract: a bounded mailbox, which `RtosQueue` implements | |
| `SoftTimer` | the timer task and the start of the `LocalTime` timer | `Kernel` |
| `LwipTimeouts` | lwIP's timer list and the sleep of tcpip_thread | |
| `Dhcp` | the DHCP client, its server, network and restarts | |
| `Etharp` | the ARP table | `Pools` |
| `MCEthRx`, `MCEthTx`, `MCNetStart`, `MCPhy10M`, `MCRtosQueue`, `MCSoftTimer`, `MCLwipTimeouts`, `MCDhcp`, `MCEtharp` | instances for TLC | |
| `Structures_proofs` | lemmas on chains, pools, least elements and induction | `DescRing`, `Pools` |
| `EthRx_proofs`, `EthTx_proofs`, `NetStart_proofs` (with `LinkRmii`), `Phy10M_proofs`, `Dhcp_proofs` | theorems | the module they are named after |
| `Freertos_proofs` | theorems | `Kernel`, `RtosQueue`, `SoftTimer` |
| `Lwip_proofs` | theorems | `Etharp`, `LwipTimeouts` |

### State and steps

**`EthIsr`.** `dmasr` is the set of pending status bits; each register or
semaphore access of the routine is a step (`isrPc`). Tasks run only at
`TaskLevel`, the DMA always. A binary semaphore given twice counts one. The
hardware manual leaves one thing to the silicon: whether a write-1 to `NIS`
while `R` or `T` is pending clears the summary bit. The constant `SummaryHeld`
is that choice, and the runs say which they use.

**`EthRx`.** `own` and `slot` are the descriptors, `dmaPtr` the DMA's position,
`npc` the netif task's. `RecPeekNone`, `RecPeekGood`, `RecPeekBad` are one turn
of `ETH_RecPeek`'s loop; `PbufAllocOne` .. `PbufAllocUnwind` are `pbuf_alloc`
element by element with the empty-pool callback; `RecFree` and `RecFreePoll`
are the two halves of `ETH_RecFree`, the descriptor and then the poll demand;
`InputMsgAlloc` .. `InputError` are `tcpip_inpkt` and the error branch of
`ethernetif_input`. `GiveBack` writes `Status` and the pointer in one step: no
other task reads `pDMARxSet`, and the DMA does not. tcpip_thread fetches,
processes and frees the message in separate steps; what the stack does with a
frame is a choice: free it, keep it for a user (`app`), queue it out of sequence
(`ooseq`). A frame is a record of its number, whether it is good, carries an
error (`err`) or lacks `FS`/`LS` (`seg`), and how many pbufs it needs. The
constant `AutoResume` is the second hardware choice: whether a suspended DMA
looks at its descriptor again when a frame comes in, or only after a write to
`DMARPDR`.

**`EthTx`.** Each sender takes the core lock, runs `low_level_output` and
releases it; the steps are its accesses to descriptors, semaphore and poll
register. Frames are named by the order of their `OWN` bits. A frame that is
dropped is never committed.

**`LinkRmii`.** Every action is one access of the poll or one branch of the
thread's loop; the timer task and the wire interleave. `lag` counts timer
periods within one turn of the netif task and bounds it by `MaxLag`; `downFor`
keeps a lost link down for `MinDown` timer periods; `unpolled` is a history
variable with the true time since the last poll. `ETH_EnableMacFilter` clears
bits that this driver never sets, and `ip_printed` only prints: both are left out.
An SMI read that times out returns 0 (`SmiRead`), which the poll takes for a
register value: of `BSR` a link that is down, of `PSCSR` the mode `ZeroMode`.
`guessed` remembers that the MAC's mode comes from such a read.

**`NetStart`.** `boot` is the stage of the netconf task. Each stage is one action
that succeeds or fails: a failed `xTaskCreate` in `main` and a missing timer go
unnoticed, a missing semaphore or mailbox asserts, an error of `netif_add` ends
`LwIP_Init`, a netif task that cannot be created is reported and start-up still
ends. `StartClock` is `ETH_Init` up to `ETH_SetClock`, which then spins on `PLL3RDY`
without a limit (`PllWait`); the flag (`pllReady`) is the hardware's and may never
come (`PllLock`). The two reset waits after it count down one poll at a time
(`ResetWait`). The timer
and the netif task of `LinkRmii` run from the stage that created them.

**`Phy10M`.** `tpc` is the netif task's place, cut wherever the interrupt or the
timer may come between two accesses to shared state; the interrupt has two
steps, `ETH_PHYLink` and the clearing of `PHYLINK`. Times are ages, `LocalTime`
minus a stamp, capped above every limit. `ReadTime` and `Compare` are the two
loads of a comparison: a stamp the interrupt writes between them is newer than
the loaded time and `Elapsed` then holds, as the unsigned difference in the code
is huge. Register reads return anything, except that `ETH_PHYLink` sees the
PHY's link bit. `neg` holds the globals of the negotiation, one field each.
External assumptions: a PHY that is reset or without its clock loses its link at
once and raises `PHYLINK`, and needs `MinDown` timer periods for a new one. Left
out: duplex, the branch under `ReInitMACFlag` (nothing sets it) and `NIS`, which
`EthIsr` treats. That task and interrupt share the SMI registers, so that an
interrupted read returns the interrupt's register, is within "anything".

**`Kernel`.** `k` holds what one tick changes: the count, its overflows,
`xNextTaskUnblockTime`, each task's list and wake time, and the event lists. Every
application task has priority 5, so an event list is first in, first out, and any
ready task may run next. The tick count starts anywhere and wraps at `TickRange`.
While a task has the scheduler suspended, ticks are pended and woken tasks wait in
`pendingReady`; `ResumeAll` makes up for both. `age` is a history variable, the
ticks since a timed call began.

**`RtosQueue`.** A blocking `xQueueReceive` or `xQueueGenericSend` is the loop of the
code: the critical section at its head (`Transfer`, `Fail`, `NoteTime`), the
suspension with the queue's lock and the check of the timeout (`LockQueue`), the
second look (`CheckAgain`), the entry in the lists (`Place`), `UnlockQueue`, `Resume`
and, when the time is up, `Recheck`. The interrupt's post and the tick come between
any two. Millisecond timeouts are divided by `TickMs`, rounded down. The driver's
binary semaphores are this code with `Length = 1` and one message.

**`SoftTimer`.** The timer task in six steps from `prvGetNextExpireTime` to
`prvProcessReceivedCommands`, with the current and the overflow list; `Missed` is the
loop of `prvReloadTimer`, written as the number of turns it takes. `owed` is a
history variable: ticks since `xTimerStart` that no callback has accounted for.

**`LwipTimeouts`.** `next_timeout` is the list, `now` the clock, which wraps. tcpip_thread
decides between its timers and the mailbox (`Again`), sleeps (`wait`, in ticks), runs
a message or one expired timer after another. `busy` bounds the ticks a turn of its
loop may take. Another task may start the TCP timer during the sleep (`OtherTask`).

**`Dhcp`.** The functions of `dhcp.c` are operators that take the client `c` and return
it, with what they send; a step is a handler of the core (a timer, a reply, a call)
applied to `c`. An allocation may fail in every one. The fine timer's countdown is a
timer that may fire while it is armed; the coarse timer and the lease run on half
minutes. The server answers, refuses or is silent; replies are lost, repeated,
late. A new transaction draws any id, as `LWIP_RAND()` does (`cc.h` 67, `dhcp.c`
1914), and `dhcp_start` puts 0 in its place: nothing keeps an id from being one that a
message underway carries. `fresh` is a history variable: no id taken so far was. An
option of an ACK may be absent (`NotGiven`) or 0, which is a value; 7/8 of a lease and
its rounding wrap at `U32Range`. `MaxTrouble` bounds what need not happen: faults,
ids that are not fresh, link-ups, calls of the application.

**`Etharp`.** Each operation runs under the core lock and is one action. A queue is its
length. History fields of an entry remember the MAC last heard, the re-requests and
whether the entry was in steady use.

Definitions named `Mut_...` state a fault someone could plausibly introduce in
the definition that follows them. No specification uses them; they are there to
show that the properties can fail.

## 3. Runs

| Run | Bounds | Shows |
|---|---|---|
| `rx` | 2 descriptors, 3 frames, pool of 2, one message, mailbox of 1, frames of 1 or 2 pbufs or cut, `SummaryHeld` and `AutoResume` false | `RingShape`, `DmaStaysAway`, `PoolsConserved`, refinement of `FrameChannel` (`DeliversInOrder`), `DescriptorReturns`, `GoodFrameResumes` |
| `rx_board` | 2 descriptors, 5 frames, pool 1 < messages 2 = mailbox 2 | `InputNeverRefused`, `NoLostWakeup` with `SummaryHeld` |
| `tx` | 3 descriptors, 2 senders, 4 frames, `SummaryHeld` false | `TxRingShape`, `BufferExclusive`, refinement of `FrameChannel` without loss (`SendsInOrder`), `SenderReturns`, `CommittedIsSent` |
| `tx_token` | 2 descriptors, 1 sender | `TokenMeansDescriptor` fails |
| `net_start` | counter modulo 32 in steps of 3, period 5, lag 2, two losses, one SMI timeout, two modes, 3 and 2 polls of the resets, a PLL that may never lock | `StartInv` (`RunsOnWhatItNeeds`, `PollKeepsPeriod`), `ModeAgrees`, `StartEnds`, `Supervised` |
| `phy_search` | periods of 1, off for 2, lag 1, limits 1 < 2 < 3, counters modulo 5, two link-ups | `SearchInv` (`CountersInReach`, `FilterHasOwner`), `OffNotForgotten`, `SearchRuns`, `StaysOff`, `PhyComesBack` |
| `phy_drop` | limits of 1 and 2, one link-up | `DropIsReported` fails |
| `queue` | 3 tasks, 2 slots, ticks modulo 4, timeouts of 2 ticks and for ever, 1 pended tick | `QueueInv` (`DelayListsSound`), `NoLostWakeup`, `BlockedForTimeout`, refinement of `Mailbox` |
| `soft_timer` | ticks modulo 11, period 3, up to 7 ticks late, 2 pended | `TimerInv` (`NeverEarly`), `SleepsUntilExpiry`, `KeepsTime` |
| `timeouts` | two cyclic timers of 5 and 8 ms and the TCP timer of 3, ticks of 2 ms, clock modulo 32, turns of 2 ticks | `ListInv` (`EachTimerOnce`, `ListSorted`), `CyclicOnTime`, `CyclicSpacing` |
| `dhcp` | two addresses, one in use, leases of 150 s, 2 ids, 3 faults | `ClientInv` (`PcbCounted`, `AlwaysDriven`), `LeaseHeld`, `NotADeclinedAddress`, `GetsLease` |
| `etharp` | 3 addresses, 2 entries, 3 elements for queues of 2, ages to 5 | `TableInv` (`ElementsConserved`, `OneEntryPerAddress`), `StableIsCurrent`, `SteadyUseAsks`, `QueueEmpties` |

Why the bounds are enough: the frames exceed the descriptors, so each pointer
wraps and the chain is met full and empty; every pool is small enough to run out
with the others in every state; in `rx_board` the sizes keep the order of
`lwipopts.h` (10 pbufs < 12 messages < 16 slots) with the least margin. In
`net_start` the modulus is no multiple of the step, so the wrap is met at ever
other phases, as with 2^32 and 10 ms. `MaxFrames` and `MaxFlaps` bound the
behaviours; `RingShape` and its companions are proved without them. In `phy_search` the
limits keep the order of the code's (4 < 15 < 100) and are small, so that every
counter meets its limit in every polarity and has room to pass it, and two
link-ups let a second interrupt fall into the recovery from the first.
In `queue` the timeout is half of the tick range, so a call meets the wrap at every
point; the third task posts, sleeps and takes the slot another was woken for. In
`soft_timer` the period does not divide the range and the lateness exceeds two
periods. In `timeouts` one interval and the TCP timer's are no multiple of the tick, and the
clock's range is the least that `TimeoutsAssumption` allows.
In `dhcp` a lease of 150 s is rounded up, and three faults are enough for a late
answer to a transaction that was declined, refused or restarted. Two ids, zero among
them, are enough for both a fresh one and one in use to be drawn in every state; with
`fresh` dropped from `LeaseHeld` or `NotADeclinedAddress` the run finds either
violated. Its `U32Range` is wide enough for the lease, so that renewal and rebinding
come one after the other; that nothing rests on it is what the theorems say, which
hold for every range, wraps included. In `etharp` there
are more addresses than entries, fewer elements than the queues may hold, and two
re-requests fit before an entry expires.
`CHECK_DEADLOCK FALSE` in `dhcp`: with the link down or the client off, once the
bound is spent, nothing need happen.
`CHECK_DEADLOCK FALSE` in `net_start`: a start-up that failed early, or waits for
the PLL, leaves nothing to run.

`ModeAgrees` needs `MinDown * TimerStep >= Period + 2 * MaxLag * TimerStep`, and
the run uses the least such `MinDown`: with one smaller the property fails. On
the board, with a netif task that keeps up, that is about 70 ms; a loss
shorter than that goes unseen, because the latched first read of `BSR` is thrown
away, and the MAC keeps its old speed and duplex. A `PSCSR` read that times out
leaves the MAC at 10 Mbit/s half duplex until the link is next lost; `ModeAgrees`
and `Supervised` except exactly that case.

`CyclicOnTime` speaks of the cyclic timers only: a TCP timer that another task
starts while tcpip_thread sleeps is late by the rest of the sleep, since nobody
wakes the thread (a sleep is at most the 500 ms of the fine DHCP timer, the
shortest of the cyclic timers this configuration starts).

### Fairness

* `RxFairness`: the two tasks share a priority and the tick slices between them,
  so a ready task runs again and again (strong fairness, because every interrupt
  disables them for a while); the 10 ms wait ends; a pending interrupt is
  served; a DMA transfer, once begun, completes. No frame need ever arrive.
* `TaskFairness` of `EthTx`: the same for each sender, and strong fairness of
  `LockCore`: a sender that finds the lock free again and again gets it. A FreeRTOS
  mutex promises a little less: it wakes its longest waiter, but a running sender of
  the same priority may take the mutex before the woken one does, so that `SenderReturns`
  also rests on no sender being overtaken for ever. Nothing is assumed of the DMA, so
  it covers a dead link; `CommittedIsSent` takes `LinkFairness` as its hypothesis.
* `StartFairSpec`: the netconf task goes on, and the netif task and the timer,
  where they exist, turn and expire. `Supervised` claims nothing of a board
  without them. Of the PLL nothing is assumed: that it locks is the hypothesis of
  `StartEnds` (`PllLocks`), without which the run finds it violated. The spin has no
  delay, but nothing else of the network path runs yet, and the tick slices it
  against tasks of its priority.
* `PhyFairSpec`: a pending interrupt is served, the netif task turns, the timer
  expires. Of the PHY nothing is assumed.
* `TimerFairSpec`: the tick goes on; the timer task and netconf, of one
  priority with whatever else is ready, are scheduled again and again.
* `FairSpec` of `Dhcp`: the two timers are cyclic timers of tcpip_thread, which
  `LwipTimeouts` shows to keep running; a message that is not lost is served, and
  the server answers. `GetsLease` rests on that and on the bounded faults.
* `FairSpec` of `Etharp`: `etharp_tmr` keeps running. No answer need ever come.

### Findings

Two runs show a statement of the sources that the code does not keep:

* `tx_token`: the head of `ethernetif.c` (lines 10-11) says `low_level_output`
  waits "instead of dropping the frame"; a token left from an earlier completion
  ends the wait at once and the frame is dropped.
* `phy_drop`: `netconf.c` 78-79 says the task "recovers a dropped link";
  `WCHNET_ETHIsr` of the 10M driver clears `PHYLINK` after `ETH_PHYLink` has read
  the PHY (line 790), so a drop in between is swallowed, and with `phyStatus` set
  nothing looks at the link again.

### Observations

Met while modelling, without a run of their own:

* The comment at `eth_driver_RMII.c` 466-468 leaves the restart of a suspended DMA to
  `ETH_RecFree`; frames discarded inside `ETH_RecPeek` go back without a poll demand.
  It bites only with `AutoResume` false. A good frame that is already in the ring has
  the DMA restarted (`GoodFrameResumes`). A DMA that is suspended with only bad frames in
  the ring stays so once they are discarded: it receives no good frame that could restart
  it, unless a pending interrupt still writes `DMARPDR`.
* "Drain everything the DMA received" (`ethernetif.c` 183) ends at the first failed
  allocation; the 10 ms timeout picks up the rest (`DescriptorReturns`).
* `netconf.h` 26-27 says DHCP is started "on the first link-up"; it is started on
  each, `dhcp_started` being cleared on every link-down.
* `netconf.h` 30 says `LwIP_DHCP_Stop` releases the address; a client that is being
  restarted, or rebooting after a link-up, has its old address and keeps it.
* `dhcp_handle_nak` leaves the lease timers running. They may take the next
  transaction from REQUESTING to RENEWING, and its ACK is then bound without the ARP
  check that `opt.h` 927 promises.
* `etharp.c` 64 says re-requests begin a minute before an entry expires; the
  constants say 30 and 15 seconds.

## 4. Proofs

Every invariant the passing runs check, and every action property and refinement
among them, is also a theorem, for all values of the constants; the liveness
properties stay with TLC.

| Module | Theorem | Property | Under |
|---|---|---|---|
| `EthRx_proofs` | `RxTypeOK`, `RxRingShape`, `RxDmaStaysAway` | `TypeOK`, `RingShape`, `DmaStaysAway` | |
| | `RxNoLostWakeup` | `NoLostWakeup` | `SummaryHeld`, no frame longer than a buffer |
| | `RxDeliversInOrder` | refinement of `FrameChannel` | |
| | `RxPoolsConserved` | `PoolsConserved` | |
| | `RxInputNeverRefused` | `InputNeverRefused` | fewer pbufs than messages and than mailbox slots |
| `EthTx_proofs` | `TxTypeOK`, `TxRingKept`, `TxBufferExclusive` | `TypeOK`, `TxRingShape`, `BufferExclusive` | |
| | `TxSendsInOrder` | refinement of `FrameChannel` without loss | |
| `NetStart_proofs` | `StartKept` | `StartInv` | |
| | `LinkModeAgrees` | `ModeAgrees` | `LongDown` |
| `Phy10M_proofs` | `PhyOffPending`, `PhySearchRuns` | `OffNotForgotten`, `SearchRuns` | |
| | `PhySearchInv` | `SearchInv` | `MaxLag < MinDown` |
| | `PhyStaysOff` | `StaysOff` | |
| `Freertos_proofs` | `QueueKept` | `QueueInv` | |
| | `QueueNoLostWakeup` | `NoLostWakeup` | |
| | `QueueBlockedForTimeout` | `BlockedForTimeout` | |
| | `QueueIsMailbox` | refinement of `Mailbox` | |
| | `TimerNeverEarly`, `TimerWakesInTime` | `TimerInv`, `SleepsUntilExpiry` | |
| `Dhcp_proofs` | `DhcpClientInv` | `ClientInv` | |
| | `DhcpNotADeclinedAddress` | `NotADeclinedAddress` | `fresh` (within the property) |
| | `DhcpLeaseHeld` | `LeaseHeld` | `fresh` (within the property), `LongLeases` |
| `Lwip_proofs` | `ArpTableInv`, `ArpStableIsCurrent`, `ArpSteadyUseAsks` | `TableInv`, `StableIsCurrent`, `SteadyUseAsks` | |
| | `TimerListWhole`, `CyclicNeverLate` | `ListInv`, `CyclicOnTime` | |
| | `CyclicKeepsBeat` | `CyclicSpacing` (action property) | |

The hypotheses in the last column are what the board has, `fresh` excepted, and each is
met by the run of its property. `fresh`, that no id was taken while a message underway carried
it, is a hypothesis on `rand()`: of 2^31 numbers one of the few underway is not drawn.
`dhcp.c` does not see to it, and both properties fail without it. A build with `seg`
frames or a summary bit that a write clears can lose a wake-up, which is why `rx` does not check `NoLostWakeup`; `lwipopts.h`
has 10 pbufs, 12 messages and 16 slots. `LongDown` is the condition on a lost
link discussed in section 3, `LongLeases` asks for leases of at least half a
coarse period (30 s; `dhcp_bind` makes a whole minute of a shorter one),
and `MaxLag < MinDown` says that a PHY needs longer to negotiate than the task for
a turn of its loop.

### The inductive invariants

Hardly any of these properties is inductive as it stands. The proofs add what
follows. Every actor or operation has a lemma,
with a step for each action and each conjunct it can disturb.

**Rings.** `RingInv` adds `Control` to `TypeOK` and `RingShape`: a DMA that is
writing owns its descriptor, or its hand-over could fill one that is already full;
the driver holds the descriptor it gives back; the message tcpip_thread runs is
one. On the transmit side (`TxInv`) whoever is between lock and unlock is the
lock's holder: so at most one sender is past `ETH_GetTxBuf`, and `FillPoint`
moves once per frame. Both rest on `ShapeFill` and `ShapeEmpty` of
`Structures_proofs`: filling at the producer's end and emptying at the consumer's
keep the shape, with and without the wrap, for a chain that becomes empty, full or
neither.

**Order.** `RxOrder` says of each place a frame passes (chain, copy, mailbox,
tcpip_thread) that it holds only later frames than the places after it; `TxOrder`
that the buffers the DMA owns hold consecutive numbers from the one sent last to
the one committed last. Every step then is a step of `FrameChannel` or leaves it
alone.

**Pools.** A sum over holders is stated as the size of a set (`Held` of `Pools`:
the i-th element of a holder is a pair), because the prover has lemmas on
cardinality and none on folds. `PoolInv` adds to conservation that a frame has one
holder and that only `pbuf_alloc` has part of a chain. `AdmitInv` adds that every
frame has a pbuf and that one call of `pbuf_free_ooseq` at most is under way: then
the frames that have a message or a slot are fewer than the pbufs.

**Wake-up of the netif task.** `WakeInv` of `EthRx_proofs`: the routine has given
the semaphore before it clears `R`.

**Start-up and link.** `StartedInv` relates each stage to what exists by then, and
the true time since the last poll to `LocalTime` minus its stamp, equal up to one
turn of the modulus. `EdgeInv` says that a loss the driver has not seen is younger
than its last poll, so that with `LongDown` no link comes back unseen.

**10M PHY.** `PhyInv` names the task's place: the task clears `phyLinkReset` before it
starts the clock and `phyStatus` two steps after, and the interrupt, which may
come between, does not move it. `InReach` and `ResetHolds` say which counter may
pass its limit and that no link comes between a reset and the new parameters;
`OffInv` that the loaded time is never older than the stamp it is compared with.

**Kernel and queue.** `HeldInv` joins the types, `Sound` (`DelayListsSound` of a kernel
record, so that it can be carried through the pended ticks of `xTaskResumeAll` one
by one), who has the scheduler suspended and the queue locked (`LockInv`), and who
is in which event list (`EventInv`). `CallInv` relates the locals of a call to its
place. For the time, `TimeInv`: the ticks since a timed call entered and the rest it
is blocked for add up to what was asked, with the overflow count telling a whole
turn from none. For the wake-ups, `WakeInv`: tasks that will look once more, plus the
posts in the lock count, are as many as there are messages; and a task about to
block has found the queue empty, what has come since being in the lock count. That
is the argument for checking, locking, checking again and only then blocking. For
the mailbox, `RingInv`: the write pointer is the messages' number behind the read
pointer.

**The timer task.** `DaemonInv` joins the types, the place of the timer task
(`PlaceInv`: only it suspends the scheduler, and what it has read of the timer lists
is still so) and of the one start command (`CommandInv`: not sent, in the queue, or
carried out) with `ClockAt`: the ticks owed are those since the value the timer, the
command or the stamp carries, the list the timer is in tells which turn of the
tick count that value belongs to, and a sleep ends before the period does. Ticks
pended while the scheduler is suspended are owed but not yet on the clock, so
`ClockAt` is carried over them one by one. `ExpiresIs` shows that the comparisons of
`prvInsertTimerInActiveList` are a test for a whole period on the wrapping count, and
`MissedIs` what the loop of `prvReloadTimer` leaves.

**DHCP.** Each operator of `dhcp.c` has a lemma on the client it returns (`Outcome`).
`DriveInv`: the pcb is held while the client is on, and every state that waits has
its timer; and, if every id was fresh, the transaction's id is the one drawn last, or
it is the zero of `dhcp_start`, with no address in hand and no message underway that
carries it (`OwnId`; a `DISCOVER` that got no pbuf leaves it so). `CurrentInv` adds, if
every id was fresh, that no answer underway with the current id offers an address that
was given back: an id that is taken is on no message of the wire, so an answer that
carries it is to what has been sent since. `LeaseInv` adds, under the same condition, that
what the client's counters leave of a lease is not more than what the server has left
of it, counted in half periods. The pcb, the timers and the types rest on no such
condition.

**ARP.** `ArpInv` adds to the table's conservation what one entry owes (`EntryInv`): a
stable entry has an empty queue and the MAC last heard, and a request brings two
periods of rest.

**lwIP's timers.** Times wrap, so the proof measures them from the present: `Lead`
is the signed distance of a time from `now`, and all leads in the list are within half
the clock's range of each other (`Leads`), where `TIME_LESS_THAN` compares like `<`.
`TimeoutsInv` says that the list holds exactly the timers that are armed, in the
order of their leads, and of each entry (`EntryOk`) that it is ahead by no more than
the longest interval and late by no more than `Tardy` allows: the ticks of this turn;
those of the last one, unless the thread has found nothing due since; and for a TCP
timer started during a sleep the rest of that sleep. The sleep ends before the first
cyclic entry, and each cyclic entry lies an interval and at most two turns after the
last due time. `InsertIs` is the sorted insertion of `sys_timeout_abs`, `RearmIs` the
two ways `lwip_cyclic_timer` puts a timer back.

**Recursion.** `Without` and `CatchUp` of `Kernel` and `Started` of `LwipTimeouts` are recursive functions. That they
have a value, and what it is, is proved by the least counterexample (`LeastExists`,
`SetInduction` of `Structures_proofs`), with sets in place of the predicates that
the library's induction theorems take.

Assumptions: `NAssumption` (`ETH_RXBUFNB` and `ETH_TXBUFNB` are at least 2);
`RxAssumption`, `TxAssumption`, `StartAssumption`, `EtharpAssumption`,
`SummaryHeldAssumption` (types, positive sizes, special values that are no member of a set, `Unicast < MaxAge`);
`LinkAssumption` (a period and two turns fit in the range of `LocalTime`);
`PhyAssumption` (limits below the counters' range, `1 < TRLimit`, a turn shorter than
the wait); `DhcpAssumption` (more tries than a reboot takes, an id, leases that end);
`KernelAssumption` (finitely many tasks, ranges of at least 2); `QueueAssumption` (timeouts
below `portMAX_DELAY`); `TimerAssumption` (a period and the lateness of the timer task
fit in the range of the tick count); `TimeoutsAssumption` (two intervals and two turns
of the loop are less than half the range of `sys_now`: 25 days, where the longest
interval is a minute; beyond it `TIME_LESS_THAN` cannot tell past from future). `MaxFrames`, `MaxFlaps`, `MaxTrouble`, `MaxPended` and the like are
arbitrary, so they bound no theorem; `MaxAge` bounds a timed call by one turn of the
tick count, 99 days on the board, beyond which the code's overflow count itself
cannot tell.

Only model-checked: liveness (`DescriptorReturns`, `GoodFrameResumes`, `SenderReturns`,
`CommittedIsSent`, `StartEnds`, `Supervised`, `PhyComesBack`, `KeepsTime`, `GetsLease`,
`QueueEmpties`), which is out of the prover's reach.

## 5. Not modelled

* `EthRx` and `EthTx` begin where a start-up that succeeded ends.
* The FIFO flush in `ETH_Start` and `ETH_Stop` may lose a frame the DMA has
  fetched; `EthTx` is one period of an uninterrupted link, up or dead.
* `LINK_STATS`, `printf`, `netif` constants, GPIO and clock registers (the
  wait for the PLL is in `NetStart`).
* `MACRAW_Tx` (nothing calls it) and the start-up of the 10M driver. Its descriptor
  chains are, line by line, those of the other driver.
* Of FreeRTOS: priorities and their inheritance, creation and deletion of tasks and
  queues, `heap_4.c`, event groups, stream buffers, co-routines, the port's assembly.
* Of `sys_arch.c`: creation and deletion, the recursion of the core mutex.
* Of lwIP: IP, TCP, UDP, ICMP and DNS processing, `mem.c` and `memp.c`, the netconn and
  socket layers. The firmware uses them as shipped; each is a system of its own, and
  their state is too large to be translated faithfully beside this code. Of `dhcp.c`,
  infinite leases (`0xFFFFFFFF`), options other than the lease times, and `dhcp_inform`.
* The register-level peripheral library, start-up code, fault handlers.

## 6. Plan

1. (done) `DescRing`, `EthIsr`, `EthRx`, `EthTx`, `LinkRmii`, `FrameChannel`,
   `NetStart`, `Phy10M`; the ring proofs and the first of `Phy10M`.
2. (done) SMI read timeouts in `LinkRmii`; `Kernel`, `RtosQueue`, `Mailbox`,
   `SoftTimer`, `LwipTimeouts`, `Dhcp`, `Etharp`.
3. (done) Proofs: every invariant, action property and refinement the passing runs
   check.
4. `EthNet`: `EthRx` and `EthTx` over one `EthIsr` with `LinkRmii`'s stop and
   start, for the FIFO flush and the tokens across link changes.
