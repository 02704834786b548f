------------------------------ MODULE NetStart ------------------------------
(***************************************************************************)
(* From power-on to link supervision: main creates the netconf task, which *)
(* runs LwIP_Init and deletes itself.  Each stage may fail the way the     *)
(* code lets it (no memory, a PLL that never locks, a MAC or a PHY that    *)
(* never leaves its reset), and whatever an earlier stage has switched on, *)
(* the interrupt, the timer, the netif task, runs beside the later ones.   *)
(* The netif task and the timer are those of LinkRmii.                     *)
(***************************************************************************)
EXTENDS LinkRmii

CONSTANTS
  MacTries,   \* polls of the MAC's reset bit, 10000 in the code
  PhyTries    \* polls of the PHY's reset bit, 1000 in the code

ASSUME StartAssumption ==
  MacTries \in Nat \ {0} /\ PhyTries \in Nat \ {0}

VARIABLES
  boot,      \* the stage the netconf task is in
  tries,     \* the local timeout of the two reset loops
  pllReady,  \* RCC_FLAG_PLL3RDY, set by the hardware
  sems,      \* both semaphores of ethernetif.c exist
  irqOn,     \* NVIC_EnableIRQ(ETH_IRQn) done
  timerOn,   \* the localtime timer runs
  tcpipOn,   \* mailbox, core lock and tcpip_thread exist
  netifOk,   \* netif added, default and up
  taskOn     \* the netif task exists

startVars == <<boot, tries, pllReady, sems, irqOn, timerOn, tcpipOn, netifOk, taskOn>>

\* Where start-up ends, and where it stops short.
Ended == {"done", "noTask", "assert", "noNetif"}

StartTypeOK ==
  /\ TypeOK
  /\ boot \in {"main", "sync", "clock", "pll", "mac", "phy", "irq", "timer",
               "tcpip", "netif", "task"} \cup Ended
  /\ tries \in 0 .. MacTries + PhyTries
  /\ {pllReady, sems, irqOn, timerOn, tcpipOn, netifOk, taskOn} \subseteq BOOLEAN

\* Power-on; LocalTime and the globals of the driver are 0.
StartInit ==
  /\ Init
  /\ boot = "main" /\ tries = 0 /\ pllReady = FALSE
  /\ sems = FALSE /\ irqOn = FALSE /\ timerOn = FALSE /\ tcpipOn = FALSE
  /\ netifOk = FALSE /\ taskOn = FALSE

-----------------------------------------------------------------------------
(* main and LwIP_Init. *)

\* main ignores whether the netconf task could be created.
Main ==
  /\ boot = "main"
  /\ boot' \in {"sync", "noTask"}
  /\ UNCHANGED <<vars, tries, pllReady, sems, irqOn, timerOn, tcpipOn, netifOk, taskOn>>

\* ethernetif_sync_init: both semaphores, or configASSERT stops everything.
SyncInit ==
  /\ boot = "sync"
  /\ sems' \in BOOLEAN
  /\ boot' = IF sems' THEN "clock" ELSE "assert"
  /\ UNCHANGED <<vars, tries, pllReady, irqOn, timerOn, tcpipOn, netifOk, taskOn>>

\* ETH_Init up to ETH_SetClock, which switches PLL3 off, sets it and switches it
\* on again: its flag is down.
StartClock ==
  /\ boot = "clock"
  /\ boot' = "pll" /\ tries' = MacTries /\ pllReady' = FALSE
  /\ LinkSta' = FALSE /\ phy_link_state' = FALSE
  /\ UNCHANGED <<phyVars, smiVars, timeVars, link_poll_time, macOn, macMode, bsr, nifVars,
                 npc, sems, irqOn, timerOn, tcpipOn, netifOk, taskOn>>

\* The PLL locks, perhaps never.
PllLock ==
  /\ boot = "pll" /\ ~pllReady
  /\ pllReady' = TRUE
  /\ UNCHANGED <<vars, boot, tries, sems, irqOn, timerOn, tcpipOn, netifOk, taskOn>>

\* while(RESET == RCC_GetFlagStatus(RCC_FLAG_PLL3RDY)); has no limit and no
\* delay: a turn that finds the flag down changes nothing.  Then the MAC is
\* reset.
PllWait ==
  /\ boot = "pll" /\ pllReady
  /\ boot' = "mac"
  /\ UNCHANGED <<vars, tries, pllReady, sems, irqOn, timerOn, tcpipOn, netifOk, taskOn>>

Mut_ResetWait(stage, next, count) ==  \* fault: no limit, the count wraps
  /\ boot = stage
  /\ \E busy \in BOOLEAN :
       /\ boot' = IF busy THEN stage ELSE next
       /\ tries' = IF ~busy THEN count ELSE IF tries = 0 THEN MacTries ELSE tries - 1
  /\ UNCHANGED <<pllReady, sems, irqOn, timerOn, tcpipOn, netifOk, taskOn>>

\* One turn of do { vTaskDelay(10); if(!--timeout) break; } while(busy): given
\* up, done, or once more.
ResetWait(stage, next, count) ==
  /\ boot = stage
  /\ \E busy \in BOOLEAN :
       LET over == tries = 1 \/ ~busy
       IN  /\ boot' = IF over THEN next ELSE stage
           /\ tries' = IF over THEN count ELSE tries - 1
  /\ UNCHANGED <<pllReady, sems, irqOn, timerOn, tcpipOn, netifOk, taskOn>>

\* The MAC's reset; then ETH_RegInit programs the MAC and resets the PHY.
MacWait ==
  /\ ResetWait("mac", "phy", PhyTries)
  /\ phyUp' = (phyUp /\ boot' = "mac")
  /\ downFor' = IF phyUp /\ ~phyUp' THEN 0 ELSE downFor
  /\ UNCHANGED <<phyMode, flaps, smiVars, timeVars, drvVars, nifVars, npc>>

\* The PHY's reset; then auto-negotiation is restarted.
PhyWait ==
  /\ ResetWait("phy", "irq", 0)
  /\ UNCHANGED vars

Mut_StartIrq ==  \* fault: the poll stamp is the present
  /\ boot = "irq"
  /\ boot' = "timer"
  /\ link_poll_time' = LocalTime
  /\ irqOn' = TRUE
  /\ UNCHANGED <<phyVars, smiVars, timeVars, phy_link_state, LinkSta, macOn, macMode, bsr,
                 nifVars, npc, tries, pllReady, sems, timerOn, tcpipOn, netifOk, taskOn>>

\* The rest of ETH_Init: descriptors, the poll stamp, the interrupt.
StartIrq ==
  /\ boot = "irq"
  /\ boot' = "timer"
  /\ link_poll_time' = (LocalTime - Period) % Modulus
  /\ irqOn' = TRUE
  /\ UNCHANGED <<phyVars, smiVars, timeVars, phy_link_state, LinkSta, macOn, macMode, bsr,
                 nifVars, npc, tries, pllReady, sems, timerOn, tcpipOn, netifOk, taskOn>>

\* Without memory for the timer LwIP_Init goes on without one.
StartTimer ==
  /\ boot = "timer"
  /\ boot' = "tcpip"
  /\ timerOn' \in BOOLEAN
  /\ UNCHANGED <<vars, tries, pllReady, sems, irqOn, tcpipOn, netifOk, taskOn>>

\* tcpip_init asserts its mailbox, mutex and thread.
StartTcpip ==
  /\ boot = "tcpip"
  /\ tcpipOn' \in BOOLEAN
  /\ boot' = IF tcpipOn' THEN "netif" ELSE "assert"
  /\ UNCHANGED <<vars, tries, pllReady, sems, irqOn, timerOn, netifOk, taskOn>>

\* netifapi_netif_add, set_default, set_up; on an error LwIP_Init returns.
NetifAdd ==
  /\ boot = "netif"
  /\ netifOk' \in BOOLEAN
  /\ boot' = IF netifOk' THEN "task" ELSE "noNetif"
  /\ UNCHANGED <<vars, tries, pllReady, sems, irqOn, timerOn, tcpipOn, taskOn>>

\* The netif task, or a message; the netconf task deletes itself.
StartTask ==
  /\ boot = "task"
  /\ boot' = "done"
  /\ taskOn' \in BOOLEAN
  /\ UNCHANGED <<vars, tries, pllReady, sems, irqOn, timerOn, tcpipOn, netifOk>>

Netconf ==
  \/ Main \/ SyncInit \/ StartClock \/ PllWait \/ MacWait \/ PhyWait
  \/ StartIrq \/ StartTimer \/ StartTcpip \/ NetifAdd \/ StartTask

-----------------------------------------------------------------------------

\* What start-up switched on.
Timer == timerOn /\ TimeIsr /\ UNCHANGED startVars

Task == taskOn /\ NetifTask /\ UNCHANGED startVars

Phy == (PhyLose \/ PhyLink) /\ UNCHANGED startVars

StartNext == Netconf \/ PllLock \/ Timer \/ Task \/ Phy

StartSpec == StartInit /\ [][StartNext]_<<vars, startVars>>

\* The tasks run and the timer, once started, expires again and again; nothing
\* is assumed of the PLL.
StartFairSpec ==
  /\ StartSpec
  /\ WF_<<vars, startVars>>(Netconf)
  /\ WF_<<vars, startVars>>(Task)
  /\ WF_<<vars, startVars>>(Timer)

-----------------------------------------------------------------------------
(* Properties. *)

\* "RX/TX semaphores must exist before ETH_Init() enables the ETH ISR": the
\* interrupt finds its semaphores, the netif task its netif and lwIP, whichever
\* stages failed.
RunsOnWhatItNeeds ==
  /\ irqOn => sems
  /\ taskOn => sems /\ irqOn /\ tcpipOn /\ netifOk

\* What holds from power-on to supervision.  PollKeepsPeriod takes in the
\* first look ("poll the link immediately on the first loop iteration"): the
\* timer may have run while the later stages went on.
StartInv == StartTypeOK /\ RunsOnWhatItNeeds /\ PollKeepsPeriod

\* The PLL locks whenever ETH_SetClock waits for it: nothing in the code sees to
\* that.
PllLocks == [](boot = "pll" => <>pllReady)

\* If the PLL locks, start-up ends, even with a MAC and a PHY that never leave
\* their reset; its wait is the only one of ETH_Init without a limit.
StartEnds == PllLocks => <>(boot \in Ended)

\* Once the wire stays as it is, a board whose timer and netif task came up
\* has driver, MAC and lwIP agree with it for good.
Supervised == <>[](timerOn /\ taskOn => Agree)
=============================================================================
