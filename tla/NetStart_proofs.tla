--------------------------- MODULE NetStart_proofs ---------------------------
(***************************************************************************)
(* Start-up and link supervision with the LAN8720A, for any timer period,  *)
(* any width of LocalTime that the poll's period and the task's lag fit    *)
(* in, any number of stages that fail, link losses and SMI timeouts.       *)
(***************************************************************************)
EXTENDS NetStart, TLAPS

-----------------------------------------------------------------------------
(* The inductive invariant. *)

\* What a stage of start-up finds done by the ones before it.
Stages ==
  /\ boot \in {"clock", "pll", "mac", "phy", "irq", "timer", "tcpip", "netif",
               "task", "noNetif", "done"} => sems
  /\ boot \in {"timer", "tcpip", "netif", "task", "noNetif", "done"} => irqOn
  /\ boot \in {"netif", "task", "noNetif", "done"} => tcpipOn
  /\ boot \in {"task", "done"} => netifOk
  /\ boot \in {"pll", "mac", "phy"} => 0 < tries
  /\ boot \in {"main", "sync"} => ~irqOn
  /\ irqOn => sems
  /\ taskOn => boot = "done"

\* What has not been switched on has not run.
Dormant ==
  /\ boot \in {"main", "sync", "clock", "pll", "mac", "phy", "irq", "timer"} =>
       ~timerOn /\ LocalTime = 0 /\ unpolled = Period
  /\ ~taskOn => npc = "input" /\ ~phy_link_state /\ ~link_was_up

\* The true time since the last poll is the difference of LocalTime and its
\* stamp, wrapped at most once, and a turn of the task adds its lag.
PollTime ==
  /\ LocalTime - link_poll_time \in {unpolled, unpolled - Modulus}
  /\ unpolled < Period + lag * TimerStep
                + (IF npc \in {"input", "check", "stamp"} THEN MaxLag * TimerStep ELSE 0)

StartedInv == StartTypeOK /\ Stages /\ Dormant /\ PollTime

\* How the driver last saw the link.
Seen == IF npc = "edge" THEN bsr ELSE phy_link_state

\* A loss the driver has not seen is younger than its last poll, or, while the
\* next one is under way, than the time since the one before.
LossIsYoung ==
  ~phyUp /\ Seen =>
    IF npc \in {"stamp", "bsr1", "bsr2"}
      THEN downFor * TimerStep < Period + lag * TimerStep + MaxLag * TimerStep
      ELSE downFor * TimerStep <= unpolled

\* The edges of the driver and of the thread go together, and a link seen up
\* has been up since the MAC was programmed for it.
EdgesKept ==
  /\ LinkSta = phy_link_state /\ netifLink = link_was_up
  /\ npc # "link" => link_was_up = LinkSta
  /\ phy_link_state => macOn
  /\ phyUp /\ phy_link_state /\ Seen => macMode = phyMode \/ guessed

EdgeInv == StartedInv /\ LossIsYoung /\ EdgesKept

-----------------------------------------------------------------------------
(* Arithmetic. *)

\* The constants, one by one.
LEMMA Sizes ==
  /\ Modulus \in Nat /\ TimerStep \in Nat /\ 0 < TimerStep /\ Period \in Nat
  /\ 0 < Period /\ MaxLag \in Nat /\ 0 < MaxLag /\ MinDown \in Nat /\ MaxFlaps \in Nat
  /\ MaxSmiTimeouts \in Nat /\ UseDhcp \in BOOLEAN /\ ZeroMode \in Modes
  /\ MacTries \in Nat /\ 0 < MacTries /\ PhyTries \in Nat /\ 0 < PhyTries
BY LinkAssumption, StartAssumption

\* Multiples of the timer's period.
LEMMA Ticks ==
  ASSUME NEW n \in Nat
  PROVE  /\ n * TimerStep \in Nat /\ (n + 1) * TimerStep = n * TimerStep + TimerStep
         /\ \A m \in Nat : n <= m => n * TimerStep <= m * TimerStep
         /\ \A m \in Nat : n * TimerStep < m * TimerStep => n < m
BY Sizes

\* LocalTime does not outrun the longest time between two polls.
LEMMA Wide ==
  /\ Period + MaxLag * TimerStep + MaxLag * TimerStep <= Modulus
  /\ MaxLag * TimerStep \in Nat /\ TimerStep <= MaxLag * TimerStep
  /\ TimerStep < Modulus /\ Period < Modulus /\ 0 < Modulus
<1>1. 2 * MaxLag * TimerStep = MaxLag * TimerStep + MaxLag * TimerStep
  BY Sizes
<1>2. MaxLag * TimerStep \in Nat /\ 1 * TimerStep <= MaxLag * TimerStep
  BY Sizes, Ticks
<1> QED
  BY <1>1, <1>2, Sizes, LinkAssumption

\* Sums and differences of two unsigned numbers.
LEMMA Wraps ==
  /\ \A x \in Nat : x < Modulus => x % Modulus = x
  /\ \A x \in Nat : Modulus <= x /\ x < 2 * Modulus => x % Modulus = x - Modulus
  /\ \A x \in Int : x < 0 /\ 0 <= x + Modulus => x % Modulus = x + Modulus
BY Wide, Sizes

-----------------------------------------------------------------------------
(* Start-up and the poll. *)

LEMMA StartedInit == StartInit => StartedInv
<1> SUFFICES ASSUME StartInit
             PROVE  StartedInv
  OBVIOUS
<1>1. link_poll_time = Modulus - Period
  <2>1. 0 - Period < 0 /\ 0 <= 0 - Period + Modulus /\ 0 - Period \in Int
    BY Sizes, Wide
  <2>2. (0 - Period) % Modulus = 0 - Period + Modulus
    BY <2>1, Wraps
  <2> QED
    BY <2>2, Sizes DEF StartInit, Init
<1>2. StartTypeOK
  <2>1. /\ downFor \in 0 .. MinDown /\ flaps \in 0 .. MaxFlaps
        /\ LocalTime \in 0 .. Modulus - 1 /\ link_poll_time \in 0 .. Modulus - 1
        /\ smiTimeouts \in 0 .. MaxSmiTimeouts /\ lag \in 0 .. MaxLag
        /\ unpolled \in Nat /\ tries \in 0 .. MacTries + PhyTries
    BY <1>1, Sizes, Wide DEF StartInit, Init
  <2>2. TypeOK
    BY <2>1 DEF StartInit, Init, TypeOK
  <2> QED
    BY <2>1, <2>2 DEF StartInit, StartTypeOK
<1>3. Stages /\ Dormant
  BY DEF StartInit, Init, Stages, Dormant
<1>4. PollTime
  <2>1. LocalTime = 0 /\ unpolled = Period /\ lag = 0 /\ npc = "input"
    BY DEF StartInit, Init
  <2>2. 0 * TimerStep = 0
    BY Sizes
  <2>3. LocalTime - link_poll_time = unpolled - Modulus
    BY <1>1, <2>1, Sizes
  <2>4. unpolled < Period + lag * TimerStep + MaxLag * TimerStep
    BY <2>1, <2>2, Sizes, Wide
  <2> QED
    BY <2>1, <2>3, <2>4 DEF PollTime
<1> QED
  BY <1>2, <1>3, <1>4 DEF StartedInv

\* A step of start-up that leaves the driver, the task and the clock alone.
LEMMA RestKept ==
  ASSUME StartedInv, UNCHANGED vars
  PROVE  /\ TypeOK' /\ PollTime'
         /\ UNCHANGED <<LocalTime, unpolled, npc, phy_link_state, link_was_up>>
<1>1. TypeOK'
  BY DEF StartedInv, StartTypeOK, TypeOK, vars, phyVars, smiVars, timeVars, drvVars, nifVars
<1> QED
  BY <1>1 DEF StartedInv, PollTime, vars, timeVars, drvVars, nifVars

LEMMA StageStep ==
  ASSUME StartedInv,
         \/ Main \/ SyncInit \/ PllLock \/ PllWait \/ PhyWait \/ StartTimer
         \/ StartTcpip \/ NetifAdd \/ StartTask
  PROVE  StartedInv'
<1>1. UNCHANGED vars
  BY DEF Main, SyncInit, PllLock, PllWait, PhyWait, StartTimer, StartTcpip, NetifAdd,
     StartTask
<1>2. /\ TypeOK' /\ PollTime'
      /\ UNCHANGED <<LocalTime, unpolled, npc, phy_link_state, link_was_up>>
  BY <1>1, RestKept
<1>3. /\ Stages /\ Dormant /\ tries \in 0 .. MacTries + PhyTries
      /\ pllReady \in BOOLEAN /\ sems \in BOOLEAN /\ irqOn \in BOOLEAN /\ timerOn \in BOOLEAN
      /\ tcpipOn \in BOOLEAN /\ netifOk \in BOOLEAN /\ taskOn \in BOOLEAN
  BY DEF StartedInv, StartTypeOK
<1>4. CASE Main
  BY <1>2, <1>3, <1>4 DEF Main, StartedInv, StartTypeOK, Stages, Dormant, Ended
<1>5. CASE SyncInit
  BY <1>2, <1>3, <1>5 DEF SyncInit, StartedInv, StartTypeOK, Stages, Dormant, Ended
<1>6. CASE PhyWait
  BY <1>2, <1>3, <1>6, Sizes
  DEF PhyWait, ResetWait, StartedInv, StartTypeOK, Stages, Dormant, Ended
<1>7. CASE StartTimer
  BY <1>2, <1>3, <1>7 DEF StartTimer, StartedInv, StartTypeOK, Stages, Dormant, Ended
<1>8. CASE StartTcpip
  BY <1>2, <1>3, <1>8 DEF StartTcpip, StartedInv, StartTypeOK, Stages, Dormant, Ended
<1>9. CASE NetifAdd
  BY <1>2, <1>3, <1>9 DEF NetifAdd, StartedInv, StartTypeOK, Stages, Dormant, Ended
<1>10. CASE PllLock \/ PllWait
  <2>1. /\ boot = "pll" /\ boot' \in {"pll", "mac"} /\ pllReady' \in BOOLEAN
        /\ UNCHANGED <<tries, sems, irqOn, timerOn, tcpipOn, netifOk, taskOn>>
    BY <1>3, <1>10 DEF PllLock, PllWait
  <2>2. StartTypeOK'
    BY <1>2, <1>3, <2>1 DEF StartTypeOK
  <2>3. Stages' /\ Dormant'
    BY <1>2, <1>3, <2>1 DEF Stages, Dormant
  <2> QED
    BY <1>2, <2>2, <2>3 DEF StartedInv
<1>11. CASE StartTask
  BY <1>2, <1>3, <1>11 DEF StartTask, StartedInv, StartTypeOK, Stages, Dormant, Ended
<1> QED
  BY <1>4, <1>5, <1>6, <1>7, <1>8, <1>9, <1>10, <1>11

\* ETH_Init up to the resets: the driver's edge tracking starts from down.
LEMMA ClockStep ==
  ASSUME StartedInv, StartClock
  PROVE  StartedInv'
<1>1. TypeOK'
  BY DEF StartedInv, StartTypeOK, StartClock, TypeOK, phyVars, smiVars, timeVars, nifVars
<1>2. PollTime'
  BY DEF StartedInv, StartClock, PollTime, timeVars
<1>3. Stages' /\ Dormant'
  BY Sizes DEF StartedInv, StartClock, Stages, Dormant, timeVars, nifVars
<1>4. /\ boot' = "pll" /\ pllReady' = FALSE
      /\ UNCHANGED <<sems, irqOn, timerOn, tcpipOn, netifOk, taskOn>>
  BY DEF StartClock
<1>5. tries' \in 0 .. MacTries + PhyTries
  BY Sizes DEF StartClock
<1>6. StartTypeOK'
  BY <1>1, <1>4, <1>5 DEF StartedInv, StartTypeOK
<1> QED
  BY <1>2, <1>3, <1>6 DEF StartedInv

\* The MAC's reset; at its end the PHY is reset.
LEMMA MacStep ==
  ASSUME StartedInv, MacWait
  PROVE  StartedInv'
<1>1. UNCHANGED <<phyMode, flaps, smiVars, timeVars, drvVars, nifVars, npc>>
      /\ downFor' \in {0, downFor} /\ phyUp' \in BOOLEAN
  BY DEF MacWait
<1>2. TypeOK'
  BY <1>1, Sizes DEF StartedInv, StartTypeOK, TypeOK, smiVars, timeVars, drvVars, nifVars
<1>3. PollTime'
  BY <1>1 DEF StartedInv, PollTime, timeVars, drvVars
<1>4. /\ boot = "mac" /\ UNCHANGED <<pllReady, sems, irqOn, timerOn, tcpipOn, netifOk, taskOn>>
      /\ \/ boot' = "phy" /\ tries' = PhyTries
         \/ boot' = "mac" /\ tries' = tries - 1 /\ tries # 1
  BY DEF MacWait, ResetWait
<1>5. tries \in 0 .. MacTries + PhyTries /\ 0 < tries
  BY <1>4 DEF StartedInv, StartTypeOK, Stages
<1>6. tries' \in 0 .. MacTries + PhyTries /\ 0 < tries'
  BY <1>4, <1>5, Sizes
<1>7. StartTypeOK'
  BY <1>2, <1>4, <1>6 DEF StartedInv, StartTypeOK
<1>8. Stages' /\ Dormant'
  BY <1>1, <1>4, <1>6 DEF StartedInv, Stages, Dormant, timeVars, drvVars, nifVars
<1> QED
  BY <1>3, <1>7, <1>8 DEF StartedInv

\* The poll stamp lies one period in the past, wrapped.
LEMMA IrqStep ==
  ASSUME StartedInv, StartIrq
  PROVE  StartedInv'
<1>1. LocalTime = 0 /\ unpolled = Period
  BY DEF StartedInv, StartIrq, Dormant
<1>2. link_poll_time' = Modulus - Period
  <2>1. 0 - Period < 0 /\ 0 <= 0 - Period + Modulus /\ 0 - Period \in Int
    BY Sizes, Wide
  <2>2. (0 - Period) % Modulus = 0 - Period + Modulus
    BY <2>1, Wraps
  <2> QED
    BY <1>1, <2>2, Sizes DEF StartIrq
<1>3. link_poll_time' \in 0 .. Modulus - 1
  BY <1>2, Sizes, Wide
<1>4. UNCHANGED <<phyVars, smiVars, timeVars, phy_link_state, LinkSta, macOn, macMode,
                  bsr, nifVars, npc>>
  BY DEF StartIrq
<1>5. TypeOK'
  BY <1>3, <1>4 DEF StartedInv, StartTypeOK, TypeOK, phyVars, smiVars, timeVars, nifVars
<1>6. LocalTime' - link_poll_time' = unpolled' - Modulus
  BY <1>1, <1>2, <1>4, Sizes DEF timeVars
<1>7. PollTime'
  BY <1>4, <1>6 DEF StartedInv, PollTime, timeVars
<1>8. StartTypeOK' /\ Stages' /\ Dormant'
  BY <1>4, <1>5 DEF StartedInv, StartIrq, StartTypeOK, Stages, Dormant, timeVars, nifVars
<1> QED
  BY <1>7, <1>8 DEF StartedInv

\* The timer: LocalTime wraps, the difference to the stamp does not.
LEMMA TimerTick ==
  ASSUME StartedInv, Timer
  PROVE  StartedInv'
<1>1. /\ UNCHANGED startVars /\ timerOn /\ lag < MaxLag
      /\ LocalTime' = (LocalTime + TimerStep) % Modulus
      /\ lag' = lag + 1 /\ unpolled' = unpolled + TimerStep
      /\ downFor' = IF phyUp \/ downFor = MinDown THEN downFor ELSE downFor + 1
      /\ UNCHANGED <<phyUp, phyMode, flaps, smiVars, drvVars, nifVars, npc>>
  BY DEF Timer, TimeIsr
<1>2. /\ LocalTime \in 0 .. Modulus - 1 /\ link_poll_time \in 0 .. Modulus - 1
      /\ lag \in 0 .. MaxLag /\ unpolled \in Nat /\ downFor \in 0 .. MinDown
  BY DEF StartedInv, StartTypeOK, TypeOK
<1>3. /\ LocalTime' \in 0 .. Modulus - 1
      /\ LocalTime' \in {LocalTime + TimerStep, (LocalTime + TimerStep) - Modulus}
  <2>1. LocalTime + TimerStep \in Nat /\ LocalTime + TimerStep < 2 * Modulus
    BY <1>2, Sizes, Wide
  <2>2. \A x \in Nat : x < 2 * Modulus =>
          x % Modulus \in 0 .. Modulus - 1 /\ x % Modulus \in {x, x - Modulus}
    BY Wraps, Sizes
  <2>3. /\ (LocalTime + TimerStep) % Modulus \in 0 .. Modulus - 1
        /\ (LocalTime + TimerStep) % Modulus
             \in {LocalTime + TimerStep, (LocalTime + TimerStep) - Modulus}
    BY <2>1, <2>2, Zenon
  <2> QED
    BY <1>1, <2>3, Zenon
<1>4. (lag + 1) * TimerStep = lag * TimerStep + TimerStep
      /\ lag * TimerStep \in Nat /\ lag' * TimerStep \in Nat
      /\ lag' * TimerStep <= MaxLag * TimerStep
  BY <1>1, <1>2, Ticks, Sizes
<1>5. unpolled' < Period + lag' * TimerStep
        + (IF npc' \in {"input", "check", "stamp"} THEN MaxLag * TimerStep ELSE 0)
  <2>1. npc' = npc /\ unpolled < Period + lag * TimerStep
          + (IF npc \in {"input", "check", "stamp"} THEN MaxLag * TimerStep ELSE 0)
    BY <1>1 DEF StartedInv, PollTime
  <2> QED
    BY <1>1, <1>2, <1>4, <2>1, Sizes, Wide
<1>6. unpolled' < Modulus
  BY <1>1, <1>2, <1>4, <1>5, Sizes, Wide
<1>7. LocalTime' - link_poll_time' \in {unpolled', unpolled' - Modulus}
  <2>1. LocalTime - link_poll_time \in {unpolled, unpolled - Modulus}
        /\ link_poll_time' = link_poll_time
    BY <1>1 DEF StartedInv, PollTime, drvVars
  <2> QED
    BY <1>1, <1>2, <1>3, <1>6, <2>1, Sizes
<1>8. downFor' \in 0 .. MinDown /\ lag' \in 0 .. MaxLag /\ unpolled' \in Nat
  BY <1>1, <1>2, Sizes
<1>9. TypeOK'
  BY <1>1, <1>3, <1>8 DEF StartedInv, StartTypeOK, TypeOK, smiVars, drvVars, nifVars
<1>10. StartTypeOK'
  BY <1>1, <1>9 DEF StartedInv, StartTypeOK, startVars
<1>11. Stages' /\ Dormant'
  BY <1>1 DEF StartedInv, Stages, Dormant, startVars, drvVars, nifVars
<1> QED
  BY <1>5, <1>7, <1>10, <1>11 DEF StartedInv, PollTime

\* The turn of the netif task that a step of it belongs to.
LEMMA TurnStep ==
  ASSUME StartedInv, Task
  PROVE  StartedInv'
<1> DEFINE Slack(pc) == IF pc \in {"input", "check", "stamp"} THEN MaxLag * TimerStep ELSE 0
<1>1. UNCHANGED startVars /\ taskOn
  BY DEF Task
<1>2. /\ LocalTime \in 0 .. Modulus - 1 /\ link_poll_time \in 0 .. Modulus - 1
      /\ lag \in 0 .. MaxLag /\ unpolled \in Nat
      /\ LocalTime - link_poll_time \in {unpolled, unpolled - Modulus}
      /\ unpolled < Period + lag * TimerStep + Slack(npc)
  BY DEF StartedInv, StartTypeOK, TypeOK, PollTime
<1>3. /\ lag * TimerStep \in Nat /\ lag * TimerStep <= MaxLag * TimerStep
      /\ MaxLag * TimerStep \in Nat /\ 0 * TimerStep = 0
  BY <1>2, Ticks, Sizes, Wide
<1>4. Stages'
  BY <1>1 DEF StartedInv, Stages, startVars
<1>5. Dormant'
  BY <1>1 DEF StartedInv, Stages, Dormant, startVars
<1>6. ASSUME TypeOK' PROVE StartTypeOK'
  BY <1>1, <1>6 DEF StartedInv, StartTypeOK, startVars
<1>7. CASE InputDone \/ ReadBsrLatched \/ ReadBsr \/ PollEdge
  <2>1. /\ UNCHANGED <<timeVars, link_poll_time>>
        /\ Slack(npc') = Slack(npc)
    BY <1>7 DEF InputDone, ReadBsrLatched, ReadBsr, PollEdge, drvVars
  <2>2. PollTime'
    BY <1>2, <2>1 DEF PollTime, timeVars
  <2>3. smiTimeouts' \in 0 .. MaxSmiTimeouts
    BY <1>7, Sizes DEF InputDone, ReadBsrLatched, ReadBsr, PollEdge, ReadPscsr, SmiRead,
       smiVars, StartedInv, StartTypeOK, TypeOK
  <2>4. TypeOK'
    BY <1>7, <2>1, <2>3
    DEF InputDone, ReadBsrLatched, ReadBsr, PollEdge, ReadPscsr, EthStart, EthStop,
        StartedInv, StartTypeOK, TypeOK, phyVars, smiVars, timeVars, drvVars, nifVars
  <2> QED
    BY <1>4, <1>5, <1>6, <2>2, <2>4 DEF StartedInv
<1>8. CASE PollCheck
  <2>1. /\ UNCHANGED <<phyVars, smiVars, timeVars, drvVars, nifVars>>
        /\ npc = "check" /\ npc' = IF PollDue THEN "stamp" ELSE "link"
    BY <1>8 DEF PollCheck
  <2>2. (LocalTime - link_poll_time) % Modulus = unpolled
    <3> DEFINE x == LocalTime - link_poll_time
    <3>1. x \in Int /\ x \in {unpolled, unpolled - Modulus} /\ unpolled < Modulus
      BY <1>2, <1>3, Sizes, Wide
    <3> HIDE DEF x
    <3>2. ASSUME x = unpolled PROVE x % Modulus = unpolled
      BY <1>2, <3>1, <3>2, Wraps
    <3>3. ASSUME x = unpolled - Modulus PROVE x % Modulus = unpolled
      BY <1>2, <3>1, <3>3, Wraps, Sizes
    <3>4. x % Modulus = unpolled
      BY <3>1, <3>2, <3>3
    <3> QED
      BY <3>4 DEF x
  <2>3. npc' = "link" => unpolled < Period
    BY <1>2, <2>1, <2>2, Sizes DEF PollDue
  <2>4. unpolled' < Period + lag' * TimerStep + Slack(npc')
    BY <1>2, <1>3, <2>1, <2>3, Sizes DEF timeVars
  <2>5. PollTime'
    BY <1>2, <2>1, <2>4 DEF PollTime, timeVars, drvVars
  <2>6. TypeOK'
    BY <2>1 DEF StartedInv, StartTypeOK, TypeOK, phyVars, smiVars, timeVars, drvVars, nifVars
  <2> QED
    BY <1>4, <1>5, <1>6, <2>5, <2>6 DEF StartedInv
<1>9. CASE PollStamp
  <2>1. /\ UNCHANGED <<phyVars, smiVars, LocalTime, lag, phy_link_state, LinkSta, macOn,
                       macMode, bsr, nifVars>>
        /\ npc = "stamp" /\ npc' = "bsr1" /\ link_poll_time' = LocalTime /\ unpolled' = 0
    BY <1>9 DEF PollStamp
  <2>2. LocalTime' - link_poll_time' = unpolled' /\ unpolled' < Period + lag' * TimerStep
    BY <1>2, <1>3, <2>1, Sizes
  <2>3. PollTime'
    <3>1. Period + lag' * TimerStep + 0 = Period + lag' * TimerStep
      BY <1>3, <2>1, Sizes
    <3> QED
      BY <2>1, <2>2, <3>1 DEF PollTime
  <2>4. TypeOK'
    BY <2>1 DEF StartedInv, StartTypeOK, TypeOK, phyVars, smiVars, nifVars
  <2> QED
    BY <1>4, <1>5, <1>6, <2>3, <2>4 DEF StartedInv
<1>10. CASE LinkUpEdge \/ LinkDownEdge \/ LinkNoEdge
  <2>1. /\ UNCHANGED <<phyVars, smiVars, LocalTime, unpolled, drvVars>>
        /\ npc = "link" /\ npc' = "input" /\ lag' = 0
    BY <1>10 DEF LinkUpEdge, LinkDownEdge, LinkNoEdge
  <2>2. unpolled' < Period + lag' * TimerStep + Slack(npc')
    BY <1>2, <1>3, <2>1, Sizes
  <2>3. PollTime'
    BY <1>2, <2>1, <2>2 DEF PollTime, drvVars
  <2>4. link_was_up' \in BOOLEAN /\ netifLink' \in BOOLEAN /\ dhcp_started' \in BOOLEAN
    BY <1>10 DEF LinkUpEdge, LinkDownEdge, LinkNoEdge, StartedInv, StartTypeOK, TypeOK, nifVars
  <2>5. lag' \in 0 .. MaxLag
    BY <2>1, Sizes
  <2>6. TypeOK'
    BY <2>1, <2>4, <2>5 DEF StartedInv, StartTypeOK, TypeOK, phyVars, smiVars, drvVars
  <2> QED
    BY <1>4, <1>5, <1>6, <2>3, <2>6 DEF StartedInv
<1> QED
  BY <1>7, <1>8, <1>9, <1>10 DEF Task, NetifTask

\* The wire.
LEMMA WireStep ==
  ASSUME StartedInv, Phy
  PROVE  StartedInv'
<1>1. /\ UNCHANGED <<startVars, smiVars, timeVars, drvVars, nifVars, npc>>
      /\ phyUp' \in BOOLEAN /\ phyMode' \in Modes /\ downFor' \in {0, downFor}
      /\ \/ flaps' = flaps
         \/ flaps < MaxFlaps /\ flaps' = flaps + 1
  BY DEF Phy, PhyLose, PhyLink, StartedInv, StartTypeOK, TypeOK
<1>2. downFor' \in 0 .. MinDown /\ flaps' \in 0 .. MaxFlaps
  BY <1>1, Sizes DEF StartedInv, StartTypeOK, TypeOK
<1>3. TypeOK'
  BY <1>1, <1>2 DEF StartedInv, StartTypeOK, TypeOK, smiVars, timeVars, drvVars, nifVars
<1>4. StartTypeOK' /\ Stages' /\ Dormant'
  BY <1>1, <1>3 DEF StartedInv, StartTypeOK, Stages, Dormant, startVars, timeVars, drvVars,
     nifVars
<1>5. PollTime'
  BY <1>1 DEF StartedInv, PollTime, timeVars, drvVars
<1> QED
  BY <1>4, <1>5 DEF StartedInv

LEMMA StartedStep == StartedInv /\ [StartNext]_<<vars, startVars>> => StartedInv'
<1> SUFFICES ASSUME StartedInv, [StartNext]_<<vars, startVars>>
             PROVE  StartedInv'
  OBVIOUS
<1>1. CASE Netconf
  BY <1>1, StageStep, ClockStep, MacStep, IrqStep DEF Netconf
<1>2. CASE Timer
  BY <1>2, TimerTick
<1>3. CASE Task
  BY <1>3, TurnStep
<1>4. CASE Phy
  BY <1>4, WireStep
<1>6. CASE PllLock
  BY <1>6, StageStep
<1>5. CASE UNCHANGED <<vars, startVars>>
  <2>1. TypeOK' /\ PollTime'
        /\ UNCHANGED <<LocalTime, unpolled, npc, phy_link_state, link_was_up>>
    BY <1>5, RestKept
  <2> QED
    BY <1>5, <2>1 DEF StartedInv, StartTypeOK, Stages, Dormant, startVars
<1> QED
  BY <1>1, <1>2, <1>3, <1>4, <1>5, <1>6 DEF StartNext

\* What a turn may add to the time since the last poll stays under the bound.
LEMMA StartedImplies == StartedInv => StartInv
<1> SUFFICES ASSUME StartedInv
             PROVE  StartInv
  OBVIOUS
<1>1. RunsOnWhatItNeeds
  BY DEF StartedInv, Stages, RunsOnWhatItNeeds
<1>2. lag \in 0 .. MaxLag /\ unpolled \in Nat
      /\ unpolled < Period + lag * TimerStep
           + (IF npc \in {"input", "check", "stamp"} THEN MaxLag * TimerStep ELSE 0)
  BY DEF StartedInv, StartTypeOK, TypeOK, PollTime
<1>3. lag * TimerStep \in Nat /\ lag * TimerStep <= MaxLag * TimerStep
      /\ MaxLag * TimerStep \in Nat
  BY <1>2, Ticks, Sizes, Wide
<1>4. unpolled < Period + MaxLag * TimerStep + MaxLag * TimerStep
  BY <1>2, <1>3, Sizes
<1>5. 2 * MaxLag * TimerStep = MaxLag * TimerStep + MaxLag * TimerStep
  BY Sizes
<1> QED
  BY <1>1, <1>3, <1>4, <1>5, Sizes DEF StartedInv, StartInv, PollKeepsPeriod

\* Whichever stage fails, the interrupt finds its semaphores and the netif task
\* its netif and lwIP; and the link is never left unpolled for longer than a
\* period and two turns, from the first look on and across every wrap.
THEOREM StartKept == StartSpec => []StartInv
BY StartedInit, StartedStep, StartedImplies, PTL DEF StartSpec

-----------------------------------------------------------------------------
(* The mode. *)

\* A lost link stays down for longer than two polls can be apart.
LongDown == Period + 2 * MaxLag * TimerStep <= MinDown * TimerStep

\* Before the netif task runs nobody believes in a link.
LEMMA EdgeNetconf ==
  ASSUME EdgeInv, Netconf \/ PllLock
  PROVE  (LossIsYoung /\ EdgesKept)'
<1>1. ~taskOn
  BY DEF EdgeInv, StartedInv, Stages, Netconf, Main, SyncInit, StartClock, PllLock, PllWait,
     MacWait, PhyWait, ResetWait, StartIrq, StartTimer, StartTcpip, NetifAdd, StartTask
<1>2. npc = "input" /\ phy_link_state = FALSE /\ LinkSta = FALSE /\ netifLink = link_was_up
  BY <1>1 DEF EdgeInv, StartedInv, StartTypeOK, TypeOK, Dormant, EdgesKept
<1>3. npc' = npc /\ UNCHANGED nifVars
  BY DEF Netconf, Main, SyncInit, StartClock, PllLock, PllWait, MacWait, PhyWait, StartIrq,
     StartTimer, StartTcpip, NetifAdd, StartTask, vars
<1>4. \/ phy_link_state' = phy_link_state /\ LinkSta' = LinkSta
      \/ phy_link_state' = FALSE /\ LinkSta' = FALSE
  BY DEF Netconf, Main, SyncInit, StartClock, PllLock, PllWait, MacWait, PhyWait, StartIrq,
     StartTimer, StartTcpip, NetifAdd, StartTask, vars, drvVars
<1>5. phy_link_state' = FALSE /\ LinkSta' = FALSE
  BY <1>2, <1>4
<1>6. ~Seen'
  BY <1>2, <1>3, <1>5 DEF Seen
<1>7. netifLink' = link_was_up' /\ link_was_up' = LinkSta'
  <2>1. netifLink' = netifLink /\ link_was_up' = link_was_up
    BY <1>3 DEF nifVars
  <2>2. link_was_up = LinkSta
    BY <1>2 DEF EdgeInv, EdgesKept
  <2>3. LinkSta' = LinkSta
    BY <1>2, <1>4 DEF EdgeInv, StartedInv, StartTypeOK, TypeOK
  <2> QED
    BY <1>2, <2>1, <2>2, <2>3
<1> QED
  BY <1>5, <1>6, <1>7 DEF LossIsYoung, EdgesKept

\* A loss nobody has seen grows with the time since the last poll.
LEMMA EdgeTimer ==
  ASSUME EdgeInv, Timer
  PROVE  (LossIsYoung /\ EdgesKept)'
<1>1. /\ lag' = lag + 1 /\ unpolled' = unpolled + TimerStep
      /\ downFor' = IF phyUp \/ downFor = MinDown THEN downFor ELSE downFor + 1
      /\ UNCHANGED <<phyUp, phyMode, flaps, smiVars, drvVars, nifVars, npc>>
  BY DEF Timer, TimeIsr
<1>2. lag \in 0 .. MaxLag /\ unpolled \in Nat /\ downFor \in 0 .. MinDown
  BY DEF EdgeInv, StartedInv, StartTypeOK, TypeOK
<1>3. EdgesKept' /\ (Seen' <=> Seen)
  BY <1>1 DEF EdgeInv, EdgesKept, Seen, smiVars, drvVars, nifVars
<1>4. /\ (lag + 1) * TimerStep = lag * TimerStep + TimerStep /\ lag * TimerStep \in Nat
      /\ (downFor + 1) * TimerStep = downFor * TimerStep + TimerStep
      /\ downFor * TimerStep \in Nat
  BY <1>2, Ticks
<1>5. downFor' * TimerStep <= downFor * TimerStep + TimerStep
  BY <1>1, <1>2, <1>4, Sizes
<1>6. downFor' * TimerStep \in Nat
  BY <1>1, <1>4, Sizes
<1>7. LossIsYoung'
  <2> SUFFICES ASSUME ~phyUp', Seen'
               PROVE  IF npc \in {"stamp", "bsr1", "bsr2"}
                        THEN downFor' * TimerStep <
                               Period + lag' * TimerStep + MaxLag * TimerStep
                        ELSE downFor' * TimerStep <= unpolled'
    BY <1>1 DEF LossIsYoung
  <2>1. IF npc \in {"stamp", "bsr1", "bsr2"}
          THEN downFor * TimerStep < Period + lag * TimerStep + MaxLag * TimerStep
          ELSE downFor * TimerStep <= unpolled
    BY <1>1, <1>3 DEF EdgeInv, LossIsYoung
  <2>2. CASE npc \in {"stamp", "bsr1", "bsr2"}
    BY <1>1, <1>4, <1>5, <1>6, <2>1, <2>2, Sizes, Wide
  <2>3. CASE npc \notin {"stamp", "bsr1", "bsr2"}
    BY <1>1, <1>2, <1>4, <1>5, <1>6, <2>1, <2>3, Sizes
  <2> QED
    BY <2>2, <2>3
<1> QED
  BY <1>3, <1>7

\* The link comes back only once its loss was seen.
LEMMA EdgePhy ==
  ASSUME EdgeInv, LongDown, Phy
  PROVE  (LossIsYoung /\ EdgesKept)'
<1>1. UNCHANGED <<startVars, smiVars, timeVars, drvVars, nifVars, npc>>
  BY DEF Phy, PhyLose, PhyLink
<1>2. Seen' <=> Seen
  BY <1>1 DEF Seen, drvVars
<1>3. lag \in 0 .. MaxLag /\ unpolled \in Nat /\ downFor \in 0 .. MinDown
  BY DEF EdgeInv, StartedInv, StartTypeOK, TypeOK
<1>4. /\ lag * TimerStep \in Nat /\ lag * TimerStep <= MaxLag * TimerStep
      /\ MaxLag * TimerStep \in Nat /\ 0 * TimerStep = 0
  BY <1>3, Ticks, Sizes, Wide
<1>5. CASE PhyLose
  <2>1. phyUp' = FALSE /\ downFor' = 0
    BY <1>5 DEF PhyLose
  <2>2. /\ downFor' * TimerStep <= unpolled
        /\ downFor' * TimerStep < Period + lag * TimerStep + MaxLag * TimerStep
    BY <1>3, <1>4, <2>1, Sizes
  <2>3. LossIsYoung'
    BY <1>1, <2>2 DEF LossIsYoung, timeVars
  <2>4. EdgesKept'
    BY <1>1, <2>1 DEF EdgeInv, EdgesKept, drvVars, nifVars
  <2> QED
    BY <2>3, <2>4
<1>6. CASE PhyLink
  <2>1. phyUp' = TRUE /\ ~phyUp /\ downFor = MinDown
    BY <1>6 DEF PhyLink
  <2>2. ~Seen
    <3> SUFFICES ASSUME Seen
                 PROVE  FALSE
      OBVIOUS
    <3>1. 2 * MaxLag * TimerStep = MaxLag * TimerStep + MaxLag * TimerStep
      BY Sizes
    <3>2. Period + MaxLag * TimerStep + MaxLag * TimerStep <= MinDown * TimerStep
          /\ MinDown * TimerStep \in Nat
      BY <1>4, <3>1, Sizes, Ticks DEF LongDown
    <3>3. unpolled < Period + MaxLag * TimerStep + MaxLag * TimerStep
      <4>1. unpolled < Period + lag * TimerStep
              + (IF npc \in {"input", "check", "stamp"} THEN MaxLag * TimerStep ELSE 0)
        BY DEF EdgeInv, StartedInv, PollTime
      <4> QED
        BY <1>3, <1>4, <4>1, Sizes
    <3>4. MinDown * TimerStep < Period + MaxLag * TimerStep + MaxLag * TimerStep
      <4>1. \/ MinDown * TimerStep < Period + lag * TimerStep + MaxLag * TimerStep
            \/ MinDown * TimerStep <= unpolled
        BY <2>1 DEF EdgeInv, LossIsYoung
      <4> QED
        BY <1>3, <1>4, <3>2, <3>3, <4>1, Sizes
    <3> QED
      BY <1>4, <3>2, <3>4, Sizes
  <2>3. LossIsYoung' /\ EdgesKept'
    BY <1>1, <1>2, <2>1, <2>2 DEF EdgeInv, LossIsYoung, EdgesKept, drvVars, nifVars
  <2> QED
    BY <2>3
<1> QED
  BY <1>5, <1>6 DEF Phy

\* A turn of the task: a loss is seen when BSR is read, the mode when the link
\* is first seen up.
LEMMA EdgeTask ==
  ASSUME EdgeInv, Task
  PROVE  (LossIsYoung /\ EdgesKept)'
<1>1. /\ phy_link_state \in BOOLEAN /\ LinkSta \in BOOLEAN /\ bsr \in BOOLEAN
      /\ macOn \in BOOLEAN /\ phyUp \in BOOLEAN /\ link_was_up \in BOOLEAN
      /\ netifLink \in BOOLEAN /\ guessed \in BOOLEAN
      /\ lag \in 0 .. MaxLag /\ unpolled \in Nat /\ downFor \in 0 .. MinDown
  BY DEF EdgeInv, StartedInv, StartTypeOK, TypeOK
<1>2. LossIsYoung /\ EdgesKept
  BY DEF EdgeInv
<1>3. /\ lag * TimerStep \in Nat /\ downFor * TimerStep \in Nat
      /\ MaxLag * TimerStep \in Nat
  BY <1>1, Ticks, Sizes
<1>4. UNCHANGED phyVars
  BY DEF Task, NetifTask, InputDone, PollCheck, PollStamp, ReadBsrLatched, ReadBsr,
     PollEdge, LinkUpEdge, LinkDownEdge, LinkNoEdge
<1>5. CASE InputDone \/ ReadBsrLatched
  <2>1. /\ UNCHANGED <<phyVars, smiVars, timeVars, drvVars, nifVars>>
        /\ \/ npc = "input" /\ npc' = "check"
           \/ npc = "bsr1" /\ npc' = "bsr2"
    BY <1>5 DEF InputDone, ReadBsrLatched
  <2> QED
    BY <1>2, <2>1 DEF LossIsYoung, EdgesKept, Seen, phyVars, smiVars, timeVars, drvVars, nifVars
<1>6. CASE PollCheck
  <2>1. /\ UNCHANGED <<phyVars, smiVars, timeVars, drvVars, nifVars>>
        /\ npc = "check" /\ npc' \in {"stamp", "link"}
    BY <1>6 DEF PollCheck
  <2>2. EdgesKept'
    BY <1>2, <2>1 DEF EdgesKept, Seen, phyVars, smiVars, drvVars, nifVars
  <2>3. unpolled < Period + lag * TimerStep + MaxLag * TimerStep
    BY <2>1 DEF EdgeInv, StartedInv, PollTime
  <2>4. ~phyUp /\ Seen =>
           /\ downFor * TimerStep <= unpolled
           /\ downFor * TimerStep < Period + lag * TimerStep + MaxLag * TimerStep
    <3>1. ~phyUp /\ Seen => downFor * TimerStep <= unpolled
      BY <1>2, <2>1 DEF LossIsYoung
    <3> QED
      BY <1>1, <1>3, <2>3, <3>1, Sizes
  <2>5. LossIsYoung'
    BY <2>1, <2>4 DEF LossIsYoung, Seen, phyVars, timeVars, drvVars
  <2> QED
    BY <2>2, <2>5
<1>7. CASE PollStamp
  <2>1. /\ UNCHANGED <<phyVars, smiVars, LocalTime, lag, phy_link_state, LinkSta, macOn,
                       macMode, bsr, nifVars>>
        /\ npc = "stamp" /\ npc' = "bsr1"
    BY <1>7 DEF PollStamp
  <2> QED
    BY <1>2, <2>1 DEF LossIsYoung, EdgesKept, Seen, phyVars, smiVars, nifVars
<1>8. CASE ReadBsr
  <2>1. /\ UNCHANGED <<guessed, phyVars, timeVars, link_poll_time, phy_link_state, LinkSta,
                       macOn, macMode, nifVars>>
        /\ npc = "bsr2" /\ npc' = "edge" /\ (bsr' => phyUp)
    BY <1>8 DEF ReadBsr
  <2>2. LossIsYoung'
    BY <2>1 DEF LossIsYoung, Seen, phyVars
  <2>3. EdgesKept'
    BY <1>2, <2>1 DEF EdgesKept, Seen, phyVars, nifVars
  <2> QED
    BY <2>2, <2>3
<1>9. CASE PollEdge
  <2>1. /\ UNCHANGED <<phyVars, timeVars, link_poll_time, bsr, nifVars>>
        /\ npc = "edge" /\ npc' = "link" /\ LinkSta' = bsr /\ phy_link_state' = bsr
    BY <1>9 DEF PollEdge
  <2>2. LossIsYoung'
    BY <1>2, <2>1 DEF LossIsYoung, Seen, phyVars, timeVars
  <2>3. LinkSta' = phy_link_state' /\ netifLink' = link_was_up' /\ npc' = "link"
    BY <1>2, <2>1 DEF EdgesKept, nifVars
  <2>4. CASE bsr /\ ~phy_link_state
    <3>1. PICK m \in Modes : ReadPscsr(m) /\ macMode' = m /\ macOn' = TRUE
      BY <1>9, <2>4 DEF PollEdge, EthStart
    <3>2. phyUp => macMode' = phyMode \/ guessed'
      BY <3>1 DEF ReadPscsr
    <3>3. EdgesKept'
      BY <2>1, <2>3, <3>1, <3>2 DEF EdgesKept, phyVars
    <3> QED
      BY <2>2, <3>3
  <2>5. CASE bsr /\ phy_link_state
    <3>1. UNCHANGED <<macOn, macMode, smiVars>>
      BY <1>9, <2>5 DEF PollEdge
    <3>2. EdgesKept'
      BY <1>2, <2>1, <2>3, <2>5, <3>1 DEF EdgesKept, Seen, phyVars, smiVars
    <3> QED
      BY <2>2, <3>2
  <2>6. CASE ~bsr
    <3>1. EdgesKept'
      BY <2>1, <2>3, <2>6 DEF EdgesKept
    <3> QED
      BY <2>2, <3>1
  <2> QED
    BY <2>4, <2>5, <2>6
<1>10. CASE LinkUpEdge \/ LinkDownEdge \/ LinkNoEdge
  <2>1. /\ UNCHANGED <<phyVars, smiVars, unpolled, drvVars>>
        /\ npc = "link" /\ npc' = "input"
    BY <1>10 DEF LinkUpEdge, LinkDownEdge, LinkNoEdge
  <2>2. LossIsYoung'
    BY <1>2, <2>1 DEF LossIsYoung, Seen, phyVars, drvVars
  <2>3. link_was_up' = LinkSta' /\ netifLink' = link_was_up'
    <3>1. CASE LinkUpEdge
      BY <1>1, <2>1, <3>1 DEF LinkUpEdge, drvVars
    <3>2. CASE LinkDownEdge
      BY <1>1, <2>1, <3>2 DEF LinkDownEdge, drvVars
    <3>3. CASE LinkNoEdge
      BY <1>2, <2>1, <3>3 DEF LinkNoEdge, drvVars, nifVars, EdgesKept
    <3> QED
      BY <1>10, <3>1, <3>2, <3>3
  <2>4. EdgesKept'
    BY <1>2, <2>1, <2>3 DEF EdgesKept, Seen, phyVars, smiVars, drvVars
  <2> QED
    BY <2>2, <2>4
<1> QED
  BY <1>5, <1>6, <1>7, <1>8, <1>9, <1>10 DEF Task, NetifTask

LEMMA EdgeInit == StartInit => EdgeInv
<1> SUFFICES ASSUME StartInit
             PROVE  EdgeInv
  OBVIOUS
<1>1. /\ phy_link_state = FALSE /\ LinkSta = FALSE /\ link_was_up = FALSE
      /\ netifLink = FALSE /\ npc = "input"
  BY DEF StartInit, Init
<1>2. LossIsYoung /\ EdgesKept
  BY <1>1 DEF LossIsYoung, EdgesKept, Seen
<1> QED
  BY <1>2, StartedInit DEF EdgeInv

LEMMA EdgeStep ==
  ASSUME LongDown
  PROVE  EdgeInv /\ [StartNext]_<<vars, startVars>> => EdgeInv'
<1> SUFFICES ASSUME EdgeInv, [StartNext]_<<vars, startVars>>
             PROVE  EdgeInv'
  OBVIOUS
<1>1. StartedInv'
  BY StartedStep DEF EdgeInv
<1>2. (LossIsYoung /\ EdgesKept)'
  <2>1. CASE UNCHANGED <<vars, startVars>>
    BY <2>1 DEF EdgeInv, LossIsYoung, EdgesKept, Seen, vars, phyVars, smiVars, timeVars,
       drvVars, nifVars
  <2> QED
    BY <2>1, EdgeNetconf, EdgeTimer, EdgeTask, EdgePhy DEF StartNext
<1> QED
  BY <1>1, <1>2 DEF EdgeInv

\* If a lost link stays down for longer than two polls can be apart, no link is
\* used with the mode of an earlier one, although the driver keeps no latched
\* value and reads BSR and PSCSR at different times.
THEOREM LinkModeAgrees ==
  ASSUME LongDown
  PROVE  StartSpec => []ModeAgrees
<1>1. EdgeInv => ModeAgrees
  <2> SUFFICES ASSUME EdgeInv, npc = "input", netifLink, phyUp
               PROVE  macOn /\ (macMode = phyMode \/ guessed)
    BY DEF ModeAgrees
  <2>1. phy_link_state
    BY DEF EdgeInv, EdgesKept, StartedInv, StartTypeOK, TypeOK
  <2> QED
    BY <2>1 DEF EdgeInv, EdgesKept, Seen
<1>2. EdgeInv /\ [StartNext]_<<vars, startVars>> => EdgeInv'
  BY EdgeStep
<1> QED
  BY <1>1, <1>2, EdgeInit, PTL DEF StartSpec
=============================================================================
