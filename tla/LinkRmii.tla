------------------------------ MODULE LinkRmii ------------------------------
(***************************************************************************)
(* Link supervision with the LAN8720A: the netif task polls the PHY over   *)
(* SMI (WCHNET_HandlePhyNegotiation), starts and stops the MAC on edges,   *)
(* and passes the edges on to lwIP (lwip_netif_thread).  The poll is       *)
(* throttled on LocalTime, an unsigned counter that wraps, which a         *)
(* software timer advances in another task.                                *)
(***************************************************************************)
EXTENDS Integers

CONSTANTS
  Modulus,    \* LocalTime and link_poll_time count modulo this, 2^32 in C
  TimerStep,  \* WCHNETTIMERPERIOD, what one timer callback adds
  Period,     \* PHY_LINK_TASK_PERIOD
  Modes,      \* what the PHY may negotiate: speed and duplex
  ZeroMode,   \* the mode a PSCSR value of 0 stands for, 10M half duplex
  MaxLag,     \* timer periods the netif task may need for one turn
  MinDown,    \* timer periods a lost link stays down at least
  MaxFlaps,   \* bound: link losses in one behaviour
  MaxSmiTimeouts, \* bound: SMI reads that time out in one behaviour
  UseDhcp     \* LWIP_USE_DHCP

ASSUME LinkAssumption ==
  /\ Modulus \in Nat /\ TimerStep \in Nat \ {0} /\ Period \in Nat \ {0}
  /\ Period + 2 * MaxLag * TimerStep <= Modulus
  /\ ZeroMode \in Modes /\ MaxSmiTimeouts \in Nat
  /\ MaxLag \in Nat \ {0} /\ MinDown \in Nat /\ MaxFlaps \in Nat
  /\ UseDhcp \in BOOLEAN

VARIABLES
  phyUp, phyMode,   \* the link as the PHY sees it, and what it negotiated
  downFor,          \* timer periods since it was lost, up to MinDown
  flaps,            \* link losses so far
  smiTimeouts,      \* SMI reads that timed out so far
  LocalTime, link_poll_time,
  phy_link_state,   \* the driver's edge tracking
  LinkSta,
  macOn, macMode,   \* MAC transmission and reception enabled; MACCR's mode
  guessed,          \* history: MACCR's mode is from a read that timed out
  bsr,              \* the local bsr: link bit of the last PHY_BSR read
  link_was_up,      \* the thread's edge tracking
  netifLink,        \* lwIP's NETIF_FLAG_LINK_UP
  dhcp_started,
  npc,              \* where the netif task is
  lag,              \* timer periods since its turn began
  unpolled          \* true time since the last poll, in LocalTime units

phyVars  == <<phyUp, phyMode, downFor, flaps>>
smiVars  == <<smiTimeouts, guessed>>
timeVars == <<LocalTime, lag, unpolled>>
drvVars  == <<link_poll_time, phy_link_state, LinkSta, macOn, macMode, bsr>>
nifVars  == <<link_was_up, netifLink, dhcp_started>>
vars     == <<phyVars, smiVars, timeVars, drvVars, nifVars, npc>>

TypeOK ==
  /\ phyUp \in BOOLEAN /\ phyMode \in Modes
  /\ downFor \in 0 .. MinDown /\ flaps \in 0 .. MaxFlaps
  /\ LocalTime \in 0 .. Modulus - 1 /\ link_poll_time \in 0 .. Modulus - 1
  /\ phy_link_state \in BOOLEAN /\ LinkSta \in BOOLEAN
  /\ macOn \in BOOLEAN /\ macMode \in Modes /\ bsr \in BOOLEAN
  /\ link_was_up \in BOOLEAN /\ netifLink \in BOOLEAN
  /\ dhcp_started \in BOOLEAN
  /\ smiTimeouts \in 0 .. MaxSmiTimeouts /\ guessed \in BOOLEAN
  /\ npc \in {"input", "check", "stamp", "bsr1", "bsr2", "edge", "link"}
  /\ lag \in 0 .. MaxLag /\ unpolled \in Nat

\* What ETH_Init leaves: LinkSta and phy_link_state 0, link_poll_time one
\* period in the past (LocalTime, still 0, minus Period wraps); NetStart goes
\* through the stages that lead here.
Init ==
  /\ phyUp = FALSE /\ phyMode \in Modes /\ downFor = MinDown /\ flaps = 0
  /\ LocalTime = 0 /\ link_poll_time = (0 - Period) % Modulus
  /\ phy_link_state = FALSE /\ LinkSta = FALSE
  /\ macOn = FALSE /\ macMode \in Modes /\ bsr = FALSE
  /\ link_was_up = FALSE /\ netifLink = FALSE
  /\ dhcp_started = FALSE
  /\ smiTimeouts = 0 /\ guessed = FALSE
  /\ npc = "input" /\ lag = 0 /\ unpolled = Period

-----------------------------------------------------------------------------
(* The PHY and the wire: external. *)

\* The cable is pulled, the partner goes away.
PhyLose ==
  /\ phyUp /\ flaps < MaxFlaps
  /\ phyUp' = FALSE /\ downFor' = 0 /\ flaps' = flaps + 1
  /\ UNCHANGED <<phyMode, smiVars, timeVars, drvVars, nifVars, npc>>

\* Auto-negotiation ends, possibly with another mode.
PhyLink ==
  /\ ~phyUp /\ downFor = MinDown
  /\ phyUp' = TRUE /\ phyMode' \in Modes
  /\ UNCHANGED <<downFor, flaps, smiVars, timeVars, drvVars, nifVars, npc>>

\* localtime_timer_cb -> WCHNET_TimeIsr: LocalTime += timperiod.
TimeIsr ==
  /\ lag < MaxLag
  /\ LocalTime' = (LocalTime + TimerStep) % Modulus
  /\ lag' = lag + 1
  /\ unpolled' = unpolled + TimerStep
  /\ downFor' = IF phyUp \/ downFor = MinDown THEN downFor ELSE downFor + 1
  /\ UNCHANGED <<phyUp, phyMode, flaps, smiVars, drvVars, nifVars, npc>>

-----------------------------------------------------------------------------
(* The netif task. *)

\* ethernetif_input returns, after at most its 10 ms wait and the drain.
InputDone ==
  /\ npc = "input" /\ npc' = "check"
  /\ UNCHANGED <<phyVars, smiVars, timeVars, drvVars, nifVars>>

\* fault: an absolute deadline instead of an unsigned difference
Mut_PollDue == LocalTime >= link_poll_time + Period

\* LocalTime - link_poll_time < PHY_LINK_TASK_PERIOD, unsigned.
PollDue == (LocalTime - link_poll_time) % Modulus >= Period

PollCheck ==
  /\ npc = "check"
  /\ npc' = IF PollDue THEN "stamp" ELSE "link"
  /\ UNCHANGED <<phyVars, smiVars, timeVars, drvVars, nifVars>>

\* link_poll_time = LocalTime, a second read: the timer may have run between.
PollStamp ==
  /\ npc = "stamp" /\ npc' = "bsr1"
  /\ link_poll_time' = LocalTime
  /\ unpolled' = 0
  /\ UNCHANGED <<phyVars, smiVars, LocalTime, lag, phy_link_state, LinkSta, macOn,
                 macMode, bsr, nifVars>>

\* The two reads of PHY_BSR: the first empties the latch, its value is lost.
ReadBsrLatched ==
  /\ npc = "bsr1" /\ npc' = "bsr2"
  /\ UNCHANGED <<phyVars, smiVars, timeVars, drvVars, nifVars>>

\* ETH_ReadPHYRegister: the register, or ETH_ERROR, which is 0 and looks like
\* one, when the busy bit outlasts PHY_READ_TO.
SmiRead(timedOut) ==
  /\ timedOut => smiTimeouts < MaxSmiTimeouts
  /\ smiTimeouts' = IF timedOut THEN smiTimeouts + 1 ELSE smiTimeouts

ReadBsr ==
  /\ npc = "bsr2" /\ npc' = "edge"
  /\ \E timedOut \in BOOLEAN : SmiRead(timedOut) /\ bsr' = (phyUp /\ ~timedOut)
  /\ UNCHANGED <<guessed, phyVars, timeVars, link_poll_time, phy_link_state, LinkSta,
                 macOn, macMode, nifVars>>

\* The PSCSR mode; the field means nothing once the link is gone again.
ReadPscsr(m) ==
  \E timedOut \in BOOLEAN :
    /\ SmiRead(timedOut) /\ guessed' = timedOut
    /\ IF timedOut THEN m = ZeroMode ELSE phyUp => m = phyMode

\* ETH_Start and ETH_Stop switch MAC transmission and reception; the DMA keeps
\* running across a stop.
EthStart == macOn' = TRUE
EthStop  == macOn' = FALSE

\* fault: a lost link is not remembered, the MAC not programmed again
Mut_PollEdge ==
  /\ npc = "edge" /\ npc' = "link"
  /\ LinkSta' = bsr
  /\ phy_link_state' = (phy_link_state \/ bsr)
  /\ \/ /\ bsr /\ ~phy_link_state
        /\ \E m \in Modes : ReadPscsr(m) /\ macMode' = m
        /\ EthStart
     \/ /\ ~(bsr /\ ~phy_link_state)
        /\ UNCHANGED <<macOn, macMode, smiVars>>
  /\ UNCHANGED <<phyVars, timeVars, link_poll_time, bsr, nifVars>>

\* Up edge: read PSCSR, program MACCR, ETH_Start.  Down edge: ETH_Stop.
\* LinkSta follows bsr either way.
PollEdge ==
  /\ npc = "edge" /\ npc' = "link"
  /\ LinkSta' = bsr
  /\ phy_link_state' = bsr
  /\ \/ /\ bsr /\ ~phy_link_state
        /\ \E m \in Modes : ReadPscsr(m) /\ macMode' = m
        /\ EthStart
     \/ /\ ~bsr /\ phy_link_state
        /\ EthStop
        /\ UNCHANGED <<macMode, smiVars>>
     \/ /\ bsr = phy_link_state
        /\ UNCHANGED <<macOn, macMode, smiVars>>
  /\ UNCHANGED <<phyVars, timeVars, link_poll_time, bsr, nifVars>>

\* The rest of the turn: lwIP learns of an edge of LinkSta.
LinkUpEdge ==
  /\ npc = "link" /\ LinkSta /\ ~link_was_up
  /\ link_was_up' = TRUE
  /\ netifLink' = TRUE
  /\ dhcp_started' = (dhcp_started \/ UseDhcp)
  /\ npc' = "input" /\ lag' = 0
  /\ UNCHANGED <<phyVars, smiVars, LocalTime, unpolled, drvVars>>

\* fault: link_was_up is not reset
Mut_LinkDownEdge ==
  /\ npc = "link" /\ ~LinkSta /\ link_was_up
  /\ netifLink' = FALSE
  /\ dhcp_started' = FALSE
  /\ npc' = "input" /\ lag' = 0
  /\ UNCHANGED <<phyVars, smiVars, LocalTime, unpolled, drvVars, link_was_up>>

LinkDownEdge ==
  /\ npc = "link" /\ ~LinkSta /\ link_was_up
  /\ link_was_up' = FALSE
  /\ netifLink' = FALSE
  /\ dhcp_started' = FALSE
  /\ npc' = "input" /\ lag' = 0
  /\ UNCHANGED <<phyVars, smiVars, LocalTime, unpolled, drvVars>>

LinkNoEdge ==
  /\ npc = "link" /\ LinkSta = link_was_up
  /\ npc' = "input" /\ lag' = 0
  /\ UNCHANGED <<phyVars, smiVars, LocalTime, unpolled, drvVars, nifVars>>

NetifTask ==
  \/ InputDone \/ PollCheck \/ PollStamp \/ ReadBsrLatched \/ ReadBsr
  \/ PollEdge \/ LinkUpEdge \/ LinkDownEdge \/ LinkNoEdge

LinkNext == PhyLose \/ PhyLink \/ TimeIsr \/ NetifTask

LinkSpec == Init /\ [][LinkNext]_vars

-----------------------------------------------------------------------------
(* Properties. *)

\* The link is never left unpolled for longer than a period and the lag of two
\* turns of the task, the wrap of LocalTime included.
PollKeepsPeriod == unpolled < Period + 2 * MaxLag * TimerStep

\* A link that came back in another mode is not used with the old one: when
\* the task is between turns, lwIP believes in the link and the PHY has it,
\* the MAC is started in the PHY's mode.  The driver keeps no latched BSR
\* value, so this rests on the link staying down for MinDown.  A BSR read that
\* times out costs a down and an up; one of PSCSR leaves ZeroMode.
ModeAgrees ==
  npc = "input" /\ netifLink /\ phyUp => macOn /\ (macMode = phyMode \/ guessed)

\* The driver, the MAC and lwIP agree with the wire.
Agree ==
  /\ LinkSta = phyUp /\ macOn = phyUp /\ netifLink = phyUp
  /\ phyUp => macMode = phyMode \/ guessed
=============================================================================
