------------------------------- MODULE Phy10M -------------------------------
(***************************************************************************)
(* Link supervision with the internal 10M PHY (eth_driver_10M.c, built     *)
(* when LWIP_USE_LAN8720A is 0).  Two contexts share the state of the      *)
(* negotiation without a lock: the netif task, which runs                  *)
(* WCHNET_HandlePhyNegotiation and WCHNET_LinkProcess, and the Ethernet    *)
(* interrupt, which runs ETH_PHYLink on a change of the link.  The task is *)
(* cut wherever the interrupt or the timer may come between two accesses   *)
(* to what they share; the interrupt is cut between its look at the PHY    *)
(* and the clearing of its request.                                        *)
(*                                                                         *)
(* Time is kept as ages: LocalTime minus a stamp, up to a cap above every  *)
(* limit it is compared with.  What the PHY registers hold, the link bit   *)
(* excepted, is any value: a read is a choice.  ReInitMACFlag is never set *)
(* in the driver and the code under it is left out, as are duplex and      *)
(* speed, which nothing here depends on.                                   *)
(***************************************************************************)
EXTENDS Integers

CONSTANTS
  Period,      \* PHY_LINK_TASK_PERIOD
  MaxPeriod,   \* the largest random LinkTaskPeriod
  ResetWait,   \* how long the PHY stays off, 500 ms in the code
  NegoWait,    \* window of the polarity change without auto-negotiation
  MaxLag,      \* timer periods the netif task may need for one turn
  MinDown,     \* timer periods a PHY without a link needs at least for one
  PLimit, NLimit, AutoLimit,  \* polls without an answer, by polarity
  SucLimit,    \* polls with an answer before the other polarity is tried
  TRLimit,     \* polls while the pairs are being swapped
  CntModulus,  \* the uint8_t counters count modulo this
  Rev2,        \* (ChipId & 0xf0) == 0x20
  MaxEvents    \* bound: link-ups of the PHY in one behaviour

ASSUME PhyAssumption ==
  /\ Period \in Nat \ {0} /\ MaxPeriod \in Nat /\ Period <= MaxPeriod
  /\ ResetWait \in Nat /\ NegoWait \in Nat /\ MaxLag \in Nat \ {0}
  /\ MaxLag < ResetWait /\ MinDown \in Nat
  /\ {PLimit, NLimit, AutoLimit, SucLimit, TRLimit} \subseteq Nat \ {0}
  /\ 1 < TRLimit  \* the first answer counts as one
  /\ CntModulus \in Nat
  /\ \A l \in {PLimit, NLimit, AutoLimit, SucLimit, TRLimit} :
       l + 1 < CntModulus
  /\ Rev2 \in BOOLEAN /\ MaxEvents \in Nat

VARIABLES
  hwUp,         \* link bit of the PHY's BSR
  phylink,      \* PHYLINK pending in DMASR
  events,       \* link-ups so far
  downFor,      \* timer periods since the PHY lost its link or was reset
  isr,          \* "off", or "clr": ETH_PHYLink done, request not cleared
  tpc,          \* where the netif task is
  lag,          \* timer periods since its turn began
  readAge,      \* age of the LocalTime value it has just loaded
  linkAge,      \* LocalTime - phyLinkTime
  succAge,      \* LocalTime - LinkSuccTime while it is compared, else 0
  negoAge,      \* LocalTime - phyNegoLinkTime while it is compared, else 0
  offFor,       \* true time since the PHY lost its clock
  phyOn,        \* EXTEN_ETH_10M_EN: the PHY has its clock
  phyLinkReset,
  neg,          \* the negotiation's globals, one field each
  phyNegoStat,
  LinkSta,
  macFilter,    \* RA and PM of MACFFR are clear
  link_was_up,  \* the thread's edge tracking
  sel, bit5,    \* locals: selector field of phy_anlpar not 0, phy_bmsr bit 5
  pnTo          \* what PHY_PN_SWITCH is about to set, or "none"

hwVars  == <<hwUp, phylink, events, downFor>>
time    == <<lag, readAge, linkAge, succAge, negoAge, offFor>>
power   == <<phyOn, phyLinkReset>>
upVars  == <<LinkSta, macFilter, link_was_up>>
locals  == <<sel, bit5, pnTo>>
vars    == <<hwVars, isr, tpc, time, power, neg, phyNegoStat, upVars, locals>>

\* Ages stop here, above every limit they are compared with.
LinkCap == (IF MaxPeriod > ResetWait THEN MaxPeriod ELSE ResetWait) + MaxLag
SuccCap == 2 * Period + MaxLag

Polarities == {"P", "N", "auto"}
Counters   == 0 .. CntModulus - 1
Pcs == {"top", "rstRead", "rstCmp", "rstClear", "rstOn", "bcr", "init1",
        "init2", "run", "accel", "dueRead", "dueCmp", "stamp", "regs",
        "count", "pn", "pnZero", "linked", "polRead", "polCmp", "pol",
        "link", "filter"}

Negotiation ==
  [phyStatus : BOOLEAN, phyLinkStatus : {"init", "wait"}, phyPN : Polarities,
   phyLinkCnt : Counters, phySucCnt : Counters,
   TRDetectStep : 0 .. 2, TRDetectCnt : Counters,
   LinkTaskPeriod : 0 .. MaxPeriod, PhyPolarityDetect : BOOLEAN]

TypeOK ==
  /\ hwUp \in BOOLEAN /\ phylink \in BOOLEAN
  /\ phyOn \in BOOLEAN /\ phyLinkReset \in BOOLEAN
  /\ LinkSta \in BOOLEAN /\ macFilter \in BOOLEAN /\ link_was_up \in BOOLEAN
  /\ sel \in BOOLEAN /\ bit5 \in BOOLEAN
  /\ events \in 0 .. MaxEvents /\ downFor \in 0 .. MinDown
  /\ isr \in {"off", "clr"} /\ tpc \in Pcs
  /\ lag \in 0 .. MaxLag /\ readAge \in Nat
  /\ linkAge \in 0 .. LinkCap /\ succAge \in 0 .. SuccCap
  /\ negoAge \in 0 .. NegoWait /\ offFor \in 0 .. ResetWait
  /\ neg \in Negotiation
  /\ phyNegoStat \subseteq {"last", "turn"}
  /\ pnTo \in Polarities \cup {"none"}

\* After ETH_Init, the netif task created: the globals as initialised, the
\* stamps 0 and LocalTime only just counting.
Init ==
  /\ hwUp = FALSE /\ phylink = FALSE /\ events = 0 /\ downFor = 0
  /\ isr = "off" /\ tpc = "top"
  /\ lag = 0 /\ readAge = 0
  /\ linkAge = 0 /\ succAge = 0 /\ negoAge = 0 /\ offFor = 0
  /\ phyOn = TRUE /\ phyLinkReset = FALSE
  /\ neg = [phyStatus |-> FALSE, phyLinkStatus |-> "init", phyPN |-> "auto",
            phyLinkCnt |-> 0, phySucCnt |-> 0, TRDetectStep |-> 0,
            TRDetectCnt |-> 0, LinkTaskPeriod |-> Period,
            PhyPolarityDetect |-> FALSE]
  /\ phyNegoStat = {}
  /\ LinkSta = FALSE /\ macFilter = TRUE /\ link_was_up = FALSE
  /\ sel = FALSE /\ bit5 = FALSE /\ pnTo = "none"

-----------------------------------------------------------------------------
(* The PHY and the timer. *)

\* A link comes up or is lost; either raises PHYLINK.
HwLinkUp ==
  /\ phyOn /\ ~hwUp /\ downFor = MinDown /\ events < MaxEvents
  /\ hwUp' = TRUE /\ phylink' = TRUE /\ events' = events + 1
  /\ UNCHANGED <<downFor, isr, tpc, time, power, neg, phyNegoStat, upVars, locals>>

HwLinkDown ==
  /\ hwUp
  /\ hwUp' = FALSE /\ phylink' = TRUE /\ downFor' = 0
  /\ UNCHANGED <<events, isr, tpc, time, power, neg, phyNegoStat, upVars, locals>>

\* Reset, or without its clock, the PHY loses its link at once.
HwLoses ==
  /\ hwUp' = FALSE /\ downFor' = 0
  /\ phylink' = (phylink \/ hwUp)
  /\ UNCHANGED events

Older(age, cap) == IF age < cap THEN age + 1 ELSE age

\* WCHNET_TimeIsr, from the timer task: LocalTime advances by one period.
TimeIsr ==
  /\ isr = "off" /\ lag < MaxLag
  /\ lag' = lag + 1
  /\ readAge' = IF tpc \in {"rstCmp", "dueCmp", "polCmp"} THEN readAge + 1 ELSE 0
  /\ linkAge' = Older(linkAge, LinkCap)
  /\ succAge' = IF neg.PhyPolarityDetect THEN Older(succAge, SuccCap) ELSE 0
  /\ negoAge' = IF "last" \in phyNegoStat THEN Older(negoAge, NegoWait) ELSE 0
  /\ offFor' = IF phyOn THEN 0 ELSE Older(offFor, ResetWait)
  /\ downFor' = IF phyOn /\ ~hwUp /\ downFor < MinDown THEN downFor + 1 ELSE downFor
  /\ UNCHANGED <<hwUp, phylink, events, isr, tpc, power, neg, phyNegoStat, upVars, locals>>

-----------------------------------------------------------------------------
(* The interrupt: WCHNET_ETHIsr calls ETH_PHYLink, then clears PHYLINK. *)

\* PHY_NEGOTIATION_PARAM_INIT after phyStatus = 0.
ParamInit(n) ==
  [n EXCEPT !.phySucCnt = 0, !.phyLinkCnt = 0, !.TRDetectStep = 0,
            !.PhyPolarityDetect = FALSE, !.phyLinkStatus = "init",
            !.phyPN = "auto"]

\* ETH_LinkUpCfg: the filter is opened, polarity detection starts.
LinkUpCfg ==
  /\ LinkSta' = TRUE
  /\ macFilter' = FALSE
  /\ neg' = [neg EXCEPT !.phyStatus = TRUE, !.PhyPolarityDetect = TRUE]
  /\ succAge' = 0
  /\ UNCHANGED <<hwVars, power, linkAge, offFor>>

Mut_PowerOff ==  \* fault: the wait is requested only for a link that was up
  /\ phyOn' = FALSE /\ offFor' = IF phyOn THEN 0 ELSE offFor
  /\ phyLinkReset' = (phyLinkReset \/ LinkSta) /\ linkAge' = 0
  /\ LinkSta' = FALSE
  /\ HwLoses
  /\ UNCHANGED <<neg, succAge, macFilter>>

Mut_PowerOffNoStamp ==  \* fault: phyLinkTime is not stamped
  /\ phyOn' = FALSE /\ offFor' = IF phyOn THEN 0 ELSE offFor
  /\ phyLinkReset' = TRUE
  /\ LinkSta' = FALSE
  /\ HwLoses
  /\ UNCHANGED <<neg, linkAge, succAge, macFilter>>

\* The PHY's clock is stopped; the task will wait and restart it.
PowerOff ==
  /\ phyOn' = FALSE /\ offFor' = IF phyOn THEN 0 ELSE offFor
  /\ phyLinkReset' = TRUE /\ linkAge' = 0
  /\ LinkSta' = FALSE
  /\ HwLoses
  /\ UNCHANGED <<neg, succAge, macFilter>>

\* PHY_LINK_RESET in the interrupt, where nothing comes between its steps.
IsrLinkReset ==
  /\ neg' = ParamInit([neg EXCEPT !.phyStatus = FALSE])
  /\ HwLoses
  /\ UNCHANGED <<power, linkAge, offFor, succAge, LinkSta, macFilter>>

\* A link without auto-negotiation: which polarity was tried, and when.
ParallelDetected ==
  IF Rev2
  THEN /\ phyNegoStat' = IF "turn" \in phyNegoStat THEN phyNegoStat
                                                   ELSE phyNegoStat \cup {"last"}
       /\ negoAge' = 0
  ELSE UNCHANGED <<phyNegoStat, negoAge>>

\* Such a link that is lost again at once: the other polarity next time.
ParallelLost ==
  IF Rev2 /\ "last" \in phyNegoStat /\ negoAge < NegoWait
  THEN /\ phyNegoStat' = IF "turn" \in phyNegoStat THEN phyNegoStat \ {"turn"}
                                                   ELSE phyNegoStat \cup {"turn"}
       /\ negoAge' = NegoWait  \* phyNegoLinkTime = 0, long ago
  ELSE UNCHANGED <<phyNegoStat, negoAge>>

\* ETH_PHYLink on what the registers show: link, auto-negotiation enabled,
\* partner's word empty, auto-negotiation complete.
EthPhyLink(enabled, empty, complete) ==
  \/ /\ hwUp /\ ~enabled
     /\ LinkUpCfg /\ UNCHANGED <<phyNegoStat, negoAge>>
  \/ /\ hwUp /\ enabled /\ empty /\ complete
     /\ LinkUpCfg /\ ParallelDetected
  \/ /\ hwUp /\ enabled /\ empty /\ ~complete
     /\ IsrLinkReset /\ UNCHANGED <<phyNegoStat, negoAge>>
  \/ /\ hwUp /\ enabled /\ ~empty /\ complete
     /\ LinkUpCfg /\ phyNegoStat' = {} /\ negoAge' = 0
  \/ /\ hwUp /\ enabled /\ ~empty /\ ~complete
     /\ PowerOff /\ phyNegoStat' = {} /\ negoAge' = 0
  \/ /\ ~hwUp
     /\ PowerOff /\ ParallelLost

IsrPhyLink ==
  /\ isr = "off" /\ phylink
  /\ isr' = "clr"
  /\ \E enabled, empty, complete \in BOOLEAN : EthPhyLink(enabled, empty, complete)
  /\ UNCHANGED <<tpc, lag, readAge, link_was_up, locals>>

\* ETH_DMAClearITPendingBit(ETH_DMA_IT_PHYLINK), whatever was raised since.
IsrClear ==
  /\ isr = "clr"
  /\ isr' = "off" /\ phylink' = FALSE
  /\ UNCHANGED <<hwUp, events, downFor, tpc, time, power, neg, phyNegoStat, upVars, locals>>

-----------------------------------------------------------------------------
(* The netif task: WCHNET_HandlePhyNegotiation. *)

\* The task runs only while no interrupt is served.
At(pc) == isr = "off" /\ tpc = pc

Goto(pc) == tpc' = pc /\ UNCHANGED isr

Mut_Top ==  \* fault: a restart is seen only once a link was complete
  /\ At("top")
  /\ Goto(IF phyLinkReset /\ neg.phyStatus THEN "rstRead" ELSE "run")
  /\ UNCHANGED <<hwVars, time, power, neg, phyNegoStat, upVars, locals>>

\* if(phyLinkReset) ... else if(!phyStatus) ... else ...
Top ==
  /\ At("top")
  /\ Goto(IF phyLinkReset THEN "rstRead" ELSE "run")
  /\ UNCHANGED <<hwVars, time, power, neg, phyNegoStat, upVars, locals>>

Run ==
  /\ At("run")
  /\ Goto(IF neg.phyStatus THEN "linked" ELSE "accel")
  /\ UNCHANGED <<hwVars, time, power, neg, phyNegoStat, upVars, locals>>

\* LocalTime is loaded, then the stamp it is compared with.
ReadTime(at, next) ==
  /\ At(at) /\ Goto(next)
  /\ readAge' = 0
  /\ UNCHANGED <<hwVars, lag, linkAge, succAge, negoAge, offFor, power, neg,
                 phyNegoStat, upVars, locals>>

\* LocalTime - stamp >= limit, unsigned: a stamp newer than the loaded time
\* makes the difference huge.
Elapsed(age, limit) == age < readAge \/ age - readAge >= limit

Compare(at, age, limit, due) ==
  /\ At(at) /\ Goto(IF Elapsed(age, limit) THEN due ELSE "link")
  /\ readAge' = 0
  /\ UNCHANGED <<hwVars, lag, linkAge, succAge, negoAge, offFor, power, neg,
                 phyNegoStat, upVars, locals>>

ResetClear ==  \* phyLinkReset = 0
  /\ At("rstClear") /\ Goto("rstOn")
  /\ phyLinkReset' = FALSE
  /\ UNCHANGED <<hwVars, time, phyOn, neg, phyNegoStat, upVars, locals>>

ResetOn ==  \* EXTEN->EXTEN_CTR |= EXTEN_ETH_10M_EN
  /\ At("rstOn") /\ Goto("bcr")
  /\ phyOn' = TRUE /\ offFor' = 0
  /\ UNCHANGED <<hwVars, lag, readAge, linkAge, succAge, negoAge, phyLinkReset,
                 neg, phyNegoStat, upVars, locals>>

\* PHY_LINK_RESET in the task: PHY_Reset, phyStatus = 0, the other parameters.
LinkResetBcr ==
  /\ At("bcr") /\ Goto("init1")
  /\ HwLoses
  /\ UNCHANGED <<time, power, neg, phyNegoStat, upVars, locals>>

Mut_LinkResetStatus ==  \* fault: phyStatus is not cleared
  /\ At("init1") /\ Goto("init2")
  /\ UNCHANGED <<hwVars, time, power, neg, phyNegoStat, upVars, locals>>

LinkResetStatus ==
  /\ At("init1") /\ Goto("init2")
  /\ neg' = [neg EXCEPT !.phyStatus = FALSE]
  /\ UNCHANGED <<hwVars, time, power, phyNegoStat, upVars, locals>>

LinkResetParams ==
  /\ At("init2") /\ Goto("link")
  /\ neg' = ParamInit(neg)
  /\ UNCHANGED <<hwVars, time, power, phyNegoStat, upVars, locals>>

\* ACCELERATE_LINK_PROCESS: an answer of the partner ends the wait.
Accelerate ==
  /\ At("accel") /\ Goto("dueRead")
  /\ \E answer \in BOOLEAN :
       neg' = IF neg.TRDetectStep < 2 /\ answer
              THEN [neg EXCEPT !.LinkTaskPeriod = 0] ELSE neg
  /\ UNCHANGED <<hwVars, time, power, phyNegoStat, upVars, locals>>

\* UPDATE_LINKTASKPERIOD, phyLinkTime = LocalTime.
Stamp ==
  /\ At("stamp") /\ Goto("regs")
  /\ \E p \in IF neg.TRDetectStep = 1 THEN Period .. MaxPeriod ELSE {Period} :
       neg' = [neg EXCEPT !.LinkTaskPeriod = p]
  /\ linkAge' = 0
  /\ UNCHANGED <<hwVars, lag, readAge, succAge, negoAge, offFor, power,
                 phyNegoStat, upVars, locals>>

-----------------------------------------------------------------------------
(* WCHNET_LinkProcess. *)

ReadRegs ==
  /\ At("regs") /\ Goto("count")
  /\ sel' \in BOOLEAN /\ bit5' \in BOOLEAN
  /\ UNCHANGED <<hwVars, time, power, neg, phyNegoStat, upVars, pnTo>>

Inc(c) == (c + 1) % CntModulus

\* What a branch does: the new globals n, then PHY_PN_SWITCH(to), then, with
\* an answer, phyLinkCnt = 0.
Then(n, to) ==
  /\ neg' = n /\ pnTo' = to
  /\ Goto(IF sel THEN "pnZero" ELSE "pn")

\* The partner answers for the first time: swap the pairs and look again.
AnswerFirst ==
  /\ sel /\ neg.TRDetectStep = 0
  /\ \E p \in Period .. MaxPeriod :
       neg' = [neg EXCEPT !.TRDetectStep = 1, !.TRDetectCnt = 1,
                          !.LinkTaskPeriod = p]
  /\ Goto("link") /\ UNCHANGED pnTo

\* It answers again: settle on the polarity, then wait for the link.
Answered ==
  LET n == IF neg.TRDetectStep = 1
           THEN [neg EXCEPT !.TRDetectStep = 2, !.TRDetectCnt = 0] ELSE neg
      other == IF neg.phyPN = "N" THEN "P" ELSE "N"
  IN  /\ sel /\ neg.TRDetectStep # 0
      /\ \/ /\ n.phyLinkStatus = "init" /\ n.phyPN = "auto"
            /\ Then(n, "P")
         \/ /\ n.phyLinkStatus = "init" /\ n.phyPN # "auto"
            /\ Then([n EXCEPT !.phyLinkStatus = "wait"], "none")
         \/ /\ n.phyLinkStatus = "wait"
            /\ IF n.phySucCnt = SucLimit /\ ~bit5
               THEN Then([n EXCEPT !.phySucCnt = 0], other)
               ELSE Then([n EXCEPT !.phySucCnt = Inc(@)], "none")

\* No answer while the pairs are being swapped: swap back, or give up.
SwapPairs ==
  LET c == Inc(neg.TRDetectCnt)
  IN  /\ ~sel /\ neg.TRDetectStep = 1
      /\ neg' = IF c = TRLimit
                THEN [neg EXCEPT !.TRDetectCnt = 0, !.TRDetectStep = 0]
                ELSE [neg EXCEPT !.TRDetectCnt = c]
      /\ Goto("link") /\ UNCHANGED pnTo

\* No answer: count, and at the limit go on to the next polarity.
Counting(limit) == ~sel /\ neg.TRDetectStep # 1 /\ neg.phyLinkCnt # limit

Counted(limit) == ~sel /\ neg.TRDetectStep # 1 /\ neg.phyLinkCnt = limit

BackToAuto ==
  Then([neg EXCEPT !.phyLinkCnt = 0, !.phySucCnt = 0, !.TRDetectStep = 0,
                   !.phyLinkStatus = "init"], "auto")

Limit ==
  CASE neg.phyLinkStatus = "wait" \/ neg.phyPN = "N" -> NLimit
    [] neg.phyLinkStatus = "init" /\ neg.phyPN = "P" -> PLimit
    [] OTHER -> AutoLimit

NoAnswer ==
  \/ /\ Counting(Limit)
     /\ Then([neg EXCEPT !.phyLinkCnt = Inc(@)], "none")
  \/ /\ Counted(Limit) /\ (neg.phyLinkStatus = "wait" \/ neg.phyPN = "N")
     /\ BackToAuto
  \/ /\ Counted(Limit) /\ neg.phyLinkStatus = "init" /\ neg.phyPN = "P"
     /\ Then([neg EXCEPT !.phyLinkCnt = 0], "N")
  \/ /\ Counted(Limit) /\ neg.phyLinkStatus = "init" /\ neg.phyPN = "auto"
     /\ neg' = [neg EXCEPT !.phyLinkCnt = Inc(@)]
     /\ Goto("bcr") /\ UNCHANGED pnTo

Count ==
  /\ At("count")
  /\ AnswerFirst \/ Answered \/ SwapPairs \/ NoAnswer
  /\ sel' = FALSE /\ bit5' = FALSE  \* dead from here on
  /\ UNCHANGED <<hwVars, time, power, phyNegoStat, upVars>>

Mut_PnSwitch(at) ==  \* fault: an answer does not reset phyLinkCnt
  /\ At(at) /\ Goto("link")
  /\ neg' = [neg EXCEPT !.phyPN = IF pnTo = "none" THEN @ ELSE pnTo]
  /\ pnTo' = "none"
  /\ UNCHANGED <<hwVars, time, power, phyNegoStat, upVars, sel, bit5>>

\* PHY_PN_SWITCH and, where a partner answered, phyLinkCnt = 0.
PnSwitch(at) ==
  /\ At(at) /\ Goto("link")
  /\ neg' = [neg EXCEPT !.phyPN = IF pnTo = "none" THEN @ ELSE pnTo,
                        !.phyLinkCnt = IF at = "pnZero" THEN 0 ELSE @]
  /\ pnTo' = "none"
  /\ UNCHANGED <<hwVars, time, power, phyNegoStat, upVars, sel, bit5>>

-----------------------------------------------------------------------------
(* PHY link complete: polarity, and the thread's part of the turn. *)

Linked ==
  /\ At("linked")
  /\ Goto(IF neg.PhyPolarityDetect THEN "polRead" ELSE "link")
  /\ UNCHANGED <<hwVars, time, power, neg, phyNegoStat, upVars, locals>>

\* WCHNET_PhyPNProcess: with a good frame counted the polarity is right.
PhyPNProcess ==
  /\ At("pol") /\ Goto("link")
  /\ succAge' = 0
  /\ \E good \in BOOLEAN :
       /\ neg' = IF good THEN [neg EXCEPT !.PhyPolarityDetect = FALSE] ELSE neg
       /\ macFilter' = (macFilter \/ good)
  /\ UNCHANGED <<hwVars, lag, readAge, linkAge, negoAge, offFor, power,
                 phyNegoStat, LinkSta, link_was_up, locals>>

\* lwip_netif_thread: an edge of LinkSta, else the turn ends.
ThreadLink ==
  /\ At("link")
  /\ Goto(IF LinkSta /\ ~link_was_up THEN "filter" ELSE "top")
  /\ link_was_up' = LinkSta
  /\ lag' = IF tpc' = "top" THEN 0 ELSE lag
  /\ UNCHANGED <<hwVars, readAge, linkAge, succAge, negoAge, offFor, power,
                 neg, phyNegoStat, LinkSta, macFilter, locals>>

\* ETH_EnableMacFilter, after netifapi_netif_set_link_up.
EnableMacFilter ==
  /\ At("filter") /\ Goto("top")
  /\ macFilter' = TRUE /\ lag' = 0
  /\ UNCHANGED <<hwVars, readAge, linkAge, succAge, negoAge, offFor, power,
                 neg, phyNegoStat, LinkSta, link_was_up, locals>>

NetifTask ==
  \/ Top \/ Run
  \/ ReadTime("rstRead", "rstCmp")
  \/ Compare("rstCmp", linkAge, ResetWait, "rstClear")
  \/ ResetClear \/ ResetOn
  \/ LinkResetBcr \/ LinkResetStatus \/ LinkResetParams
  \/ Accelerate
  \/ ReadTime("dueRead", "dueCmp")
  \/ Compare("dueCmp", linkAge, neg.LinkTaskPeriod, "stamp")
  \/ Stamp \/ ReadRegs \/ Count \/ PnSwitch("pn") \/ PnSwitch("pnZero")
  \/ Linked
  \/ ReadTime("polRead", "polCmp")
  \/ Compare("polCmp", succAge, 2 * Period, "pol")
  \/ PhyPNProcess
  \/ ThreadLink \/ EnableMacFilter

Isr == IsrPhyLink \/ IsrClear

PhyNext == HwLinkUp \/ HwLinkDown \/ TimeIsr \/ Isr \/ NetifTask

PhySpec == Init /\ [][PhyNext]_vars

\* An interrupt is served, the task runs and the timer expires again and again.
PhyFairSpec ==
  PhySpec /\ WF_vars(Isr) /\ WF_vars(NetifTask) /\ WF_vars(TimeIsr)

-----------------------------------------------------------------------------
(* Properties. *)

\* The limits of WCHNET_LinkProcess are tested with ==, so a counter that once
\* passed its limit would count on to its wrap.  Although the limit depends on
\* the state of the search and the interrupt restarts the search at any time,
\* no counter is beyond its limit when LinkProcess is about to count.
CountersInReach ==
  tpc = "count" => /\ neg.phyLinkCnt <= Limit
                   /\ neg.TRDetectStep = 1 => neg.TRDetectCnt < TRLimit

\* A PHY whose clock the interrupt stopped is always on the task's list.
OffNotForgotten == ~phyOn => phyLinkReset \/ tpc = "rstOn"

\* Without a link the search never rests: phyStatus, which ends it, outlives
\* LinkSta only until the pending restart.
SearchRuns ==
  ~LinkSta /\ neg.phyStatus =>
    phyLinkReset \/ tpc \in {"rstOn", "bcr", "init1"}

\* "for lwIP the MAC filter should be active": on a link in use an open filter
\* has somebody who will close it.
FilterHasOwner ==
  LinkSta /\ neg.phyStatus /\ ~macFilter =>
    neg.PhyPolarityDetect \/ ~link_was_up \/ tpc = "filter"

\* Whatever the interrupt does to the counters and to the filter between two
\* accesses of the task, no counter passes a limit tested with ==, and no open
\* filter is forgotten.
SearchInv == TypeOK /\ CountersInReach /\ FilterHasOwner

\* "wait 500ms before turning on the PHY clock".
StaysOff == [][~phyOn /\ phyOn' => offFor >= ResetWait]_vars

\* A PHY that was switched off is switched on again.
PhyComesBack == ~phyOn ~> phyOn

\* "recovers a dropped link": a link that stays lost is reported lost.
DropIsReported == []<>(hwUp \/ ~LinkSta)
=============================================================================
