--------------------------- MODULE Phy10M_proofs ----------------------------
(***************************************************************************)
(* The 10M driver's restart is never lost and its search never rests, for  *)
(* every choice of the limits, the waits and the number of link-ups.       *)
(***************************************************************************)
EXTENDS Phy10M, TLAPS

PhyInv == TypeOK /\ OffNotForgotten /\ SearchRuns

-----------------------------------------------------------------------------

\* The counters stay in their width.
LEMMA IncInWidth == ASSUME NEW c \in Counters PROVE Inc(c) \in Counters
BY PhyAssumption DEF Counters, Inc

LEMMA ZeroInWidth == 0 \in Counters
BY PhyAssumption DEF Counters

\* Every way the code assigns to the negotiation's globals keeps their types.
LEMMA SetCounter ==
  ASSUME NEW n \in Negotiation, NEW c \in Counters
  PROVE  /\ [n EXCEPT !.phyLinkCnt = c] \in Negotiation
         /\ [n EXCEPT !.phySucCnt = c] \in Negotiation
         /\ [n EXCEPT !.TRDetectCnt = c] \in Negotiation
         /\ [n EXCEPT !.phyLinkCnt = c].phyStatus = n.phyStatus
         /\ [n EXCEPT !.phySucCnt = c].phyStatus = n.phyStatus
         /\ [n EXCEPT !.TRDetectCnt = c].phyStatus = n.phyStatus
BY DEF Negotiation

LEMMA SetStep ==
  ASSUME NEW n \in Negotiation, NEW s \in 0 .. 2
  PROVE  /\ [n EXCEPT !.TRDetectStep = s] \in Negotiation
         /\ [n EXCEPT !.TRDetectStep = s].phyStatus = n.phyStatus
BY DEF Negotiation

LEMMA SetLinkStatus ==
  ASSUME NEW n \in Negotiation, NEW w \in {"init", "wait"}
  PROVE  /\ [n EXCEPT !.phyLinkStatus = w] \in Negotiation
         /\ [n EXCEPT !.phyLinkStatus = w].phyStatus = n.phyStatus
BY DEF Negotiation

LEMMA SetPN ==
  ASSUME NEW n \in Negotiation, NEW p \in Polarities
  PROVE  /\ [n EXCEPT !.phyPN = p] \in Negotiation
         /\ [n EXCEPT !.phyPN = p].phyStatus = n.phyStatus
BY DEF Negotiation

LEMMA SetPeriod ==
  ASSUME NEW n \in Negotiation, NEW t \in 0 .. MaxPeriod
  PROVE  /\ [n EXCEPT !.LinkTaskPeriod = t] \in Negotiation
         /\ [n EXCEPT !.LinkTaskPeriod = t].phyStatus = n.phyStatus
BY DEF Negotiation

LEMMA SetDetect ==
  ASSUME NEW n \in Negotiation, NEW b \in BOOLEAN
  PROVE  /\ [n EXCEPT !.PhyPolarityDetect = b] \in Negotiation
         /\ [n EXCEPT !.PhyPolarityDetect = b].phyStatus = n.phyStatus
BY DEF Negotiation

LEMMA SetStatus ==
  ASSUME NEW n \in Negotiation, NEW b \in BOOLEAN
  PROVE  /\ [n EXCEPT !.phyStatus = b] \in Negotiation
         /\ [n EXCEPT !.phyStatus = b].phyStatus = b
BY DEF Negotiation

LEMMA InitPhy == Init => PhyInv
<1> SUFFICES ASSUME Init PROVE PhyInv
  OBVIOUS
<1>1. neg \in Negotiation
  BY PhyAssumption DEF Init, Negotiation, Counters, Polarities
<1>2. /\ events \in 0 .. MaxEvents /\ downFor \in 0 .. MinDown
      /\ lag \in 0 .. MaxLag /\ readAge \in Nat
      /\ linkAge \in 0 .. LinkCap /\ succAge \in 0 .. SuccCap
      /\ negoAge \in 0 .. NegoWait /\ offFor \in 0 .. ResetWait
  BY PhyAssumption DEF Init, LinkCap, SuccCap
<1>3. TypeOK
  BY <1>1, <1>2 DEF Init, TypeOK, Pcs, Polarities
<1> QED
  BY <1>3 DEF Init, PhyInv, OffNotForgotten, SearchRuns

-----------------------------------------------------------------------------
(* Steps. *)

\* PHY_NEGOTIATION_PARAM_INIT sets every field it touches within its type.
LEMMA ParamInitType ==
  ASSUME NEW n \in Negotiation
  PROVE  /\ ParamInit(n) \in Negotiation
         /\ ParamInit(n).phyStatus = n.phyStatus
<1> DEFINE n1 == [n EXCEPT !.phySucCnt = 0]
           n2 == [n1 EXCEPT !.phyLinkCnt = 0]
           n3 == [n2 EXCEPT !.TRDetectStep = 0]
           n4 == [n3 EXCEPT !.PhyPolarityDetect = FALSE]
           n5 == [n4 EXCEPT !.phyLinkStatus = "init"]
           n6 == [n5 EXCEPT !.phyPN = "auto"]
<1>1. n1 \in Negotiation /\ n1.phyStatus = n.phyStatus
  BY SetCounter, ZeroInWidth
<1>2. n2 \in Negotiation /\ n2.phyStatus = n.phyStatus
  <2> HIDE DEF n1
  <2> QED BY <1>1, SetCounter, ZeroInWidth
<1>3. n3 \in Negotiation /\ n3.phyStatus = n.phyStatus
  <2>1. 0 \in 0 .. 2
    OBVIOUS
  <2> HIDE DEF n2
  <2> QED BY <1>2, <2>1, SetStep
<1>4. n4 \in Negotiation /\ n4.phyStatus = n.phyStatus
  <2> HIDE DEF n3
  <2> QED BY <1>3, SetDetect
<1>5. n5 \in Negotiation /\ n5.phyStatus = n.phyStatus
  <2> HIDE DEF n4
  <2> QED BY <1>4, SetLinkStatus
<1>6. n6 \in Negotiation /\ n6.phyStatus = n.phyStatus
  <2>1. "auto" \in Polarities
    BY DEF Polarities
  <2> HIDE DEF n5
  <2> QED BY <1>5, <2>1, SetPN
<1>7. ParamInit(n) = n6
  BY DEF ParamInit
<1> QED
  <2> HIDE DEF n6
  <2> QED BY <1>6, <1>7

\* How the interrupt moves the timers and the polarity memory.
LEMMA NegoStatType ==
  ASSUME PhyInv, NEW e \in BOOLEAN, NEW m \in BOOLEAN, NEW c \in BOOLEAN,
         EthPhyLink(e, m, c)
  PROVE  phyNegoStat' \subseteq {"last", "turn"} /\ negoAge' \in 0 .. NegoWait
<1>1. 0 \in 0 .. NegoWait /\ NegoWait \in 0 .. NegoWait
  BY PhyAssumption
<1> QED
  BY <1>1 DEF PhyInv, TypeOK, EthPhyLink, ParallelDetected, ParallelLost

\* What ETH_PHYLink does to the state of the search is one of three things.
LEMMA PhyLinkCases ==
  ASSUME NEW e, NEW m, NEW c, EthPhyLink(e, m, c)
  PROVE  LinkUpCfg \/ PowerOff \/ IsrLinkReset
BY DEF EthPhyLink

LEMMA UpdatedByIsr ==
  ASSUME PhyInv
  PROVE  /\ LinkUpCfg => neg' \in Negotiation
         /\ IsrLinkReset => neg' \in Negotiation /\ neg'.phyStatus = FALSE
<1> DEFINE up == [neg EXCEPT !.phyStatus = TRUE]
           down == [neg EXCEPT !.phyStatus = FALSE]
<1>1. up \in Negotiation
  BY SetStatus DEF PhyInv, TypeOK
<1>2. down \in Negotiation /\ down.phyStatus = FALSE
  BY SetStatus DEF PhyInv, TypeOK
<1>3. LinkUpCfg => neg' = [up EXCEPT !.PhyPolarityDetect = TRUE]
  BY DEF LinkUpCfg
<1>4. IsrLinkReset => neg' = ParamInit(down)
  BY DEF IsrLinkReset
<1> HIDE DEF up, down
<1>5. [up EXCEPT !.PhyPolarityDetect = TRUE] \in Negotiation
  BY <1>1, SetDetect
<1>6. ParamInit(down) \in Negotiation /\ ParamInit(down).phyStatus = FALSE
  BY <1>2, ParamInitType
<1> QED
  BY <1>3, <1>4, <1>5, <1>6

\* ETH_PHYLink: a link is reported with the search ended, or the PHY is
\* stopped with its restart requested, or the search begins anew.
LEMMA StepPhyLink == ASSUME PhyInv, IsrPhyLink PROVE PhyInv'
<1>1. PICK e \in BOOLEAN, m \in BOOLEAN, c \in BOOLEAN : EthPhyLink(e, m, c)
  BY DEF IsrPhyLink
<1>2. /\ phyNegoStat' \subseteq {"last", "turn"} /\ negoAge' \in 0 .. NegoWait
      /\ LinkUpCfg \/ PowerOff \/ IsrLinkReset
  BY <1>1, NegoStatType, PhyLinkCases
<1>3. isr' = "clr" /\ UNCHANGED <<tpc, lag, readAge, link_was_up, locals>>
  BY DEF IsrPhyLink
<1>4. /\ 0 \in 0 .. LinkCap /\ 0 \in 0 .. SuccCap /\ 0 \in 0 .. ResetWait
      /\ 0 \in 0 .. MinDown
  BY PhyAssumption DEF LinkCap, SuccCap
<1>5. CASE LinkUpCfg
  <2>1. TypeOK'
    BY <1>2, <1>3, <1>4, <1>5, UpdatedByIsr
    DEF PhyInv, TypeOK, LinkUpCfg, hwVars, power, locals
  <2> QED
    BY <2>1, <1>3, <1>5 DEF PhyInv, OffNotForgotten, SearchRuns, LinkUpCfg, power
<1>6. CASE PowerOff
  <2>1. TypeOK'
    BY <1>2, <1>3, <1>4, <1>6
    DEF PhyInv, TypeOK, PowerOff, HwLoses, locals
  <2> QED
    BY <2>1, <1>3, <1>6 DEF PhyInv, OffNotForgotten, SearchRuns, PowerOff
<1>7. CASE IsrLinkReset
  <2>1. TypeOK'
    BY <1>2, <1>3, <1>4, <1>7, UpdatedByIsr
    DEF PhyInv, TypeOK, IsrLinkReset, HwLoses, power, locals
  <2> QED
    BY <2>1, <1>3, <1>7, UpdatedByIsr
    DEF PhyInv, OffNotForgotten, SearchRuns, IsrLinkReset, power
<1> QED
  BY <1>2, <1>5, <1>6, <1>7

\* The steps of the hardware, the timer and the end of the interrupt leave the
\* search and the restart alone.
LEMMA StepOutside ==
  ASSUME PhyInv, HwLinkUp \/ HwLinkDown \/ TimeIsr \/ IsrClear
  PROVE  PhyInv'
<1>1. /\ UNCHANGED <<power, neg, phyNegoStat, upVars, locals, tpc>>
      /\ isr' \in {"off", "clr"}
  BY DEF HwLinkUp, HwLinkDown, TimeIsr, IsrClear, PhyInv, TypeOK
<1>2. hwUp' \in BOOLEAN /\ phylink' \in BOOLEAN
  BY DEF HwLinkUp, HwLinkDown, TimeIsr, IsrClear, PhyInv, TypeOK
<1>3. events' \in 0 .. MaxEvents /\ downFor' \in 0 .. MinDown
  BY PhyAssumption DEF HwLinkUp, HwLinkDown, TimeIsr, IsrClear, PhyInv, TypeOK
<1>4. /\ lag' \in 0 .. MaxLag /\ readAge' \in Nat
      /\ linkAge' \in 0 .. LinkCap /\ succAge' \in 0 .. SuccCap
      /\ negoAge' \in 0 .. NegoWait /\ offFor' \in 0 .. ResetWait
  <2>1. LinkCap \in Nat /\ SuccCap \in Nat /\ NegoWait \in Nat /\ ResetWait \in Nat
    BY PhyAssumption DEF LinkCap, SuccCap
  <2>2. CASE TimeIsr
    BY <2>1, <2>2, PhyAssumption DEF TimeIsr, Older, PhyInv, TypeOK
  <2>3. CASE HwLinkUp \/ HwLinkDown \/ IsrClear
    BY <2>3 DEF HwLinkUp, HwLinkDown, IsrClear, time, PhyInv, TypeOK
  <2> QED
    BY <2>2, <2>3
<1>5. TypeOK'
  BY <1>1, <1>2, <1>3, <1>4 DEF PhyInv, TypeOK, power, upVars, locals
<1> QED
  BY <1>1, <1>5 DEF PhyInv, OffNotForgotten, SearchRuns, power, upVars

\* The branches of WCHNET_LinkProcess change what they count, never phyStatus.
LEMMA CountKeeps ==
  ASSUME PhyInv, Count
  PROVE  /\ neg' \in Negotiation /\ neg'.phyStatus = neg.phyStatus
         /\ pnTo' \in Polarities \cup {"none"}
         /\ tpc' \in {"link", "pn", "pnZero", "bcr"}
<1> DEFINE Kept(n) == n \in Negotiation /\ n.phyStatus = neg.phyStatus
<1>1. Kept(neg) /\ neg.phyLinkCnt \in Counters /\ neg.phySucCnt \in Counters
                /\ neg.TRDetectCnt \in Counters
  BY DEF PhyInv, TypeOK, Negotiation
<1>2. /\ 0 \in 0 .. 2 /\ 1 \in 0 .. 2 /\ 2 \in 0 .. 2
      /\ 0 \in Counters /\ 1 \in Counters
      /\ \A p \in Period .. MaxPeriod : p \in 0 .. MaxPeriod
  BY PhyAssumption DEF Counters
<1>3. {"P", "N", "auto", "none"} \subseteq Polarities \cup {"none"}
  BY DEF Polarities
<1>4. \A n, to : Then(n, to) => /\ neg' = n /\ pnTo' = to
                                /\ tpc' \in {"pn", "pnZero"}
  BY DEF Then, Goto
<1>5. CASE AnswerFirst
  <2>1. PICK p \in Period .. MaxPeriod :
          neg' = [neg EXCEPT !.TRDetectStep = 1, !.TRDetectCnt = 1,
                             !.LinkTaskPeriod = p]
    BY <1>5 DEF AnswerFirst
  <2> DEFINE a == [neg EXCEPT !.TRDetectStep = 1]
             b == [a EXCEPT !.TRDetectCnt = 1]
  <2>2. Kept(a)
    BY <1>1, <1>2, SetStep
  <2>3. Kept(b)
    <3> HIDE DEF a
    <3> QED BY <2>2, <1>2, SetCounter
  <2>4. neg' = [b EXCEPT !.LinkTaskPeriod = p]
    BY <2>1
  <2>5. Kept(neg')
    <3> HIDE DEF b
    <3> QED BY <2>3, <2>4, <1>2, SetPeriod
  <2> QED
    BY <2>5, <1>5 DEF AnswerFirst, Goto, PhyInv, TypeOK
<1>6. CASE Answered
  <2> DEFINE s2 == [neg EXCEPT !.TRDetectStep = 2]
             n == IF neg.TRDetectStep = 1
                  THEN [neg EXCEPT !.TRDetectStep = 2, !.TRDetectCnt = 0] ELSE neg
             other == IF neg.phyPN = "N" THEN "P" ELSE "N"
             n1 == [n EXCEPT !.phyLinkStatus = "wait"]
             n2 == [n EXCEPT !.phySucCnt = 0]
             n3 == [n EXCEPT !.phySucCnt = Inc(n.phySucCnt)]
  <2>1. Kept(s2)
    BY <1>1, <1>2, SetStep
  <2>2. Kept([s2 EXCEPT !.TRDetectCnt = 0])
    <3> HIDE DEF s2
    <3> QED BY <2>1, <1>2, SetCounter
  <2>3. Kept(n)
    BY <1>1, <2>2
  <2>4. \/ Then(n, "P") \/ Then(n1, "none") \/ Then(n2, other) \/ Then(n3, "none")
    BY <1>6 DEF Answered
  <2> HIDE DEF n
  <2>5. Kept(n1) /\ Kept(n2)
    BY <2>3, <1>2, SetLinkStatus, SetCounter
  <2>6. Kept(n3)
    <3>1. n.phySucCnt \in Counters
      BY <2>3 DEF Negotiation
    <3> QED BY <3>1, <2>3, IncInWidth, SetCounter
  <2> HIDE DEF n1, n2, n3
  <2> QED
    BY <2>3, <2>4, <2>5, <2>6, <1>3, <1>4
<1>7. CASE SwapPairs
  <2> DEFINE c == Inc(neg.TRDetectCnt)
             a == [neg EXCEPT !.TRDetectCnt = 0]
  <2>1. c \in Counters
    BY <1>1, IncInWidth
  <2> HIDE DEF c
  <2>2. Kept([neg EXCEPT !.TRDetectCnt = c]) /\ Kept(a)
    BY <2>1, <1>1, <1>2, SetCounter
  <2>3. \/ neg' = [neg EXCEPT !.TRDetectCnt = c]
        \/ neg' = [a EXCEPT !.TRDetectStep = 0]
    BY <1>7 DEF SwapPairs, c
  <2>4. Kept([a EXCEPT !.TRDetectStep = 0])
    <3> HIDE DEF a
    <3> QED BY <2>2, <1>2, SetStep
  <2> QED
    BY <2>2, <2>3, <2>4, <1>7 DEF SwapPairs, Goto, PhyInv, TypeOK
<1>8. CASE NoAnswer
  <2> DEFINE z == [neg EXCEPT !.phyLinkCnt = 0]
             i == [neg EXCEPT !.phyLinkCnt = Inc(neg.phyLinkCnt)]
             a == [z EXCEPT !.phySucCnt = 0]
             b == [a EXCEPT !.TRDetectStep = 0]
             c == [b EXCEPT !.phyLinkStatus = "init"]
  <2>1. Kept(z) /\ Kept(i)
    BY <1>1, <1>2, IncInWidth, SetCounter
  <2>2. Kept(a)
    <3> HIDE DEF z
    <3> QED BY <2>1, <1>2, SetCounter
  <2>3. Kept(b)
    <3> HIDE DEF a
    <3> QED BY <2>2, <1>2, SetStep
  <2>4. Kept(c)
    <3> HIDE DEF b
    <3> QED BY <2>3, SetLinkStatus
  <2>5. BackToAuto => Then(c, "auto")
    BY DEF BackToAuto
  <2>6. \/ Then(i, "none") \/ Then(c, "auto") \/ Then(z, "N")
        \/ neg' = i /\ tpc' = "bcr" /\ pnTo' = pnTo
    BY <1>8, <2>5 DEF NoAnswer, Goto
  <2> HIDE DEF c, z, i
  <2> QED
    BY <2>1, <2>4, <2>6, <1>3, <1>4 DEF PhyInv, TypeOK
<1> QED
  BY <1>5, <1>6, <1>7, <1>8 DEF Count

\* The steps of the task that only look: at flags, at LocalTime, at registers.
LEMMA StepLook ==
  ASSUME PhyInv,
         \/ Top \/ Run \/ Linked \/ ReadRegs
         \/ ReadTime("rstRead", "rstCmp") \/ ReadTime("dueRead", "dueCmp")
         \/ ReadTime("polRead", "polCmp")
         \/ Compare("rstCmp", linkAge, ResetWait, "rstClear")
         \/ Compare("dueCmp", linkAge, neg.LinkTaskPeriod, "stamp")
         \/ Compare("polCmp", succAge, 2 * Period, "pol")
  PROVE  PhyInv'
<1>1. /\ UNCHANGED <<hwVars, power, neg, phyNegoStat, upVars, pnTo>>
      /\ UNCHANGED <<lag, linkAge, succAge, negoAge, offFor, isr>>
      /\ sel' \in BOOLEAN /\ bit5' \in BOOLEAN
  BY DEF Top, Run, Linked, ReadRegs, ReadTime, Compare, Goto, locals, time,
         PhyInv, TypeOK
<1>2. readAge' \in Nat
  BY DEF Top, Run, Linked, ReadRegs, ReadTime, Compare, time, PhyInv, TypeOK
<1>3. /\ tpc \notin {"rstOn", "bcr", "init1"}
      /\ tpc' \in Pcs
  BY DEF Top, Run, Linked, ReadRegs, ReadTime, Compare, Goto, At, Pcs
<1>4. TypeOK'
  BY <1>1, <1>2, <1>3 DEF PhyInv, TypeOK, hwVars, power, upVars
<1> QED
  BY <1>1, <1>3, <1>4 DEF PhyInv, OffNotForgotten, SearchRuns, power, upVars

\* The restart of the PHY: the request is dropped before the clock is back, so
\* a stop that comes between is not overlooked.
LEMMA StepRestart ==
  ASSUME PhyInv,
         ResetClear \/ ResetOn \/ LinkResetBcr \/ LinkResetStatus \/ LinkResetParams
  PROVE  PhyInv'
<1>1. 0 \in 0 .. ResetWait /\ 0 \in 0 .. MinDown
  BY PhyAssumption
<1>2. CASE ResetClear
  <2>1. TypeOK'
    BY <1>2 DEF PhyInv, TypeOK, ResetClear, Goto, Pcs, hwVars, time, upVars, locals
  <2> QED
    BY <1>2, <2>1 DEF PhyInv, OffNotForgotten, SearchRuns, ResetClear, Goto, upVars
<1>3. CASE ResetOn
  <2>1. TypeOK'
    BY <1>1, <1>3 DEF PhyInv, TypeOK, ResetOn, Goto, Pcs, hwVars, upVars, locals
  <2> QED
    BY <1>3, <2>1 DEF PhyInv, OffNotForgotten, SearchRuns, ResetOn, Goto, At, upVars
<1>4. CASE LinkResetBcr
  <2>1. TypeOK'
    BY <1>1, <1>4
    DEF PhyInv, TypeOK, LinkResetBcr, HwLoses, Goto, Pcs, time, power, upVars, locals
  <2> QED
    BY <1>4, <2>1
    DEF PhyInv, OffNotForgotten, SearchRuns, LinkResetBcr, Goto, At, power, upVars
<1>5. CASE LinkResetStatus
  <2>1. neg' \in Negotiation /\ neg'.phyStatus = FALSE
    BY <1>5, SetStatus DEF PhyInv, TypeOK, LinkResetStatus
  <2>2. TypeOK'
    BY <1>5, <2>1
    DEF PhyInv, TypeOK, LinkResetStatus, Goto, Pcs, hwVars, time, power, upVars, locals
  <2> QED
    BY <1>5, <2>1, <2>2
    DEF PhyInv, OffNotForgotten, SearchRuns, LinkResetStatus, Goto, At, power, upVars
<1>6. CASE LinkResetParams
  <2>1. neg' \in Negotiation /\ neg'.phyStatus = neg.phyStatus
    BY <1>6, ParamInitType DEF PhyInv, TypeOK, LinkResetParams
  <2>2. TypeOK'
    BY <1>6, <2>1
    DEF PhyInv, TypeOK, LinkResetParams, Goto, Pcs, hwVars, time, power, upVars, locals
  <2> QED
    BY <1>6, <2>1, <2>2
    DEF PhyInv, OffNotForgotten, SearchRuns, LinkResetParams, Goto, At, power, upVars
<1> QED
  BY <1>2, <1>3, <1>4, <1>5, <1>6

\* The search: period, stamp, count, polarity.
LEMMA StepSearch ==
  ASSUME PhyInv,
         Accelerate \/ Stamp \/ Count \/ PnSwitch("pn") \/ PnSwitch("pnZero")
  PROVE  PhyInv'
<1> DEFINE Kept == /\ neg' \in Negotiation /\ neg'.phyStatus = neg.phyStatus
                   /\ pnTo' \in Polarities \cup {"none"} /\ tpc' \in Pcs
                   /\ tpc \notin {"rstOn", "bcr", "init1"}
<1>1. Kept
  <2>0. neg \in Negotiation /\ 0 \in 0 .. MaxPeriod /\ Period \in 0 .. MaxPeriod
        /\ \A p \in Period .. MaxPeriod : p \in 0 .. MaxPeriod
    BY PhyAssumption DEF PhyInv, TypeOK
  <2>1. CASE Accelerate
    BY <2>0, <2>1, SetPeriod DEF Accelerate, Goto, At, locals, Pcs, PhyInv, TypeOK
  <2>2. CASE Stamp
    BY <2>0, <2>2, SetPeriod DEF Stamp, Goto, At, locals, Pcs, PhyInv, TypeOK
  <2>3. CASE Count
    BY <2>3, CountKeeps DEF Count, At, Pcs
  <2>4. ASSUME NEW at \in {"pn", "pnZero"}, PnSwitch(at)
        PROVE  Kept
    <3> DEFINE to == IF pnTo = "none" THEN neg.phyPN ELSE pnTo
               cnt == IF at = "pnZero" THEN 0 ELSE neg.phyLinkCnt
               a == [neg EXCEPT !.phyPN = to]
    <3>1. to \in Polarities /\ cnt \in Counters
      BY ZeroInWidth DEF PhyInv, TypeOK, Negotiation
    <3>2. a \in Negotiation /\ a.phyStatus = neg.phyStatus
          /\ a.phyLinkCnt = neg.phyLinkCnt
      BY <2>0, <3>1, SetPN DEF Negotiation
    <3>3. neg' = [a EXCEPT !.phyLinkCnt = cnt]
      BY <2>4, <3>2 DEF PnSwitch
    <3>4. neg' \in Negotiation /\ neg'.phyStatus = neg.phyStatus
      <4> HIDE DEF a, cnt
      <4> QED BY <3>1, <3>2, <3>3, SetCounter
    <3> QED
      BY <3>4, <2>4 DEF PnSwitch, Goto, At, Pcs
  <2> QED
    BY <2>1, <2>2, <2>3, <2>4
<1>2. linkAge' \in 0 .. LinkCap /\ sel' \in BOOLEAN /\ bit5' \in BOOLEAN
  <2>1. linkAge' = linkAge \/ linkAge' = 0
    BY DEF Accelerate, Stamp, Count, PnSwitch, time
  <2>2. linkAge' \in 0 .. LinkCap
    BY <2>1, PhyAssumption DEF PhyInv, TypeOK, LinkCap
  <2>3. (sel' = sel \/ sel' = FALSE) /\ (bit5' = bit5 \/ bit5' = FALSE)
    BY DEF Accelerate, Stamp, Count, PnSwitch, locals
  <2> QED
    BY <2>2, <2>3 DEF PhyInv, TypeOK
<1>3. /\ UNCHANGED <<hwVars, power, phyNegoStat, upVars>>
      /\ UNCHANGED <<lag, readAge, succAge, negoAge, offFor, isr>>
  BY DEF Accelerate, Stamp, Count, PnSwitch, time, Goto, AnswerFirst, Answered,
         SwapPairs, NoAnswer, Then, BackToAuto
<1>4. TypeOK'
  BY <1>1, <1>2, <1>3 DEF PhyInv, TypeOK, hwVars, power, upVars
<1> QED
  BY <1>1, <1>3, <1>4 DEF PhyInv, OffNotForgotten, SearchRuns, power, upVars

\* A link is there: polarity detection and the thread's edge.
LEMMA StepLinked ==
  ASSUME PhyInv, PhyPNProcess \/ ThreadLink \/ EnableMacFilter
  PROVE  PhyInv'
<1>1. neg' \in Negotiation /\ neg'.phyStatus = neg.phyStatus
  BY SetDetect DEF PhyInv, TypeOK, PhyPNProcess, ThreadLink, EnableMacFilter
<1>2. /\ lag' \in 0 .. MaxLag /\ succAge' \in 0 .. SuccCap
      /\ UNCHANGED <<readAge, linkAge, negoAge, offFor>>
  BY PhyAssumption
  DEF PhyInv, TypeOK, PhyPNProcess, ThreadLink, EnableMacFilter, SuccCap
<1>3. /\ macFilter' \in BOOLEAN /\ link_was_up' \in BOOLEAN
      /\ UNCHANGED <<hwVars, power, phyNegoStat, LinkSta, locals, isr>>
      /\ tpc' \in Pcs /\ tpc \notin {"rstOn", "bcr", "init1"}
  BY DEF PhyInv, TypeOK, PhyPNProcess, ThreadLink, EnableMacFilter, Goto, At, Pcs
<1>4. TypeOK'
  BY <1>1, <1>2, <1>3 DEF PhyInv, TypeOK, hwVars, power, locals
<1> QED
  BY <1>1, <1>3, <1>4 DEF PhyInv, OffNotForgotten, SearchRuns, power

\* No step of the driver, the PHY or the timer breaks the invariant.
LEMMA StepPhy == PhyInv /\ [PhyNext]_vars => PhyInv'
<1> SUFFICES ASSUME PhyInv, [PhyNext]_vars PROVE PhyInv'
  OBVIOUS
<1>1. CASE NetifTask
  BY <1>1, StepLook, StepRestart, StepSearch, StepLinked DEF NetifTask
<1>2. CASE Isr
  BY <1>2, StepPhyLink, StepOutside DEF Isr
<1>3. CASE HwLinkUp \/ HwLinkDown \/ TimeIsr
  BY <1>3, StepOutside
<1>4. CASE UNCHANGED vars
  BY <1>4 DEF PhyInv, TypeOK, OffNotForgotten, SearchRuns, vars, hwVars, time,
              power, upVars, locals
<1> QED
  BY <1>1, <1>2, <1>3, <1>4 DEF PhyNext

\* A PHY whose clock ETH_PHYLink stopped always has its restart pending, for
\* every interleaving of the interrupt with WCHNET_HandlePhyNegotiation.
THEOREM PhyOffPending == PhySpec => []OffNotForgotten
<1>1. PhyInv => OffNotForgotten
  BY DEF PhyInv
<1> QED
  BY InitPhy, StepPhy, <1>1, PTL DEF PhySpec

\* The search for a link never rests without one: phyStatus without LinkSta
\* always has the restart ahead that clears it.
THEOREM PhySearchRuns == PhySpec => []SearchRuns
<1>1. PhyInv => SearchRuns
  BY DEF PhyInv
<1> QED
  BY InitPhy, StepPhy, <1>1, PTL DEF PhySpec

-----------------------------------------------------------------------------
(* The limits tested with ==. *)

\* The counters as the interrupt and the task leave them to one another: the
\* one that goes on to a reset may have passed its limit, no other.
InReach ==
  /\ tpc \notin {"pnZero", "bcr", "init1", "init2"} => neg.phyLinkCnt <= Limit
  /\ tpc = "pn" /\ pnTo # "none" => neg.phyLinkCnt = 0
  /\ neg.TRDetectStep = 1 => neg.TRDetectCnt < TRLimit

LEMMA LimitNat == Limit \in Nat /\ Limit' \in Nat
BY PhyAssumption DEF Limit

LEMMA CountersNat ==
  ASSUME TypeOK
  PROVE  /\ neg.phyLinkCnt \in Nat /\ neg.TRDetectCnt \in Nat
         /\ neg.phyLinkCnt \in Counters /\ neg.TRDetectCnt \in Counters
BY PhyAssumption DEF TypeOK, Negotiation, Counters

\* A step that leaves the five fields the limits are about alone.
LEMMA SameCounters ==
  ASSUME InReach,
         neg'.phyLinkCnt = neg.phyLinkCnt, neg'.phyPN = neg.phyPN,
         neg'.phyLinkStatus = neg.phyLinkStatus,
         neg'.TRDetectStep = neg.TRDetectStep,
         neg'.TRDetectCnt = neg.TRDetectCnt, pnTo' = pnTo,
         tpc \in {"pnZero", "bcr", "init1", "init2"}
           => tpc' \in {"pnZero", "bcr", "init1", "init2"},
         tpc' = "pn" => tpc = "pn"
  PROVE  InReach'
<1>1. Limit' = Limit
  BY DEF Limit
<1> QED
  BY <1>1 DEF InReach

\* A step that begins the search anew.
LEMMA RestartedCounters ==
  ASSUME neg'.phyLinkCnt = 0, neg'.TRDetectStep = 0
  PROVE  InReach'
<1>1. 0 <= Limit'
  BY LimitNat
<1> QED
  BY <1>1 DEF InReach

LEMMA ParamInitIs ==
  ASSUME NEW n \in Negotiation
  PROVE  /\ ParamInit(n).phyLinkCnt = 0 /\ ParamInit(n).TRDetectStep = 0
         /\ ParamInit(n).PhyPolarityDetect = FALSE
BY DEF ParamInit, Negotiation

\* WCHNET_LinkProcess: a counter is stepped only below its limit, and at the
\* limit it is cleared or the search restarted.
LEMMA CountReach == ASSUME PhyInv, InReach, Count PROVE InReach'
<1>0. tpc = "count" /\ neg.phyLinkCnt <= Limit
      /\ (neg.TRDetectStep = 1 => neg.TRDetectCnt < TRLimit)
  BY DEF Count, At, InReach
<1>1. neg \in Negotiation /\ TypeOK
  BY DEF PhyInv, TypeOK
<1>2. CASE AnswerFirst
  <2>1. PICK p \in Period .. MaxPeriod :
          neg' = [neg EXCEPT !.TRDetectStep = 1, !.TRDetectCnt = 1,
                             !.LinkTaskPeriod = p]
    BY <1>2 DEF AnswerFirst
  <2>2. /\ neg'.phyLinkCnt = neg.phyLinkCnt /\ neg'.phyPN = neg.phyPN
        /\ neg'.phyLinkStatus = neg.phyLinkStatus /\ neg'.TRDetectCnt = 1
    BY <1>1, <2>1 DEF Negotiation
  <2>3. Limit' = Limit
    BY <2>2 DEF Limit
  <2>4. tpc' = "link" /\ 1 < TRLimit
    BY <1>2, PhyAssumption DEF AnswerFirst, Goto
  <2> QED
    BY <2>2, <2>3, <2>4, <1>0 DEF InReach
<1>3. CASE Answered
  <2> DEFINE n == IF neg.TRDetectStep = 1
                  THEN [neg EXCEPT !.TRDetectStep = 2, !.TRDetectCnt = 0] ELSE neg
             other == IF neg.phyPN = "N" THEN "P" ELSE "N"
             n1 == [n EXCEPT !.phyLinkStatus = "wait"]
             n2 == [n EXCEPT !.phySucCnt = 0]
             n3 == [n EXCEPT !.phySucCnt = Inc(n.phySucCnt)]
  <2>1. \/ Then(n, "P") \/ Then(n1, "none") \/ Then(n2, other) \/ Then(n3, "none")
    BY <1>3 DEF Answered
  <2>2. tpc' = "pnZero" /\ neg' \in {n, n1, n2, n3}
    <3>1. sel
      BY <1>3 DEF Answered
    <3> HIDE DEF n, n1, n2, n3, other
    <3> QED
      BY <2>1, <3>1 DEF Then, Goto
  <2>3. n.TRDetectStep # 1
    BY <1>1 DEF Negotiation
  <2>4. n1.TRDetectStep # 1 /\ n2.TRDetectStep # 1 /\ n3.TRDetectStep # 1
    <3>1. n \in Negotiation
      <4> DEFINE s2 == [neg EXCEPT !.TRDetectStep = 2]
      <4>1. s2 \in Negotiation
        <5>1. 2 \in 0 .. 2
          OBVIOUS
        <5> QED BY <5>1, <1>1, SetStep
      <4>2. [s2 EXCEPT !.TRDetectCnt = 0] \in Negotiation
        <5> HIDE DEF s2
        <5> QED BY <4>1, ZeroInWidth, SetCounter
      <4> QED
        BY <1>1, <4>2
    <3> HIDE DEF n
    <3> QED
      BY <2>3, <3>1 DEF Negotiation
  <2> HIDE DEF n, n1, n2, n3
  <2> QED
    BY <2>2, <2>3, <2>4 DEF InReach
<1>4. CASE SwapPairs
  <2> DEFINE c == Inc(neg.TRDetectCnt)
  <2>1. c = neg.TRDetectCnt + 1 /\ neg.TRDetectCnt < TRLimit
    <3>1. neg.TRDetectCnt < TRLimit /\ neg.TRDetectCnt \in Nat
      BY <1>0, <1>1, <1>4, CountersNat DEF SwapPairs
    <3>2. TRLimit \in Nat /\ CntModulus \in Nat /\ TRLimit + 1 < CntModulus
      BY PhyAssumption
    <3> QED
      BY <3>1, <3>2 DEF Inc
  <2>2. tpc' = "link"
    BY <1>4 DEF SwapPairs, Goto
  <2>3. neg' = IF c = TRLimit
               THEN [neg EXCEPT !.TRDetectCnt = 0, !.TRDetectStep = 0]
               ELSE [neg EXCEPT !.TRDetectCnt = c]
    BY <1>4 DEF SwapPairs
  <2> HIDE DEF c
  <2>4. /\ neg'.phyLinkCnt = neg.phyLinkCnt /\ neg'.phyPN = neg.phyPN
        /\ neg'.phyLinkStatus = neg.phyLinkStatus
        /\ neg'.TRDetectStep = 1 => neg'.TRDetectCnt = c /\ c # TRLimit
    BY <1>1, <2>3 DEF Negotiation
  <2>5. Limit' = Limit
    BY <2>4 DEF Limit
  <2>6. c # TRLimit => c < TRLimit
    BY <2>1, <1>1, CountersNat, PhyAssumption
  <2> QED
    BY <2>2, <2>4, <2>5, <2>6, <1>0 DEF InReach
<1>5. CASE NoAnswer
  <2> DEFINE z == [neg EXCEPT !.phyLinkCnt = 0]
             i == [neg EXCEPT !.phyLinkCnt = Inc(neg.phyLinkCnt)]
             b == [neg EXCEPT !.phyLinkCnt = 0, !.phySucCnt = 0, !.TRDetectStep = 0,
                              !.phyLinkStatus = "init"]
  <2>1. neg.TRDetectStep # 1 /\ ~sel
    BY <1>5 DEF NoAnswer, Counting, Counted
  <2>2. \/ Then(i, "none") /\ neg.phyLinkCnt # Limit
        \/ Then(b, "auto") \/ Then(z, "N")
        \/ neg' = i /\ tpc' = "bcr"
    BY <1>5 DEF NoAnswer, BackToAuto, Goto, Counting, Counted
  <2>3. i.TRDetectStep # 1 /\ z.TRDetectStep # 1 /\ b.TRDetectStep # 1
        /\ z.phyLinkCnt = 0 /\ b.phyLinkCnt = 0
        /\ i.phyLinkCnt = Inc(neg.phyLinkCnt) /\ i.phyPN = neg.phyPN
        /\ i.phyLinkStatus = neg.phyLinkStatus
    BY <2>1, <1>1 DEF Negotiation
  <2> HIDE DEF i, z, b
  <2>4. CASE Then(i, "none") /\ neg.phyLinkCnt # Limit
    <3>1. neg' = i /\ tpc' = "pn" /\ pnTo' = "none"
      BY <2>4, <2>1 DEF Then, Goto
    <3>2. Limit' = Limit
      BY <3>1, <2>3 DEF Limit
    <3>3. Inc(neg.phyLinkCnt) <= Limit
      <4>1. Limit + 1 < CntModulus /\ CntModulus \in Nat
        BY PhyAssumption DEF Limit
      <4> QED
        BY <4>1, <2>4, <1>0, <1>1, LimitNat, CountersNat DEF Inc
    <3> QED
      BY <3>1, <3>2, <3>3, <2>3 DEF InReach
  <2>5. CASE Then(b, "auto") \/ Then(z, "N")
    <3>1. neg'.phyLinkCnt = 0 /\ neg'.TRDetectStep # 1
      BY <2>5, <2>3 DEF Then
    <3> QED
      BY <3>1, LimitNat DEF InReach
  <2>6. CASE neg' = i /\ tpc' = "bcr"
    BY <2>6, <2>3 DEF InReach
  <2> QED
    BY <2>2, <2>4, <2>5, <2>6
<1> QED
  BY <1>2, <1>3, <1>4, <1>5 DEF Count

\* PHY_PN_SWITCH changes the limit, and comes with a counter that is 0.
LEMMA PnReach ==
  ASSUME PhyInv, InReach, NEW at \in {"pn", "pnZero"}, PnSwitch(at)
  PROVE  InReach'
<1>1. neg \in Negotiation /\ tpc = at /\ tpc' = "link" /\ TypeOK
  BY DEF PhyInv, TypeOK, PnSwitch, At, Goto
<1> DEFINE to == IF pnTo = "none" THEN neg.phyPN ELSE pnTo
           cnt == IF at = "pnZero" THEN 0 ELSE neg.phyLinkCnt
<1>2. neg' = [neg EXCEPT !.phyPN = to, !.phyLinkCnt = cnt]
  BY DEF PnSwitch
<1>3. /\ neg'.phyPN = to /\ neg'.phyLinkCnt = cnt
      /\ neg'.phyLinkStatus = neg.phyLinkStatus
      /\ neg'.TRDetectStep = neg.TRDetectStep /\ neg'.TRDetectCnt = neg.TRDetectCnt
  <2> HIDE DEF to, cnt
  <2> QED
    BY <1>1, <1>2 DEF Negotiation
<1>4. cnt <= Limit'
  <2>1. CASE cnt = 0
    BY <2>1, LimitNat
  <2>2. CASE cnt # 0
    <3>1. at = "pn" /\ pnTo = "none" /\ cnt = neg.phyLinkCnt
      BY <2>2, <1>1 DEF InReach
    <3>2. Limit' = Limit
      BY <3>1, <1>3 DEF Limit
    <3> QED
      BY <3>1, <3>2, <1>1 DEF InReach
  <2> QED
    BY <2>1, <2>2
<1> QED
  BY <1>1, <1>3, <1>4 DEF InReach

\* No step lets a counter pass a limit it is still to be compared with.
LEMMA StepReach ==
  ASSUME PhyInv, InReach, [PhyNext]_vars
  PROVE  InReach'
<1>0. neg \in Negotiation
  BY DEF PhyInv, TypeOK
<1>1. CASE HwLinkUp \/ HwLinkDown \/ TimeIsr \/ IsrClear \/ UNCHANGED vars
  <2>1. neg' = neg /\ pnTo' = pnTo /\ tpc' = tpc
    BY <1>1 DEF HwLinkUp, HwLinkDown, TimeIsr, IsrClear, vars, locals
  <2> QED
    BY <2>1, SameCounters
<1>2. CASE IsrPhyLink
  <2>1. PICK e \in BOOLEAN, m \in BOOLEAN, c \in BOOLEAN : EthPhyLink(e, m, c)
    BY <1>2 DEF IsrPhyLink
  <2>2. tpc' = tpc /\ pnTo' = pnTo
    BY <1>2 DEF IsrPhyLink, locals
  <2>3. CASE LinkUpCfg
    <3>1. neg' = [neg EXCEPT !.phyStatus = TRUE, !.PhyPolarityDetect = TRUE]
      BY <2>3 DEF LinkUpCfg
    <3>2. /\ neg'.phyLinkCnt = neg.phyLinkCnt /\ neg'.phyPN = neg.phyPN
          /\ neg'.phyLinkStatus = neg.phyLinkStatus
          /\ neg'.TRDetectStep = neg.TRDetectStep /\ neg'.TRDetectCnt = neg.TRDetectCnt
      BY <3>1, <1>0 DEF Negotiation
    <3> QED
      BY <2>2, <3>2, SameCounters
  <2>4. CASE PowerOff
    BY <2>2, <2>4, SameCounters DEF PowerOff
  <2>5. CASE IsrLinkReset
    <3> DEFINE d == [neg EXCEPT !.phyStatus = FALSE]
    <3>1. d \in Negotiation /\ neg' = ParamInit(d)
      BY <2>5, <1>0, SetStatus DEF IsrLinkReset
    <3> HIDE DEF d
    <3> QED
      BY <3>1, ParamInitIs, RestartedCounters
  <2> QED
    BY <2>1, <2>3, <2>4, <2>5, PhyLinkCases
<1>3. CASE \/ Top \/ Run \/ Linked \/ ReadRegs
           \/ ReadTime("rstRead", "rstCmp") \/ ReadTime("dueRead", "dueCmp")
           \/ ReadTime("polRead", "polCmp")
           \/ Compare("rstCmp", linkAge, ResetWait, "rstClear")
           \/ Compare("dueCmp", linkAge, neg.LinkTaskPeriod, "stamp")
           \/ Compare("polCmp", succAge, 2 * Period, "pol")
           \/ ResetClear \/ ThreadLink \/ EnableMacFilter
  <2>1. /\ neg' = neg /\ pnTo' = pnTo
        /\ tpc \notin {"pnZero", "bcr", "init1", "init2"} /\ tpc' # "pn"
    BY <1>3 DEF Top, Run, Linked, ReadRegs, ReadTime, Compare, ResetClear,
                ThreadLink, EnableMacFilter, At, Goto, locals
  <2> QED
    BY <2>1, SameCounters
<1>4. CASE ResetOn \/ LinkResetBcr
  <2>1. neg' = neg /\ pnTo' = pnTo /\ tpc' \in {"bcr", "init1"}
    BY <1>4 DEF ResetOn, LinkResetBcr, Goto, locals
  <2> QED
    BY <2>1, SameCounters
<1>5. CASE LinkResetStatus \/ Accelerate \/ Stamp \/ PhyPNProcess
  <2>1. /\ pnTo' = pnTo /\ tpc' # "pn"
        /\ tpc \in {"pnZero", "bcr", "init1", "init2"} => tpc' = "init2"
    BY <1>5 DEF LinkResetStatus, Accelerate, Stamp, PhyPNProcess, At, Goto, locals
  <2>2. \/ neg' = neg \/ neg' = [neg EXCEPT !.phyStatus = FALSE]
        \/ \E p \in Nat : neg' = [neg EXCEPT !.LinkTaskPeriod = p]
        \/ neg' = [neg EXCEPT !.PhyPolarityDetect = FALSE]
    BY <1>5, PhyAssumption DEF LinkResetStatus, Accelerate, Stamp, PhyPNProcess
  <2>3. /\ neg'.phyLinkCnt = neg.phyLinkCnt /\ neg'.phyPN = neg.phyPN
        /\ neg'.phyLinkStatus = neg.phyLinkStatus
        /\ neg'.TRDetectStep = neg.TRDetectStep /\ neg'.TRDetectCnt = neg.TRDetectCnt
    BY <2>2, <1>0 DEF Negotiation
  <2> QED
    BY <2>1, <2>3, SameCounters
<1>6. CASE LinkResetParams
  BY <1>6, <1>0, ParamInitIs, RestartedCounters DEF LinkResetParams
<1>7. CASE Count
  BY <1>7, CountReach
<1>8. CASE PnSwitch("pn") \/ PnSwitch("pnZero")
  BY <1>8, PnReach
<1> QED
  BY <1>1, <1>2, <1>3, <1>4, <1>5, <1>6, <1>7, <1>8 DEF PhyNext, Isr, NetifTask

-----------------------------------------------------------------------------
(* The MAC filter. *)

\* Between PHY_Reset and the parameters of the search no link can come: the
\* PHY needs longer for one than the task for its turn.
ResetHolds ==
  /\ tpc \in {"init1", "init2"} => ~hwUp /\ downFor <= lag
  /\ tpc = "init2" => ~neg.phyStatus

\* Neither phyStatus nor the polarity detection is touched by the search.
LEMMA SearchKeepsDetect ==
  ASSUME PhyInv,
         Accelerate \/ Stamp \/ Count \/ PnSwitch("pn") \/ PnSwitch("pnZero")
  PROVE  /\ neg'.phyStatus = neg.phyStatus
         /\ neg'.PhyPolarityDetect = neg.PhyPolarityDetect
<1>0. neg \in Negotiation
  BY DEF PhyInv, TypeOK
<1> DEFINE Kept(n) == /\ n.phyStatus = neg.phyStatus
                      /\ n.PhyPolarityDetect = neg.PhyPolarityDetect
<1>1. CASE Accelerate \/ Stamp
  <2>1. neg' = neg \/ \E p \in Nat : neg' = [neg EXCEPT !.LinkTaskPeriod = p]
    BY <1>1, PhyAssumption DEF Accelerate, Stamp
  <2> QED
    BY <2>1, <1>0 DEF Negotiation
<1>2. ASSUME NEW at \in {"pn", "pnZero"}, PnSwitch(at)
      PROVE  Kept(neg')
  BY <1>0, <1>2 DEF PnSwitch, Negotiation
<1>3. \A n, to : Then(n, to) => neg' = n
  BY DEF Then
<1>4. CASE Count /\ AnswerFirst
  BY <1>0, <1>4 DEF AnswerFirst, Negotiation
<1>5. CASE Count /\ Answered
  <2> DEFINE n == IF neg.TRDetectStep = 1
                  THEN [neg EXCEPT !.TRDetectStep = 2, !.TRDetectCnt = 0] ELSE neg
             other == IF neg.phyPN = "N" THEN "P" ELSE "N"
             n1 == [n EXCEPT !.phyLinkStatus = "wait"]
             n2 == [n EXCEPT !.phySucCnt = 0]
             n3 == [n EXCEPT !.phySucCnt = Inc(n.phySucCnt)]
  <2>1. \/ Then(n, "P") \/ Then(n1, "none") \/ Then(n2, other) \/ Then(n3, "none")
    BY <1>5 DEF Answered
  <2>2. Kept(n) /\ DOMAIN n = DOMAIN neg
    BY <1>0 DEF Negotiation
  <2>3. "phyStatus" \in DOMAIN neg /\ "PhyPolarityDetect" \in DOMAIN neg
    BY <1>0 DEF Negotiation
  <2>4. Kept(n1) /\ Kept(n2) /\ Kept(n3)
    <3> HIDE DEF n
    <3> QED BY <2>2, <2>3
  <2> HIDE DEF n, n1, n2, n3, other
  <2> QED
    BY <2>1, <2>2, <2>4, <1>3
<1>6. CASE Count /\ SwapPairs
  BY <1>0, <1>6 DEF SwapPairs, Negotiation
<1>7. CASE Count /\ NoAnswer
  <2> DEFINE z == [neg EXCEPT !.phyLinkCnt = 0]
             i == [neg EXCEPT !.phyLinkCnt = Inc(neg.phyLinkCnt)]
             b == [neg EXCEPT !.phyLinkCnt = 0, !.phySucCnt = 0, !.TRDetectStep = 0,
                              !.phyLinkStatus = "init"]
  <2>1. Then(i, "none") \/ Then(b, "auto") \/ Then(z, "N") \/ neg' = i
    BY <1>7 DEF NoAnswer, BackToAuto
  <2>2. Kept(i) /\ Kept(b) /\ Kept(z)
    BY <1>0 DEF Negotiation
  <2> HIDE DEF i, b, z
  <2> QED
    BY <2>1, <2>2, <1>3
<1> QED
  BY <1>1, <1>2, <1>4, <1>5, <1>6, <1>7 DEF Count

\* While the task resets the PHY the interrupt finds no link.
LEMMA StepHolds ==
  ASSUME MaxLag < MinDown, PhyInv, ResetHolds, [PhyNext]_vars
  PROVE  ResetHolds'
<1>0. /\ neg \in Negotiation /\ downFor \in 0 .. MinDown /\ lag \in 0 .. MaxLag
      /\ MaxLag \in Nat /\ MinDown \in Nat
  BY PhyAssumption DEF PhyInv, TypeOK
<1>1. CASE HwLinkUp
  <2>1. tpc \notin {"init1", "init2"} /\ tpc' = tpc
    BY <1>0, <1>1 DEF HwLinkUp, ResetHolds
  <2> QED
    BY <2>1 DEF ResetHolds
<1>2. CASE HwLinkDown
  BY <1>2 DEF HwLinkDown, ResetHolds
<1>3. CASE TimeIsr
  BY <1>0, <1>3 DEF TimeIsr, ResetHolds
<1>4. CASE IsrClear \/ UNCHANGED vars
  BY <1>4 DEF IsrClear, ResetHolds, vars, hwVars, time
<1>5. CASE IsrPhyLink
  <2>1. PICK e \in BOOLEAN, m \in BOOLEAN, c \in BOOLEAN : EthPhyLink(e, m, c)
    BY <1>5 DEF IsrPhyLink
  <2>2. tpc' = tpc /\ lag' = lag
    BY <1>5 DEF IsrPhyLink
  <2>3. hwUp \/ PowerOff
    BY <2>1 DEF EthPhyLink
  <2>4. CASE PowerOff
    BY <1>0, <2>2, <2>4 DEF PowerOff, HwLoses, ResetHolds
  <2>5. CASE hwUp
    BY <2>2, <2>5 DEF ResetHolds
  <2> QED
    BY <2>3, <2>4, <2>5
<1>6. CASE LinkResetBcr
  BY <1>0, <1>6 DEF LinkResetBcr, HwLoses, Goto, time, ResetHolds
<1>7. CASE LinkResetStatus
  <2>1. neg'.phyStatus = FALSE /\ tpc = "init1"
    BY <1>0, <1>7, SetStatus DEF LinkResetStatus, At
  <2> QED
    BY <1>7, <2>1 DEF LinkResetStatus, hwVars, time, ResetHolds
<1>8. CASE /\ NetifTask /\ ~LinkResetBcr /\ ~LinkResetStatus
  <2>1. tpc' \notin {"init1", "init2"}
    BY <1>8 DEF NetifTask, Top, Run, Linked, ReadRegs, ReadTime, Compare, ResetClear,
                ResetOn, LinkResetParams, Accelerate, Stamp, Count, PnSwitch,
                AnswerFirst, Answered, SwapPairs, NoAnswer, BackToAuto, Then,
                PhyPNProcess, ThreadLink, EnableMacFilter, Goto
  <2> QED
    BY <2>1 DEF ResetHolds
<1> QED
  BY <1>1, <1>2, <1>3, <1>4, <1>5, <1>6, <1>7, <1>8 DEF PhyNext, Isr

\* An open filter keeps its owner through every step.
LEMMA StepFilter ==
  ASSUME PhyInv, ResetHolds, FilterHasOwner, [PhyNext]_vars
  PROVE  FilterHasOwner'
<1>0. neg \in Negotiation /\ LinkSta \in BOOLEAN /\ macFilter \in BOOLEAN
  BY DEF PhyInv, TypeOK
<1>1. CASE HwLinkUp \/ HwLinkDown \/ TimeIsr \/ IsrClear \/ UNCHANGED vars
  BY <1>1
  DEF HwLinkUp, HwLinkDown, TimeIsr, IsrClear, vars, upVars, FilterHasOwner
<1>2. CASE IsrPhyLink
  <2>1. PICK e \in BOOLEAN, m \in BOOLEAN, c \in BOOLEAN : EthPhyLink(e, m, c)
    BY <1>2 DEF IsrPhyLink
  <2>2. CASE LinkUpCfg
    <3>1. neg'.PhyPolarityDetect = TRUE
      BY <2>2, <1>0 DEF LinkUpCfg, Negotiation
    <3> QED
      BY <3>1 DEF FilterHasOwner
  <2>3. CASE PowerOff
    BY <2>3 DEF PowerOff, FilterHasOwner
  <2>4. CASE IsrLinkReset
    BY <2>4, UpdatedByIsr DEF FilterHasOwner
  <2> QED
    BY <2>1, <2>2, <2>3, <2>4, PhyLinkCases
<1>3. CASE \/ Top \/ Run \/ Linked \/ ReadRegs
           \/ ReadTime("rstRead", "rstCmp") \/ ReadTime("dueRead", "dueCmp")
           \/ ReadTime("polRead", "polCmp")
           \/ Compare("rstCmp", linkAge, ResetWait, "rstClear")
           \/ Compare("dueCmp", linkAge, neg.LinkTaskPeriod, "stamp")
           \/ Compare("polCmp", succAge, 2 * Period, "pol")
           \/ ResetClear \/ ResetOn \/ LinkResetBcr
  <2>1. neg' = neg /\ tpc # "filter" /\ UNCHANGED upVars
    BY <1>3 DEF Top, Run, Linked, ReadRegs, ReadTime, Compare, ResetClear,
                ResetOn, LinkResetBcr, At
  <2> QED
    BY <2>1 DEF FilterHasOwner, upVars
<1>4. CASE Accelerate \/ Stamp \/ Count \/ PnSwitch("pn") \/ PnSwitch("pnZero")
  <2>1. tpc # "filter" /\ UNCHANGED upVars
    BY <1>4 DEF Accelerate, Stamp, Count, PnSwitch, At
  <2> QED
    BY <1>4, <2>1, SearchKeepsDetect DEF FilterHasOwner, upVars
<1>5. CASE LinkResetStatus
  BY <1>0, <1>5, SetStatus DEF LinkResetStatus, FilterHasOwner
<1>6. CASE LinkResetParams
  <2>1. ~neg'.phyStatus
    BY <1>0, <1>6, ParamInitType DEF LinkResetParams, ResetHolds, At
  <2> QED
    BY <2>1 DEF FilterHasOwner
<1>7. CASE PhyPNProcess
  <2>1. \/ macFilter' = TRUE
        \/ neg' = neg /\ macFilter' = macFilter
    BY <1>0, <1>7 DEF PhyPNProcess
  <2>2. LinkSta' = LinkSta /\ link_was_up' = link_was_up /\ tpc # "filter"
    BY <1>7 DEF PhyPNProcess, At
  <2> QED
    BY <2>1, <2>2 DEF FilterHasOwner
<1>8. CASE ThreadLink
  BY <1>8 DEF ThreadLink, Goto, At, FilterHasOwner
<1>9. CASE EnableMacFilter
  BY <1>9 DEF EnableMacFilter, FilterHasOwner
<1> QED
  BY <1>1, <1>2, <1>3, <1>4, <1>5, <1>6, <1>7, <1>8, <1>9 DEF PhyNext, Isr, NetifTask

\* For every interleaving of ETH_PHYLink with WCHNET_LinkProcess no counter
\* passes a limit that is tested with ==, and an open MAC filter has somebody
\* who will close it, given that a PHY needs longer to find a link (hundreds of
\* ms) than the netif task for a turn.
THEOREM PhySearchInv ==
  ASSUME MaxLag < MinDown
  PROVE  PhySpec => []SearchInv
<1> DEFINE Inv == PhyInv /\ InReach /\ ResetHolds /\ FilterHasOwner
<1>1. Init => Inv
  <2> SUFFICES ASSUME Init PROVE Inv
    OBVIOUS
  <2>1. neg.phyLinkCnt = 0 /\ neg.TRDetectStep = 0 /\ ~neg.phyStatus
    BY DEF Init
  <2>2. InReach /\ ResetHolds /\ FilterHasOwner
    BY <2>1, LimitNat DEF Init, InReach, ResetHolds, FilterHasOwner
  <2> QED
    BY <2>2, InitPhy
<1>2. Inv /\ [PhyNext]_vars => Inv'
  BY StepPhy, StepReach, StepHolds, StepFilter
<1>3. Inv => SearchInv
  BY DEF PhyInv, InReach, SearchInv, CountersInReach
<1> QED
  BY <1>1, <1>2, <1>3, PTL DEF PhySpec

-----------------------------------------------------------------------------
(* The clock stays off long enough. *)

\* A stopped PHY raises no further interrupt, so nobody moves phyLinkTime under
\* the task that waits, and the time it has loaded is never older than that
\* stamp, where the unsigned difference would wrap.
OffInv ==
  /\ ~phyOn => ~hwUp /\ (phylink => isr = "clr")
  /\ phyLinkReset => ~phyOn
  /\ tpc \in {"rstRead", "rstCmp", "rstClear"} => phyLinkReset
  /\ tpc = "rstOn" => ~phyLinkReset /\ ~phyOn
  /\ ~phyOn => linkAge <= offFor \/ offFor = ResetWait
  /\ tpc \in {"rstClear", "rstOn"} => offFor >= ResetWait
  /\ tpc = "rstCmp" => readAge <= lag /\ readAge <= linkAge

\* A stop by the interrupt finds the PHY on, and the task anywhere but in the
\* wait of an earlier stop.
LEMMA StopsRunningPhy ==
  ASSUME TypeOK, OffInv, IsrPhyLink
  PROVE  phyOn /\ ~phyLinkReset
               /\ tpc \notin {"rstRead", "rstCmp", "rstClear", "rstOn"}
BY DEF TypeOK, OffInv, IsrPhyLink

LEMMA StepOff ==
  ASSUME TypeOK, OffInv, [PhyNext]_vars
  PROVE  OffInv' /\ (~phyOn /\ phyOn' => offFor >= ResetWait)
<1>0. /\ lag \in 0 .. MaxLag /\ readAge \in Nat /\ linkAge \in 0 .. LinkCap
      /\ offFor \in 0 .. ResetWait /\ MaxLag \in Nat /\ ResetWait \in Nat
      /\ LinkCap \in Nat /\ MaxLag <= LinkCap /\ ResetWait <= LinkCap
  BY PhyAssumption DEF TypeOK, LinkCap
<1>1. CASE HwLinkUp \/ HwLinkDown
  BY <1>1 DEF HwLinkUp, HwLinkDown, OffInv, time, power
<1>2. CASE TimeIsr
  <2>1. /\ UNCHANGED <<hwUp, phylink, isr, tpc, phyOn, phyLinkReset>>
        /\ lag < MaxLag /\ lag' = lag + 1
        /\ linkAge' = Older(linkAge, LinkCap)
        /\ ~phyOn => offFor' = Older(offFor, ResetWait)
        /\ tpc = "rstCmp" => readAge' = readAge + 1
    BY <1>2 DEF TimeIsr, power
  <2>2. ~phyOn => linkAge' <= offFor' \/ offFor' = ResetWait
    BY <2>1, <1>0 DEF Older, OffInv
  <2>3. tpc = "rstCmp" => readAge' <= lag' /\ readAge' <= linkAge'
    BY <2>1, <1>0 DEF Older, OffInv
  <2>4. tpc \in {"rstClear", "rstOn"} => offFor' >= ResetWait
    BY <2>1, <1>0 DEF Older, OffInv
  <2> QED
    BY <2>1, <2>2, <2>3, <2>4 DEF OffInv
<1>3. CASE IsrPhyLink
  <2>1. PICK e \in BOOLEAN, m \in BOOLEAN, c \in BOOLEAN : EthPhyLink(e, m, c)
    BY <1>3 DEF IsrPhyLink
  <2>2. isr' = "clr" /\ tpc' = tpc /\ lag' = lag /\ readAge' = readAge
    BY <1>3 DEF IsrPhyLink
  <2>3. phyOn /\ ~phyLinkReset
        /\ tpc \notin {"rstRead", "rstCmp", "rstClear", "rstOn"}
    BY <1>3, StopsRunningPhy
  <2>4. CASE LinkUpCfg \/ IsrLinkReset
    <3>1. phyOn' = phyOn /\ phyLinkReset' = phyLinkReset
      BY <2>4 DEF LinkUpCfg, IsrLinkReset, power
    <3> QED
      BY <2>2, <2>3, <3>1 DEF OffInv
  <2>5. CASE PowerOff
    BY <2>2, <2>3, <2>5, <1>0 DEF PowerOff, HwLoses, OffInv
  <2> QED
    BY <2>1, <2>4, <2>5, PhyLinkCases
<1>4. CASE IsrClear
  BY <1>4 DEF IsrClear, OffInv, time, power
<1>5. CASE \/ Top \/ Run \/ Linked \/ ReadRegs \/ Accelerate \/ Stamp \/ Count
           \/ PnSwitch("pn") \/ PnSwitch("pnZero") \/ PhyPNProcess
           \/ LinkResetStatus \/ LinkResetParams \/ ThreadLink \/ EnableMacFilter
           \/ ReadTime("dueRead", "dueCmp") \/ ReadTime("polRead", "polCmp")
           \/ Compare("dueCmp", linkAge, neg.LinkTaskPeriod, "stamp")
           \/ Compare("polCmp", succAge, 2 * Period, "pol")
  <2>1. /\ UNCHANGED <<hwVars, isr, power, offFor>>
        /\ linkAge' = linkAge \/ linkAge' = 0
    BY <1>5 DEF Top, Run, Linked, ReadRegs, Accelerate, Stamp, Count, PnSwitch,
                PhyPNProcess, LinkResetStatus, LinkResetParams, ThreadLink,
                EnableMacFilter, ReadTime, Compare, Goto, time, AnswerFirst,
                Answered, SwapPairs, NoAnswer, BackToAuto, Then
  <2>2. /\ tpc' \notin {"rstCmp", "rstClear", "rstOn"}
        /\ tpc' = "rstRead" => phyLinkReset
    BY <1>5 DEF Top, Run, Linked, ReadRegs, Accelerate, Stamp, Count, PnSwitch,
                PhyPNProcess, LinkResetStatus, LinkResetParams, ThreadLink,
                EnableMacFilter, ReadTime, Compare, Goto, AnswerFirst,
                Answered, SwapPairs, NoAnswer, BackToAuto, Then
  <2>3. ~phyOn => linkAge' <= offFor \/ offFor = ResetWait
    BY <2>1, <1>0 DEF OffInv
  <2> QED
    BY <2>1, <2>2, <2>3 DEF OffInv, hwVars, power
<1>6. CASE ReadTime("rstRead", "rstCmp")
  BY <1>0, <1>6 DEF ReadTime, Goto, At, OffInv, hwVars, power
<1>7. CASE Compare("rstCmp", linkAge, ResetWait, "rstClear")
  <2>1. /\ tpc = "rstCmp" /\ tpc' \in {"rstClear", "link"}
        /\ tpc' = "rstClear" => Elapsed(linkAge, ResetWait)
        /\ UNCHANGED <<hwVars, isr, power, offFor, linkAge>>
    BY <1>7 DEF Compare, At, Goto
  <2>2. tpc' = "rstClear" => offFor >= ResetWait
    BY <2>1, <1>0 DEF Elapsed, OffInv
  <2> QED
    BY <2>1, <2>2 DEF OffInv, hwVars, power
<1>8. CASE ResetClear
  BY <1>8 DEF ResetClear, Goto, At, OffInv, hwVars, time
<1>9. CASE ResetOn
  BY <1>9 DEF ResetOn, Goto, At, OffInv, hwVars
<1>10. CASE LinkResetBcr
  BY <1>10 DEF LinkResetBcr, HwLoses, Goto, At, OffInv, time, power
<1>11. CASE UNCHANGED vars
  BY <1>11 DEF vars, hwVars, time, power, OffInv
<1> QED
  BY <1>1, <1>2, <1>3, <1>4, <1>5, <1>6, <1>7, <1>8, <1>9, <1>10, <1>11
  DEF PhyNext, Isr, NetifTask

\* "wait 500ms before turning on the PHY clock": the task that switches the
\* clock on has waited, however the timer and the interrupt fall between its
\* two loads.
THEOREM PhyStaysOff == PhySpec => StaysOff
<1>1. Init => OffInv
  BY DEF Init, OffInv
<1>2. PhyInv /\ OffInv /\ [PhyNext]_vars => OffInv'
  BY StepOff DEF PhyInv
<1>3. PhyInv /\ OffInv /\ [PhyNext]_vars
        => [~phyOn /\ phyOn' => offFor >= ResetWait]_vars
  BY StepOff DEF PhyInv
<1> QED
  BY InitPhy, StepPhy, <1>1, <1>2, <1>3, PTL DEF PhySpec, StaysOff
=============================================================================
