---------------------------- MODULE EthRx_proofs ----------------------------
(***************************************************************************)
(* Safety of the receive chain for every length of the chain, every pool   *)
(* size and every number of frames.                                        *)
(***************************************************************************)
EXTENDS EthRx, Structures_proofs

\* Every event the DMA latches is a bit of DMASR.
LEMMA LatchedType ==
  ASSUME IsrTypeOK, NEW b \in NormalBits \cup AbnormalBits
  PROVE  Latched(b) \subseteq StatusBits
BY DEF IsrTypeOK, Latched, StatusBits, NormalBits, AbnormalBits

\* WCHNET_ETHIsr keeps the registers and semaphores well-typed; in particular
\* neither semaphore it gives ever counts past one.
LEMMA IsrStepType ==
  ASSUME IsrTypeOK, IsrStep \/ IsrRbu
  PROVE  IsrTypeOK'
BY DEF IsrTypeOK, IsrStep, IsrEnter, IsrRbu, IsrNoRbu, IsrClear, Cleared, Left,
       IsrNis, IsrTx, RxSignal, TxSignal, IsrPcs, StatusBits, NormalBits,
       AbnormalBits

\* What RingShape needs to be inductive: a DMA that writes owns its
\* descriptor, the driver holds the one it copies from, and what is handed on
\* is a frame.
Control ==
  /\ dma = "fill" => own[dmaPtr] = "dma"
  /\ Holding => own[pDMARxSet] = "cpu"
  /\ npc \in {"input", "post", "inputErr"} => cur \in Frame
  /\ tpc = "run" => tmsg # NoFrame

RingInv == TypeOK /\ RingShape /\ Control

-----------------------------------------------------------------------------

\* Until the first frame every descriptor is the DMA's and both pointers are at
\* the first.
LEMMA InitRing == Init => RingInv
<1> SUFFICES ASSUME Init PROVE RingInv
  OBVIOUS
<1> USE NAssumption, RxAssumption DEF Init
<1>1. TypeOK
  <2>1. IsrTypeOK
    BY DEF IsrInit, IsrTypeOK, IsrPcs
  <2>2. mbox \in Seq(Frame \cup {Ooseq}) /\ Len(mbox) <= MboxSize
    OBVIOUS
  <2> QED
    BY <2>1, <2>2 DEF TypeOK, Desc, NetifPcs
<1>2. RingShape
  BY DEF RingShape, Shape, CpuOwned, Desc
<1>3. Control
  BY DEF Control, Holding
<1> QED
  BY <1>1, <1>2, <1>3 DEF RingInv

\* NoFrame, in the place of a NULL pointer, and the message of the callback
\* are no frames.
LEMMA NotFrames == NoFrame \notin Frame /\ Ooseq \notin Frame /\ NoFrame # Ooseq
BY DEF NoFrame, Ooseq, Frame

\* Steps that touch neither the chain nor the DMA keep its shape.
LEMMA SameShape ==
  ASSUME RingShape, UNCHANGED <<own, pDMARxSet, dmaPtr>>
  PROVE  RingShape'
BY DEF RingShape, CpuOwned

\* The DMA hands over the descriptor it has filled.
LEMMA FillShape ==
  ASSUME RingInv, own[dmaPtr] = "dma",
         own' = [own EXCEPT ![dmaPtr] = "cpu"],
         dmaPtr' = NextDesc(dmaPtr), pDMARxSet' = pDMARxSet
  PROVE  RingShape'
<1>1. /\ CpuOwned \in SUBSET Desc /\ dmaPtr \notin CpuOwned
      /\ pDMARxSet \in Desc /\ dmaPtr \in Desc
  BY DEF RingInv, TypeOK, CpuOwned
<1>2. CpuOwned' = CpuOwned \cup {dmaPtr}
  BY DEF RingInv, TypeOK, CpuOwned
<1>3. Shape(CpuOwned \cup {dmaPtr}, pDMARxSet, NextDesc(dmaPtr))
  BY <1>1, ShapeFill DEF RingInv, RingShape
<1> QED
  BY <1>2, <1>3 DEF RingShape

\* ETH_RecPeek or ETH_RecFree gives back the descriptor it looks at.
LEMMA GiveBackShape ==
  ASSUME RingInv, own[pDMARxSet] = "cpu", GiveBack, dmaPtr' = dmaPtr
  PROVE  RingShape'
<1>1. /\ CpuOwned \in SUBSET Desc /\ pDMARxSet \in CpuOwned
      /\ pDMARxSet \in Desc /\ dmaPtr \in Desc
  BY DEF RingInv, TypeOK, CpuOwned
<1>2. CpuOwned' = CpuOwned \ {pDMARxSet}
  BY DEF RingInv, TypeOK, CpuOwned, GiveBack
<1>3. Shape(CpuOwned \ {pDMARxSet}, NextDesc(pDMARxSet), dmaPtr)
  BY <1>1, ShapeEmpty DEF RingInv, RingShape
<1> QED
  BY <1>2, <1>3 DEF RingShape, GiveBack

-----------------------------------------------------------------------------
(* One lemma per actor. *)

\* The DMA writes only what it owns, and passes a descriptor on when done.
LEMMA DmaKeepsRing ==
  ASSUME RingInv,
         DmaStart \/ DmaFinish \/ DmaSuspend \/ DmaAutoResume \/ DmaTxDone
  PROVE  RingInv'
<1> USE DEF RingInv
<1>1. Latched("R") \subseteq StatusBits /\ Latched("RBU") \subseteq StatusBits
      /\ Latched("T") \subseteq StatusBits
  BY LatchedType DEF TypeOK, NormalBits, AbnormalBits
<1>2. CASE DmaStart \/ DmaAutoResume
  <2>1. TypeOK'
    BY <1>2 DEF TypeOK, IsrTypeOK, DmaStart, DmaAutoResume, ringVars, memVars,
                taskVars, tcpVars, isrVars
  <2>2. RingShape'
    BY <1>2, SameShape DEF DmaStart, DmaAutoResume, ringVars
  <2>3. Control'
    BY <1>2 DEF Control, Holding, DmaStart, DmaAutoResume, ringVars, taskVars,
                tcpVars
  <2> QED
    BY <2>1, <2>2, <2>3
<1>3. CASE DmaFinish
  <2> PICK k \in {"ok"} \cup BadKinds, n \in Sizes, raise \in BOOLEAN :
         /\ slot' = [slot EXCEPT ![dmaPtr] =
                       [id |-> filled, kind |-> k, pbufs |-> n]]
         /\ dmasr' = IF raise THEN Latched("R") ELSE dmasr
    BY <1>3 DEF DmaFinish
  <2>1. [id |-> filled, kind |-> k, pbufs |-> n] \in Frame
    BY RxAssumption DEF Frame, TypeOK
  <2>2. IsrTypeOK'
    BY <1>1, <1>3 DEF TypeOK, IsrTypeOK, DmaFinish
  <2>3. TypeOK'
    <3>1. /\ own' \in [Desc -> {"dma", "cpu"}]
          /\ slot' \in [Desc -> Frame \cup {NoFrame}]
          /\ dmaPtr' \in Desc /\ filled' \in Nat
      BY <1>3, <2>1, NextDescOnChain DEF TypeOK, DmaFinish
    <3> QED
      BY <1>3, <2>2, <3>1 DEF TypeOK, DmaFinish, memVars, taskVars, tcpVars
  <2>4. RingShape'
    BY <1>3, FillShape DEF Control, DmaFinish
  <2>5. Control'
    BY <1>3 DEF Control, Holding, TypeOK, DmaFinish, taskVars, tcpVars
  <2> QED
    BY <2>3, <2>4, <2>5
<1>4. CASE DmaSuspend \/ DmaTxDone
  <2>1. TypeOK'
    BY <1>1, <1>4 DEF TypeOK, IsrTypeOK, DmaSuspend, DmaTxDone, rxVars, ringVars,
                      dmaVars, memVars, taskVars, tcpVars
  <2>2. RingShape'
    BY <1>4, SameShape DEF DmaSuspend, DmaTxDone, rxVars, ringVars, dmaVars
  <2>3. Control'
    BY <1>4 DEF Control, Holding, DmaSuspend, DmaTxDone, rxVars, ringVars,
                dmaVars, taskVars, tcpVars
  <2> QED
    BY <2>1, <2>2, <2>3
<1> QED
  BY <1>2, <1>3, <1>4

\* The interrupt routine touches the chain only through the poll demand.
LEMMA IsrKeepsRing ==
  ASSUME RingInv, Isr
  PROVE  RingInv'
<1> USE DEF RingInv
<1>1. IsrTypeOK'
  BY IsrStepType DEF TypeOK, Isr, IsrRbuResume
<1>2. /\ UNCHANGED <<ringVars, dmaPtr, filled, memVars, taskVars, tcpVars>>
      /\ dma' \in {dma, "idle"}
  BY DEF Isr, IsrRbuResume, ReceivePollDemand, rxVars, dmaVars
<1>3. TypeOK'
  BY <1>1, <1>2 DEF TypeOK, ringVars, memVars, taskVars, tcpVars
<1>4. RingShape'
  BY <1>2, SameShape DEF ringVars
<1>5. Control'
  BY <1>2 DEF Control, Holding, ringVars, taskVars, tcpVars
<1> QED
  BY <1>3, <1>4, <1>5

\* tcpip_thread and the users of its frames never touch the chain.
LEMMA TcpipKeepsRing ==
  ASSUME RingInv, Tcpip \/ StackRelease
  PROVE  RingInv'
<1> USE DEF RingInv
<1>1. UNCHANGED <<ringVars, dmaVars, taskVars, isrVars>>
  BY DEF Tcpip, TcpipFetch, TcpipInput, TcpipMsgFree, TcpipFreeOoseq,
         TcpipReclaim, StackRelease
<1>2. IsrTypeOK'
  BY <1>1 DEF TypeOK, IsrTypeOK, isrVars
<1>3. CASE TcpipFetch
  <2>1. /\ Head(mbox) \in Frame \cup {Ooseq}
        /\ Tail(mbox) \in Seq(Frame \cup {Ooseq})
        /\ Len(Tail(mbox)) <= MboxSize
    BY <1>3, RxAssumption DEF TypeOK, TcpipFetch
  <2> QED
    BY <1>1, <1>2, <1>3, <2>1, SameShape, NotFrames
    DEF TypeOK, Control, Holding, TcpipFetch, ringVars, dmaVars, taskVars
<1>4. CASE TcpipInput
  <2>1. tmsg \in Frame
    BY <1>4 DEF TypeOK, Control, TcpipInput
  <2>2. tmsg.id \in Nat /\ tmsg.pbufs \in Nat
    BY <2>1 DEF Frame
  <2>3. /\ last' \in Nat /\ poolFree' \in Nat
        /\ app' \subseteq Frame /\ ooseq' \subseteq Frame
    BY <1>4, <2>1, <2>2 DEF TypeOK, TcpipInput
  <2> QED
    BY <1>1, <1>2, <1>4, <2>3, SameShape
    DEF TypeOK, Control, Holding, TcpipInput, ringVars, dmaVars, taskVars
<1>5. CASE TcpipMsgFree
  BY <1>1, <1>2, <1>5, SameShape
  DEF TypeOK, Control, Holding, TcpipMsgFree, ringVars, dmaVars, taskVars
<1>6. CASE TcpipFreeOoseq
  BY <1>1, <1>2, <1>6, SameShape
  DEF TypeOK, Control, Holding, TcpipFreeOoseq, ringVars, dmaVars, taskVars
<1>7. CASE TcpipReclaim
  <2>1. poolFree' \in Nat /\ reclaim' \subseteq Frame
    BY <1>7 DEF TypeOK, TcpipReclaim, Frame
  <2> QED
    BY <1>1, <1>2, <1>7, <2>1, SameShape
    DEF TypeOK, Control, Holding, TcpipReclaim, ringVars, dmaVars, taskVars
<1>8. CASE StackRelease
  <2>1. /\ poolFree' \in Nat
        /\ app' \subseteq Frame /\ ooseq' \subseteq Frame
    BY <1>8 DEF TypeOK, StackRelease, Frame
  <2> QED
    BY <1>1, <1>2, <1>8, <2>1, SameShape
    DEF TypeOK, Control, Holding, StackRelease, ringVars, dmaVars, taskVars
<1> QED
  BY <1>3, <1>4, <1>5, <1>6, <1>7, <1>8 DEF Tcpip

\* The netif task moves the driver's pointer only past a descriptor it has
\* given back.
LEMMA NetifKeepsRing ==
  ASSUME RingInv, NetifTask
  PROVE  RingInv'
<1> USE DEF RingInv
<1>1. UNCHANGED <<dmaPtr, filled, tcpVars>> /\ dma' \in {dma, "idle"}
  BY DEF NetifTask, RxTake, RxTimeout, RecPeekNone, RecPeekGood, RecPeekBad,
         PbufAllocOne, PbufAllocFail, PoolIsEmpty, QueueOoseqCall,
         PbufAllocUnwind, PbufTake, RecFree, RecFreePoll, ReceivePollDemand,
         InputMsgAlloc, InputPost, InputPostFull, InputError, dmaVars
<1>2. IsrTypeOK'
  BY DEF NetifTask, RxTake, RxTimeout, RecPeekNone, RecPeekGood, RecPeekBad,
         PbufAllocOne, PbufAllocFail, PoolIsEmpty, QueueOoseqCall,
         PbufAllocUnwind, PbufTake, RecFree, RecFreePoll,
         InputMsgAlloc, InputPost, InputPostFull, InputError, isrVars,
         TypeOK, IsrTypeOK
<1>3. ASSUME UNCHANGED ringVars, npc' \in NetifPcs, got' \in Nat,
             cur' \in Frame \cup {NoFrame}, poolFree' \in Nat, msgFree' \in Nat,
             mbox' \in Seq(Frame \cup {Ooseq}), Len(mbox') <= MboxSize,
             oosPending' \in BOOLEAN, cut' \in BOOLEAN,
             Holding' => own[pDMARxSet] = "cpu",
             npc' \in {"input", "post", "inputErr"} => cur' \in Frame
      PROVE  RingInv'
  <2>1. TypeOK'
    BY <1>1, <1>2, <1>3 DEF TypeOK, ringVars, tcpVars
  <2>2. RingShape'
    BY <1>1, <1>3, SameShape DEF ringVars
  <2>3. Control'
    BY <1>1, <1>3 DEF Control, ringVars, tcpVars
  <2> QED
    BY <2>1, <2>2, <2>3
<1>4. ASSUME GiveBack, own[pDMARxSet] = "cpu", npc' \in {"peek", "poll"},
             UNCHANGED <<dma, memVars, got, cur, cut>>
      PROVE  RingInv'
  <2>1. RingShape'
    BY <1>1, <1>4, GiveBackShape
  <2>2. TypeOK'
    BY <1>1, <1>2, <1>4, NextDescOnChain
    DEF TypeOK, GiveBack, NetifPcs, memVars, tcpVars
  <2>3. Control'
    BY <1>1, <1>4 DEF Control, Holding, TypeOK, GiveBack, tcpVars
  <2> QED
    BY <2>1, <2>2, <2>3
<1>5. CASE RxTake
  BY <1>3, <1>5 DEF TypeOK, Holding, NetifPcs, RxTake, memVars
<1>6. CASE RxTimeout
  BY <1>3, <1>6 DEF TypeOK, Holding, NetifPcs, RxTimeout, memVars
<1>7. CASE RecPeekNone
  BY <1>3, <1>7 DEF TypeOK, Holding, NetifPcs, RecPeekNone, memVars
<1>8. CASE RecPeekGood
  BY <1>3, <1>8 DEF TypeOK, NetifPcs, RecPeekGood, memVars
<1>9. CASE RecPeekBad
  BY <1>4, <1>9 DEF RecPeekBad, taskVars, dmaVars
<1>10. CASE PbufAllocOne
  BY <1>3, <1>10 DEF TypeOK, Control, Holding, NetifPcs, PbufAllocOne
<1>11. CASE PbufAllocFail
  BY <1>3, <1>11
  DEF TypeOK, Control, Holding, NetifPcs, PbufAllocFail, memVars
<1>12. CASE PoolIsEmpty
  BY <1>3, <1>12 DEF TypeOK, Control, Holding, NetifPcs, PoolIsEmpty
<1>13. CASE QueueOoseqCall
  <2>1. mbox' \in Seq(Frame \cup {Ooseq}) /\ Len(mbox') <= MboxSize
    BY <1>13, RxAssumption DEF TypeOK, QueueOoseqCall
  <2>2. oosPending' \in BOOLEAN
    BY <1>13 DEF TypeOK, QueueOoseqCall
  <2> QED
    BY <1>3, <1>13, <2>1, <2>2 DEF TypeOK, Control, Holding, NetifPcs, QueueOoseqCall
<1>14. CASE PbufAllocUnwind
  BY <1>3, <1>14 DEF TypeOK, Control, Holding, NetifPcs, PbufAllocUnwind
<1>15. CASE PbufTake
  BY <1>3, <1>15 DEF TypeOK, Control, Holding, NetifPcs, PbufTake, memVars
<1>16. CASE RecFree
  BY <1>4, <1>16 DEF Control, Holding, RecFree, dmaVars
<1>17. CASE RecFreePoll
  BY <1>3, <1>17 DEF TypeOK, Holding, NetifPcs, RecFreePoll, memVars
<1>18. CASE InputMsgAlloc
  BY <1>3, <1>18 DEF TypeOK, Control, Holding, NetifPcs, InputMsgAlloc
<1>19. CASE InputPost
  <2>1. mbox' \in Seq(Frame \cup {Ooseq}) /\ Len(mbox') <= MboxSize
    BY <1>19, RxAssumption DEF TypeOK, Control, InputPost
  <2> QED
    BY <1>3, <1>19, <2>1 DEF TypeOK, Holding, NetifPcs, InputPost
<1>20. CASE InputPostFull
  BY <1>3, <1>20 DEF TypeOK, Control, Holding, NetifPcs, InputPostFull
<1>21. CASE InputError
  <2>1. cur.pbufs \in Nat
    BY <1>21 DEF Control, InputError, Frame
  <2> QED
    BY <1>3, <1>21, <2>1 DEF TypeOK, Holding, NetifPcs, InputError
<1> QED
  BY <1>5, <1>6, <1>7, <1>8, <1>9, <1>10, <1>11, <1>12, <1>13, <1>14, <1>15,
     <1>16, <1>17, <1>18, <1>19, <1>20, <1>21 DEF NetifTask

LEMMA NextKeepsRing == RingInv /\ [RxNext]_vars => RingInv'
<1> SUFFICES ASSUME RingInv, [RxNext]_vars PROVE RingInv'
  OBVIOUS
<1>1. CASE RxNext
  BY <1>1, DmaKeepsRing, IsrKeepsRing, NetifKeepsRing, TcpipKeepsRing DEF RxNext
<1>2. CASE UNCHANGED vars
  <2>1. TypeOK'
    BY <1>2 DEF RingInv, TypeOK, IsrTypeOK, vars, rxVars, ringVars, dmaVars,
                memVars, taskVars, tcpVars, isrVars
  <2>2. RingShape'
    BY <1>2, SameShape DEF RingInv, vars, rxVars, ringVars, dmaVars
  <2>3. Control'
    BY <1>2 DEF RingInv, Control, Holding, vars, rxVars, ringVars, dmaVars,
                taskVars, tcpVars
  <2> QED
    BY <2>1, <2>2, <2>3 DEF RingInv
<1> QED
  BY <1>1, <1>2

\* RingInv is an invariant of reception.
LEMMA RxRingInv == RxSpec => []RingInv
BY InitRing, NextKeepsRing, PTL DEF RxSpec

-----------------------------------------------------------------------------

\* Reception is type-correct: in particular the semaphores stay binary, the
\* mailbox within its size, and neither pointer leaves the chain.
THEOREM RxTypeOK == RxSpec => []TypeOK
<1>1. RingInv => TypeOK
  BY DEF RingInv
<1> QED
  BY <1>1, RxRingInv, PTL

\* On a chain of any length the driver's pointer and the DMA's never drift
\* apart.
THEOREM RxRingShape == RxSpec => []RingShape
<1>1. RingInv => RingShape
  BY DEF RingInv
<1> QED
  BY <1>1, RxRingInv, PTL

\* On a chain of any length, and with pools of any size, the DMA never writes
\* the buffer low_level_input copies from.
THEOREM RxDmaStaysAway == RxSpec => []DmaStaysAway
<1>1. RingInv => DmaStaysAway
  BY DEF RingInv, Control, DmaStaysAway
<1> QED
  BY <1>1, RxRingInv, PTL

-----------------------------------------------------------------------------
(* No frame waits unannounced. *)

\* The routine has given the semaphore before it clears R, and no task runs
\* until it returns.
WakeInv == NoLostWakeup /\ (isrPc = "clrR" => rxSem = 1)

\* What is announced stays announced through the interrupt routine.
LEMMA IsrKeepsWakeup ==
  ASSUME SummaryHeld, RingInv, WakeInv, IsrStep \/ IsrRbu, WakeupPending
  PROVE  WakeupPending'
<1> USE DEF WakeupPending, RingInv, TypeOK, IsrTypeOK
<1>1. CASE IsrEnter
  BY <1>1 DEF IsrEnter
<1>2. CASE IsrRbu
  BY <1>2 DEF IsrRbu
<1>3. CASE IsrNoRbu
  BY <1>3 DEF IsrNoRbu
<1>4. ASSUME NEW b, b \notin {"R", "NIS"}
      PROVE  {"R", "NIS"} \subseteq dmasr => {"R", "NIS"} \subseteq Cleared(b)
  BY <1>4 DEF Cleared
<1>5. {"R", "NIS"} \subseteq dmasr => {"R", "NIS"} \subseteq Cleared("NIS")
  BY DEF Cleared, NormalBits
<1>6. CASE IsrClear("clrRbu", "RBU", "clrAis")
  BY <1>4, <1>6 DEF IsrClear, Left
<1>7. CASE IsrClear("clrAis", "AIS", "nis")
  BY <1>4, <1>7 DEF IsrClear, Left
<1>8. CASE IsrNis
  BY <1>8 DEF IsrNis, RxSignal
<1>9. CASE IsrClear("clrR", "R", "txs")
  BY <1>9 DEF IsrClear, WakeInv
<1>10. CASE IsrTx
  BY <1>10 DEF IsrTx
<1>11. CASE IsrClear("clrT", "T", "clrNis")
  BY <1>4, <1>11 DEF IsrClear
<1>12. CASE IsrClear("clrNis", "NIS", "off")
  BY <1>5, <1>12 DEF IsrClear
<1> QED
  BY <1>1, <1>2, <1>3, <1>6, <1>7, <1>8, <1>9, <1>10, <1>11, <1>12 DEF IsrStep

\* R is cleared only by a routine that has given the semaphore.
LEMMA IsrKeepsGiven ==
  ASSUME RingInv, WakeInv, IsrStep \/ IsrRbu
  PROVE  (isrPc = "clrR" => rxSem = 1)'
BY DEF WakeInv, IsrStep, IsrRbu, IsrEnter, IsrNoRbu, IsrClear, IsrNis, IsrTx,
       RxSignal

LEMMA NextKeepsWakeup ==
  ASSUME SummaryHeld, "seg" \notin BadKinds
  PROVE  RingInv /\ WakeInv /\ [RxNext]_vars => WakeInv'
<1> SUFFICES ASSUME RingInv, WakeInv, [RxNext]_vars PROVE WakeInv'
  OBVIOUS
<1>1. CASE DmaFinish
  <2>1. dmasr' = Latched("R")
    BY <1>1 DEF DmaFinish
  <2>2. WakeupPending'
    BY <2>1 DEF WakeupPending, Latched, NormalBits
  <2> QED
    BY <1>1, <2>2 DEF WakeInv, NoLostWakeup, DmaFinish
<1>2. CASE DmaStart \/ DmaAutoResume \/ UNCHANGED vars
  BY <1>2 DEF DmaStart, DmaAutoResume, WakeInv, NoLostWakeup, WakeupPending,
              vars, rxVars, ringVars, taskVars, isrVars
<1>3. CASE DmaSuspend \/ DmaTxDone
  <2>1. dmasr \subseteq dmasr'
    BY <1>3 DEF DmaSuspend, DmaTxDone, Latched
  <2> QED
    BY <1>3, <2>1 DEF DmaSuspend, DmaTxDone, WakeInv, NoLostWakeup,
                      WakeupPending, rxVars, ringVars, taskVars
<1>4. CASE Isr
  <2>1. UNCHANGED <<own, pDMARxSet, npc, cut>> /\ (IsrStep \/ IsrRbu)
    BY <1>4 DEF Isr, IsrRbuResume, rxVars, ringVars, taskVars
  <2> QED
    BY <2>1, IsrKeepsWakeup, IsrKeepsGiven DEF WakeInv, NoLostWakeup
<1>5. CASE Tcpip \/ StackRelease
  BY <1>5 DEF Tcpip, TcpipFetch, TcpipInput, TcpipMsgFree, TcpipFreeOoseq,
              TcpipReclaim, StackRelease, WakeInv, NoLostWakeup, WakeupPending,
              ringVars, taskVars, isrVars
<1>6. CASE RecPeekNone
  BY <1>6 DEF RecPeekNone, WakeInv, NoLostWakeup, TaskLevel, ringVars, isrVars
<1>7. CASE RecFreePoll
  BY <1>7 DEF RecFreePoll, WakeInv, NoLostWakeup, TaskLevel, isrVars
<1>8. CASE NetifTask /\ ~RecPeekNone /\ ~RecFreePoll
  <2>1. npc' # "wait" /\ isrPc' = "off"
    BY <1>8 DEF NetifTask, RxTake, RxTimeout, RecPeekGood, RecPeekBad,
         PbufAllocOne, PbufAllocFail, PoolIsEmpty, QueueOoseqCall,
         PbufAllocUnwind, PbufTake, RecFree, InputMsgAlloc, InputPost,
         InputPostFull, InputError, TaskLevel, isrVars, taskVars
  <2> QED
    BY <2>1 DEF WakeInv, NoLostWakeup
<1> QED
  BY <1>1, <1>2, <1>3, <1>4, <1>5, <1>6, <1>7, <1>8 DEF RxNext

\* Where the hardware holds the summary bit while a source is pending, and no
\* frame is longer than a buffer, the netif task never sleeps on a frame that
\* neither the semaphore nor the interrupt announces, wherever the routine and
\* the DMA interleave with its drain; only a drain cut short is excepted.
THEOREM RxNoLostWakeup ==
  ASSUME SummaryHeld, "seg" \notin BadKinds
  PROVE  RxSpec => []NoLostWakeup
<1>1. Init => WakeInv
  BY NAssumption DEF Init, IsrInit, WakeInv, NoLostWakeup, Desc
<1>2. RingInv /\ WakeInv /\ [RxNext]_vars => WakeInv'
  BY NextKeepsWakeup
<1>3. WakeInv => NoLostWakeup
  BY DEF WakeInv
<1> QED
  BY <1>1, <1>2, <1>3, RxRingInv, PTL DEF RxSpec

-----------------------------------------------------------------------------
(* Reception implements the frame channel. *)

\* The chain, the frame being copied and the chain, and the messages behind
\* the k-th with these, hold only frames later than n.
RingAfter(n) == n < filled /\ \A i \in CpuOwned : n < slot[i].id
CurAfter(n) == (cur # NoFrame => n < cur.id) /\ RingAfter(n)
BoxAfter(n, k) ==
  /\ \A l \in DOMAIN mbox : k < l /\ mbox[l] # Ooseq => n < mbox[l].id
  /\ CurAfter(n)

\* The descriptors the driver owns hold frames in the order of the chain.
ChainOrder ==
  /\ \A i \in CpuOwned : slot[i] \in Frame /\ slot[i].id < filled
  /\ \A i, j \in CpuOwned :
       Dist(pDMARxSet, i) < Dist(pDMARxSet, j) => slot[i].id < slot[j].id

\* A frame is in its descriptor and in p until ETH_RecFree.
CurOrder ==
  cur # NoFrame =>
    /\ cur \in Frame
    /\ IF npc = "free" THEN cur = slot[pDMARxSet]
       ELSE npc \in {"poll", "input", "post", "inputErr"} /\ RingAfter(cur.id)

BoxOrder == \A k \in DOMAIN mbox : mbox[k] # Ooseq => BoxAfter(mbox[k].id, k)

MsgOrder ==
  /\ tpc # "run" => tmsg = NoFrame
  /\ tmsg \in Frame => last < tmsg.id /\ BoxAfter(tmsg.id, 0)

\* What the channel needs beyond the shape: every place a frame passes holds
\* only later frames than the places after it.
RxOrder == ChainOrder /\ CurOrder /\ BoxOrder /\ MsgOrder /\ BoxAfter(last, 0)

\* The frames in flight, by place.
RingIds == {slot[i].id : i \in CpuOwned}
CurIds  == IF cur = NoFrame THEN {} ELSE {cur.id}
BoxIds  == {mbox[k].id : k \in {k \in DOMAIN mbox : mbox[k] # Ooseq}}
MsgIds  == IF tmsg \in Frame THEN {tmsg.id} ELSE {}

-----------------------------------------------------------------------------

\* What RingInv says of the places of frames.
LEMMA RxPlaces ==
  ASSUME RingInv
  PROVE  /\ CpuOwned \in SUBSET Desc /\ pDMARxSet \in Desc /\ dmaPtr \in Desc
         /\ Shape(CpuOwned, pDMARxSet, dmaPtr)
         /\ filled \in Nat /\ last \in Int
         /\ cur \in Frame \cup {NoFrame} /\ tmsg \in Frame \cup {Ooseq, NoFrame}
         /\ \A k \in DOMAIN mbox : mbox[k] \in Frame \cup {Ooseq}
         /\ \A f \in Frame : f.id \in Int
BY DEF RingInv, TypeOK, CpuOwned, RingShape, Frame

\* The frames in flight are those of the chain, of p, of the mailbox and of
\* the message at hand.
LEMMA InFlightParts ==
  RingInv => InFlight = RingIds \cup CurIds \cup BoxIds \cup MsgIds
<1> SUFFICES ASSUME RingInv
             PROVE  InFlight = RingIds \cup CurIds \cup BoxIds \cup MsgIds
  OBVIOUS
<1> DEFINE posted == {mbox[k] : k \in {k \in DOMAIN mbox : mbox[k] # Ooseq}}
<1>1. InPbufs = ({cur} \ {NoFrame}) \cup posted
                  \cup (IF tmsg \in Frame THEN {tmsg} ELSE {})
  BY RxPlaces, NotFrames DEF InPbufs
<1>2. {f.id : f \in InPbufs} = CurIds \cup BoxIds \cup MsgIds
  BY <1>1 DEF CurIds, BoxIds, MsgIds
<1> QED
  BY <1>2 DEF InFlight, RingIds

\* An order in which each place is before the next keeps the channel's state
\* when no place changes.
LEMMA SameFlight ==
  ASSUME RingInv, RingInv', filled' = filled, last' = last,
         (RingIds \cup CurIds \cup BoxIds \cup MsgIds)'
           = RingIds \cup CurIds \cup BoxIds \cup MsgIds
  PROVE  UNCHANGED Channel!chVars
<1>1. (InFlight = RingIds \cup CurIds \cup BoxIds \cup MsgIds)'
  BY InFlightParts, PTL
<1> QED
  BY <1>1, InFlightParts DEF Channel!chVars

\* The DMA's next frame is the last of the chain.
LEMMA FillOrder ==
  ASSUME RingInv, ChainOrder, DmaFinish
  PROVE  /\ ChainOrder'
         /\ RingIds' = RingIds \cup {filled}
         /\ \A n \in Int : RingAfter(n) => RingAfter(n)'
         /\ dmaPtr \notin CpuOwned
         /\ \A i \in CpuOwned : slot'[i] = slot[i]
<1> PICK k \in {"ok"} \cup BadKinds, n \in Sizes :
      slot' = [slot EXCEPT ![dmaPtr] = [id |-> filled, kind |-> k, pbufs |-> n]]
  BY DEF DmaFinish
<1>1. [id |-> filled, kind |-> k, pbufs |-> n] \in Frame
  BY RxAssumption, RxPlaces DEF Frame
<1>2. dmaPtr \notin CpuOwned /\ CpuOwned' = CpuOwned \cup {dmaPtr}
  BY DEF RingInv, TypeOK, Control, DmaFinish, CpuOwned
<1>3. /\ \A i \in CpuOwned : slot'[i] = slot[i]
      /\ slot'[dmaPtr] \in Frame /\ slot'[dmaPtr].id = filled
  BY <1>1, <1>2, RxPlaces DEF RingInv, TypeOK
<1>4. filled' = filled + 1 /\ pDMARxSet' = pDMARxSet
  BY DEF DmaFinish
<1>5. \A i \in CpuOwned : Dist(pDMARxSet, i) < Dist(pDMARxSet, dmaPtr)
  <2>1. /\ \A i \in Desc : i \in CpuOwned <=>
              Dist(pDMARxSet, i) < Depth(CpuOwned, pDMARxSet, dmaPtr)
        /\ Dist(pDMARxSet, dmaPtr) = Depth(CpuOwned, pDMARxSet, dmaPtr)
    BY <1>2, RxPlaces, ShapeDepth
  <2> QED
    BY <2>1, RxPlaces
<1>6. \A i \in CpuOwned : Dist(pDMARxSet, i) \in Int /\ slot[i].id \in Int
                          /\ slot[i].id < filled
  BY RxPlaces, DistType DEF ChainOrder
<1>7. ChainOrder'
  <2>1. \A i \in CpuOwned' : slot'[i] \in Frame /\ slot'[i].id < filled'
    BY <1>2, <1>3, <1>4, <1>6, RxPlaces DEF ChainOrder
  <2>2. ASSUME NEW i \in CpuOwned \cup {dmaPtr}, NEW j \in CpuOwned \cup {dmaPtr},
               Dist(pDMARxSet, i) < Dist(pDMARxSet, j)
        PROVE  slot'[i].id < slot'[j].id
    <3>1. CASE i \in CpuOwned /\ j \in CpuOwned
      BY <2>2, <3>1, <1>3 DEF ChainOrder
    <3>2. CASE i \in CpuOwned /\ j = dmaPtr
      BY <3>2, <1>3, <1>6
    <3>3. CASE i = dmaPtr
      BY <2>2, <3>3, <1>5, <1>6, RxPlaces, DistType
    <3> QED
      BY <3>1, <3>2, <3>3
  <2> QED
    BY <1>2, <1>4, <2>1, <2>2 DEF ChainOrder, Dist
<1>8. RingIds' = RingIds \cup {filled}
  BY <1>2, <1>3 DEF RingIds
<1>9. \A m \in Int : RingAfter(m) => RingAfter(m)'
  BY <1>2, <1>3, <1>4, RxPlaces DEF RingAfter
<1> QED
  BY <1>2, <1>3, <1>7, <1>8, <1>9

\* The frame of the descriptor given back was the first of the chain.
LEMMA GiveBackOrder ==
  ASSUME RingInv, ChainOrder, GiveBack, own[pDMARxSet] = "cpu", filled' = filled
  PROVE  /\ ChainOrder'
         /\ pDMARxSet \in CpuOwned
         /\ RingIds' = RingIds \ {slot[pDMARxSet].id}
         /\ \A n \in Int : n <= slot[pDMARxSet].id => RingAfter(n)'
         /\ \A n \in Int : RingAfter(n) => RingAfter(n)'
<1>1. pDMARxSet \in CpuOwned /\ CpuOwned' = CpuOwned \ {pDMARxSet}
  BY DEF RingInv, TypeOK, GiveBack, CpuOwned
<1>2. \A i \in CpuOwned' : slot'[i] = slot[i]
  BY <1>1, RxPlaces DEF RingInv, TypeOK, GiveBack
<1>3. \A i \in CpuOwned' :
        /\ Dist(pDMARxSet, i) = Dist(NextDesc(pDMARxSet), i) + 1
        /\ Dist(NextDesc(pDMARxSet), i) \in Nat
  BY <1>1, RxPlaces, DistFromNext, DistType, NextDescOnChain
<1>4. \A i \in CpuOwned' : slot[pDMARxSet].id < slot[i].id
  BY <1>1, <1>3, RxPlaces, DistType DEF ChainOrder
<1>5. ChainOrder'
  <2>1. \A i \in CpuOwned' : slot'[i] \in Frame /\ slot'[i].id < filled'
    BY <1>1, <1>2 DEF ChainOrder
  <2>2. \A i, j \in CpuOwned' :
          Dist(NextDesc(pDMARxSet), i) < Dist(NextDesc(pDMARxSet), j)
            => slot'[i].id < slot'[j].id
    BY <1>1, <1>2, <1>3 DEF ChainOrder
  <2> QED
    BY <2>1, <2>2 DEF ChainOrder, Dist, GiveBack
<1>6. RingIds' = RingIds \ {slot[pDMARxSet].id}
  <2>1. RingIds' = {slot[i].id : i \in CpuOwned \ {pDMARxSet}}
    BY <1>1, <1>2 DEF RingIds
  <2>2. \A i \in CpuOwned \ {pDMARxSet} : slot[i].id # slot[pDMARxSet].id
    BY <1>1, <1>4, RxPlaces DEF ChainOrder
  <2> QED
    BY <1>1, <2>1, <2>2 DEF RingIds
<1>7. \A n \in Int : n <= slot[pDMARxSet].id => RingAfter(n)'
  <2>1. \A i \in CpuOwned : slot[i].id \in Int /\ slot[i].id < filled
    BY RxPlaces DEF ChainOrder
  <2> QED
    BY <1>1, <1>2, <1>4, <2>1, RxPlaces DEF RingAfter
<1>8. \A n \in Int : RingAfter(n) => RingAfter(n)'
  BY <1>1, <1>2 DEF RingAfter
<1> QED
  BY <1>1, <1>5, <1>6, <1>7, <1>8

LEMMA InFlightNext ==
  RingInv' => InFlight' = RingIds' \cup CurIds' \cup BoxIds' \cup MsgIds'
<1>1. RingInv' => (InFlight = RingIds \cup CurIds \cup BoxIds \cup MsgIds)'
  BY InFlightParts, PTL
<1> QED
  BY <1>1

\* What the chain keeps, and p and the mailbox where they do not change, the
\* places before them keep.
LEMMA AfterKept ==
  ASSUME RingInv, RxOrder, UNCHANGED <<cur, mbox, tmsg, last>>,
         \A n \in Int : RingAfter(n) => RingAfter(n)'
  PROVE  /\ \A n \in Int : CurAfter(n) => CurAfter(n)'
         /\ BoxOrder' /\ BoxAfter(last, 0)'
         /\ tmsg \in Frame => last < tmsg.id /\ BoxAfter(tmsg.id, 0)'
<1>1. \A n \in Int : CurAfter(n) => CurAfter(n)'
  BY DEF CurAfter
<1>2. \A n \in Int, k \in Nat : BoxAfter(n, k) => BoxAfter(n, k)'
  BY <1>1 DEF BoxAfter
<1>3. DOMAIN mbox \subseteq Nat
  BY DEF RingInv, TypeOK
<1> QED
  BY <1>1, <1>2, <1>3, RxPlaces DEF RxOrder, BoxOrder, MsgOrder

\* Steps that move no frame: the task may change its place only as far as p
\* allows, and tcpip_thread may drop a message that is none.
LEMMA QuietRx ==
  ASSUME RingInv, RingInv', RxOrder,
         UNCHANGED <<own, slot, pDMARxSet, filled, cur, mbox, last>>,
         cur # NoFrame => /\ npc' = "free" <=> npc = "free"
                          /\ npc' \in {"free", "poll", "input", "post", "inputErr"},
         tpc' # "run" => tmsg' = NoFrame,
         tmsg' = tmsg \/ (tmsg' = NoFrame /\ tmsg \notin Frame)
  PROVE  RxOrder' /\ UNCHANGED Channel!chVars
<1>1. CpuOwned' = CpuOwned
  BY DEF CpuOwned
<1>2. ChainOrder' /\ \A n : RingAfter(n)' <=> RingAfter(n)
  BY <1>1 DEF ChainOrder, RxOrder, Dist, RingAfter
<1>3. CurOrder'
  BY <1>2, RxPlaces DEF RxOrder, CurOrder
<1>4. \A n, k : BoxAfter(n, k)' <=> BoxAfter(n, k)
  BY <1>2 DEF BoxAfter, CurAfter
<1>5. BoxOrder' /\ MsgOrder' /\ BoxAfter(last, 0)'
  BY <1>4, NotFrames DEF RxOrder, BoxOrder, MsgOrder
<1>6. RingIds' = RingIds /\ CurIds' = CurIds /\ BoxIds' = BoxIds /\ MsgIds' = MsgIds
  BY <1>1, NotFrames DEF RingIds, CurIds, BoxIds, MsgIds
<1> QED
  BY <1>2, <1>3, <1>5, <1>6, SameFlight DEF RxOrder

\* A frame the DMA has received enters the channel.
LEMMA FinishEnters ==
  ASSUME RingInv, RingInv', RxOrder, DmaFinish
  PROVE  RxOrder' /\ Channel!Enter
<1>1. /\ ChainOrder' /\ RingIds' = RingIds \cup {filled}
      /\ \A n \in Int : RingAfter(n) => RingAfter(n)'
      /\ \A i \in CpuOwned : slot'[i] = slot[i]
  BY FillOrder DEF RxOrder
<1>2. UNCHANGED <<cur, npc, mbox, tmsg, tpc, last, pDMARxSet>>
      /\ filled' = filled + 1
  BY DEF DmaFinish, memVars, taskVars, tcpVars
<1>3. CurOrder'
  <2>1. npc = "free" => slot'[pDMARxSet] = slot[pDMARxSet]
    BY <1>1 DEF RingInv, TypeOK, Control, Holding, CpuOwned
  <2> QED
    BY <1>1, <1>2, <2>1, RxPlaces DEF RxOrder, CurOrder
<1>4. RxOrder'
  BY <1>1, <1>2, <1>3, AfterKept DEF RxOrder, MsgOrder
<1>5. CurIds' = CurIds /\ BoxIds' = BoxIds /\ MsgIds' = MsgIds
  BY <1>2 DEF CurIds, BoxIds, MsgIds
<1>6. InFlight' = InFlight \cup {filled}
  BY <1>1, <1>5, InFlightParts, InFlightNext
<1> QED
  BY <1>2, <1>4, <1>6 DEF Channel!Enter

\* A descriptor given back with its frame in p moves the frame; without, the
\* frame, bad or without a pbuf, is lost.
LEMMA GiveBackMoves ==
  ASSUME RingInv, RingInv', RxOrder, GiveBack, own[pDMARxSet] = "cpu",
         UNCHANGED <<filled, cur, mbox, tmsg, tpc, last>>,
         cur # NoFrame => npc = "free" /\ npc' = "poll"
  PROVE  RxOrder' /\ (Channel!Lose \/ UNCHANGED Channel!chVars)
<1> DEFINE id == slot[pDMARxSet].id
<1>1. /\ ChainOrder' /\ pDMARxSet \in CpuOwned /\ RingIds' = RingIds \ {id}
      /\ \A n \in Int : n <= id => RingAfter(n)'
      /\ \A n \in Int : RingAfter(n) => RingAfter(n)'
  BY GiveBackOrder DEF RxOrder
<1>2. id \in Int /\ id \in RingIds
  BY <1>1, RxPlaces DEF RxOrder, ChainOrder, RingIds
<1>3. CurOrder'
  BY <1>1, <1>2 DEF RxOrder, CurOrder
<1>4. RxOrder'
  BY <1>1, <1>3, AfterKept DEF RxOrder, MsgOrder
<1>5. CurIds' = CurIds /\ BoxIds' = BoxIds /\ MsgIds' = MsgIds
  BY DEF CurIds, BoxIds, MsgIds
<1>6. CASE cur # NoFrame
  <2>1. CurIds = {id}
    BY <1>6 DEF RxOrder, CurOrder, CurIds
  <2> QED
    BY <1>1, <1>2, <1>4, <1>5, <2>1, SameFlight
<1>7. CASE cur = NoFrame
  <2>1. id \notin CurIds /\ id \notin BoxIds /\ id \notin MsgIds
    <3>1. ASSUME NEW n \in Int, RingAfter(n) PROVE n # id
      BY <1>1, <1>2, <3>1 DEF RingAfter
    <3>2. id \notin BoxIds
      BY <3>1, RxPlaces DEF RxOrder, BoxOrder, BoxAfter, CurAfter, BoxIds
    <3>3. id \notin MsgIds
      BY <3>1, RxPlaces DEF RxOrder, MsgOrder, BoxAfter, CurAfter, MsgIds
    <3> QED
      BY <1>7, <3>2, <3>3 DEF CurIds
  <2>2. InFlight' = InFlight \ {id} /\ id \in InFlight
    BY <1>1, <1>2, <1>5, <2>1, InFlightParts, InFlightNext
  <2> QED
    BY <1>4, <2>2 DEF Channel!Lose
<1> QED
  BY <1>6, <1>7

\* pbuf_take copies the frame of the descriptor the driver holds.
LEMMA TakeMoves ==
  ASSUME RingInv, RingInv', RxOrder, PbufTake
  PROVE  RxOrder' /\ UNCHANGED Channel!chVars
<1>1. pDMARxSet \in CpuOwned /\ slot[pDMARxSet] \in Frame
  BY DEF RingInv, TypeOK, Control, Holding, PbufTake, CpuOwned, RxOrder, ChainOrder
<1>2. UNCHANGED <<own, slot, pDMARxSet, filled, mbox, tmsg, tpc, last>>
      /\ cur' = slot[pDMARxSet] /\ npc' = "free" /\ cur = NoFrame
  BY DEF PbufTake, ringVars, dmaVars, memVars, tcpVars, RxOrder, CurOrder
<1>3. CpuOwned' = CpuOwned
  BY <1>2 DEF CpuOwned
<1>4. ChainOrder' /\ CurOrder' /\ \A n : RingAfter(n)' <=> RingAfter(n)
  BY <1>1, <1>2, <1>3 DEF ChainOrder, CurOrder, RxOrder, Dist, RingAfter
<1>5. \A n : CurAfter(n) => CurAfter(n)'
  BY <1>1, <1>2, <1>4 DEF CurAfter, RingAfter
<1>6. \A n, k : BoxAfter(n, k) => BoxAfter(n, k)'
  BY <1>2, <1>5 DEF BoxAfter
<1>7. RxOrder'
  BY <1>2, <1>4, <1>6 DEF RxOrder, BoxOrder, MsgOrder
<1>8. RingIds' = RingIds /\ BoxIds' = BoxIds /\ MsgIds' = MsgIds
      /\ CurIds' = {slot[pDMARxSet].id} /\ CurIds = {}
  BY <1>1, <1>2, <1>3, NotFrames DEF RingIds, BoxIds, MsgIds, CurIds
<1>9. slot[pDMARxSet].id \in RingIds
  BY <1>1 DEF RingIds
<1> QED
  BY <1>2, <1>7, <1>8, <1>9, SameFlight

\* The places of the mailbox after a message m was posted behind the others.
LEMMA PostedBox ==
  ASSUME RingInv, NEW m \in Frame \cup {Ooseq}, mbox' = Append(mbox, m)
  PROVE  /\ DOMAIN mbox \subseteq Nat /\ Len(mbox) \in Nat
         /\ DOMAIN mbox' = DOMAIN mbox \cup {Len(mbox) + 1}
         /\ \A k \in DOMAIN mbox : mbox'[k] = mbox[k] /\ k < Len(mbox) + 1
         /\ mbox'[Len(mbox) + 1] = m
<1>1. mbox \in Seq(Frame \cup {Ooseq})
  BY DEF RingInv, TypeOK
<1> QED
  BY <1>1

\* p goes to the end of the mailbox.
LEMMA PostMoves ==
  ASSUME RingInv, RingInv', RxOrder, InputPost
  PROVE  RxOrder' /\ UNCHANGED Channel!chVars
<1> DEFINE e == Len(mbox) + 1
<1>1. cur \in Frame /\ cur.id \in Int /\ RingAfter(cur.id) /\ cur # NoFrame
      /\ cur # Ooseq
  BY RxPlaces, NotFrames DEF RingInv, Control, InputPost, RxOrder, CurOrder
<1>2. UNCHANGED <<own, slot, pDMARxSet, filled, tmsg, tpc, last>>
      /\ cur' = NoFrame /\ mbox' = Append(mbox, cur)
  BY DEF InputPost, ringVars, dmaVars, tcpVars
<1>3. /\ DOMAIN mbox \subseteq Nat /\ e \in Nat
      /\ DOMAIN mbox' = DOMAIN mbox \cup {e}
      /\ \A k \in DOMAIN mbox : mbox'[k] = mbox[k] /\ k < e
      /\ mbox'[e] = cur
  BY <1>1, <1>2, PostedBox
<1> HIDE DEF e
<1>4. CpuOwned' = CpuOwned
  BY <1>2 DEF CpuOwned
<1>5. ChainOrder' /\ CurOrder' /\ \A n : RingAfter(n)' <=> RingAfter(n)
  BY <1>2, <1>4 DEF ChainOrder, CurOrder, RxOrder, Dist, RingAfter
<1>6. \A n, k : BoxAfter(n, k) => BoxAfter(n, k)'
  BY <1>1, <1>2, <1>3, <1>5 DEF BoxAfter, CurAfter
<1>7. \A n, k : RingAfter(n) /\ k = e => BoxAfter(n, k)'
  BY <1>2, <1>3, <1>5 DEF BoxAfter, CurAfter
<1>8. BoxOrder'
  <2> SUFFICES ASSUME NEW k \in DOMAIN mbox', mbox'[k] # Ooseq
               PROVE  BoxAfter(mbox[k].id, k)'
    BY DEF BoxOrder
  <2>1. \A n : n = mbox'[k].id => BoxAfter(n, k)'
    BY <1>1, <1>3, <1>6, <1>7 DEF RxOrder, BoxOrder
  <2> QED
    BY <2>1 DEF BoxAfter, CurAfter, RingAfter
<1>9. BoxAfter(last, 0)' /\ MsgOrder'
  BY <1>2, <1>6 DEF RxOrder, MsgOrder
<1>10. RingIds' = RingIds /\ MsgIds' = MsgIds /\ CurIds' = {} /\ CurIds = {cur.id}
  BY <1>1, <1>2, <1>4 DEF RingIds, MsgIds, CurIds
<1>11. BoxIds' = BoxIds \cup {cur.id}
  BY <1>1, <1>3 DEF BoxIds
<1>12. (RingIds \cup CurIds \cup BoxIds \cup MsgIds)'
         = RingIds \cup CurIds \cup BoxIds \cup MsgIds
  BY <1>10, <1>11
<1> QED
  BY <1>2, <1>5, <1>8, <1>9, <1>12, SameFlight DEF RxOrder

\* The call of pbuf_free_ooseq is no frame.
LEMMA OoseqCallMoves ==
  ASSUME RingInv, RingInv', RxOrder, QueueOoseqCall
  PROVE  RxOrder' /\ UNCHANGED Channel!chVars
<1>1. UNCHANGED <<own, slot, pDMARxSet, filled, tmsg, tpc, last, cur>>
      /\ cur = NoFrame
  BY DEF QueueOoseqCall, ringVars, dmaVars, tcpVars, RxOrder, CurOrder
<1>2. CASE mbox' = mbox
  BY <1>1, <1>2, QuietRx DEF RxOrder, MsgOrder
<1>3. CASE mbox' = Append(mbox, Ooseq)
  <2> DEFINE e == Len(mbox) + 1
  <2>1. /\ DOMAIN mbox \subseteq Nat /\ e \in Nat
        /\ DOMAIN mbox' = DOMAIN mbox \cup {e}
        /\ \A k \in DOMAIN mbox : mbox'[k] = mbox[k] /\ k < e
        /\ mbox'[e] = Ooseq
    BY <1>3, PostedBox
  <2> HIDE DEF e
  <2>2. CpuOwned' = CpuOwned
    BY <1>1 DEF CpuOwned
  <2>3. ChainOrder' /\ CurOrder' /\ \A n : RingAfter(n)' <=> RingAfter(n)
    BY <1>1, <2>2 DEF ChainOrder, CurOrder, RxOrder, Dist, RingAfter
  <2>4. \A n, k : BoxAfter(n, k) => BoxAfter(n, k)'
    BY <1>1, <2>1, <2>3 DEF BoxAfter, CurAfter
  <2>5. BoxOrder'
    <3> SUFFICES ASSUME NEW k \in DOMAIN mbox', mbox'[k] # Ooseq
                 PROVE  BoxAfter(mbox[k].id, k)'
      BY DEF BoxOrder
    <3>1. \A n : n = mbox'[k].id => BoxAfter(n, k)'
      BY <2>1, <2>4 DEF RxOrder, BoxOrder
    <3> QED
      BY <3>1 DEF BoxAfter, CurAfter, RingAfter
  <2>6. BoxAfter(last, 0)' /\ MsgOrder'
    BY <1>1, <2>4 DEF RxOrder, MsgOrder
  <2>7. RingIds' = RingIds /\ MsgIds' = MsgIds /\ CurIds' = CurIds /\ BoxIds' = BoxIds
    BY <1>1, <2>1, <2>2 DEF RingIds, MsgIds, CurIds, BoxIds
  <2> QED
    BY <1>1, <2>3, <2>5, <2>6, <2>7, SameFlight DEF RxOrder
<1> QED
  BY <1>2, <1>3 DEF QueueOoseqCall

\* tcpip_thread takes the first message of the mailbox.
LEMMA FetchMoves ==
  ASSUME RingInv, RingInv', RxOrder, TcpipFetch
  PROVE  RxOrder' /\ UNCHANGED Channel!chVars
<1>1. UNCHANGED <<own, slot, pDMARxSet, filled, last, cur, npc>>
      /\ tmsg = NoFrame /\ tmsg' = mbox[1] /\ tpc' = "run"
  <2>1. mbox \in Seq(Frame \cup {Ooseq}) /\ mbox # << >>
    BY DEF RingInv, TypeOK, TcpipFetch
  <2>2. Head(mbox) = mbox[1]
    BY <2>1
  <2> QED
    BY <2>2 DEF TcpipFetch, ringVars, dmaVars, taskVars, RxOrder, MsgOrder
<1>2. /\ DOMAIN mbox \subseteq Nat \ {0} /\ 1 \in DOMAIN mbox
      /\ \A k \in Nat \ {0} : k \in DOMAIN mbox' <=> k + 1 \in DOMAIN mbox
      /\ \A k \in DOMAIN mbox' : k \in Nat \ {0} /\ mbox'[k] = mbox[k + 1]
  <2>1. mbox \in Seq(Frame \cup {Ooseq}) /\ mbox # << >> /\ mbox' = Tail(mbox)
    BY DEF RingInv, TypeOK, TcpipFetch
  <2> QED
    BY <2>1
<1>3. CpuOwned' = CpuOwned
  BY <1>1 DEF CpuOwned
<1>4. /\ ChainOrder' /\ CurOrder'
      /\ \A n : CurAfter(n)' <=> CurAfter(n)
  BY <1>1, <1>3 DEF ChainOrder, CurOrder, RxOrder, Dist, RingAfter, CurAfter
<1>5. \A n, k \in Int : BoxAfter(n, k + 1) => BoxAfter(n, k)'
  BY <1>1, <1>2, <1>4 DEF BoxAfter
<1>6. \A n \in Int : BoxAfter(n, 0) => BoxAfter(n, 0)'
  <2>1. \A n : BoxAfter(n, 0) => BoxAfter(n, 1)
    BY <1>2 DEF BoxAfter
  <2> QED
    BY <1>5, <2>1
<1>7. BoxOrder'
  <2> SUFFICES ASSUME NEW k \in DOMAIN mbox', mbox'[k] # Ooseq
               PROVE  BoxAfter(mbox[k].id, k)'
    BY DEF BoxOrder
  <2>1. k + 1 \in DOMAIN mbox /\ mbox'[k] = mbox[k + 1] /\ k \in Int
    BY <1>2
  <2>2. mbox[k + 1].id \in Int /\ BoxAfter(mbox[k + 1].id, k + 1)
    BY <2>1, RxPlaces DEF RxOrder, BoxOrder
  <2>3. \A n : n = mbox'[k].id => BoxAfter(n, k)'
    BY <1>5, <2>1, <2>2
  <2> QED
    BY <2>3 DEF BoxAfter, CurAfter, RingAfter
<1>8. BoxAfter(last, 0)'
  BY <1>1, <1>6, RxPlaces DEF RxOrder
<1>9. MsgOrder'
  <2> SUFFICES ASSUME mbox[1] \in Frame
               PROVE  last < mbox[1].id /\ BoxAfter(tmsg.id, 0)'
    BY <1>1 DEF MsgOrder
  <2>1. mbox[1] # Ooseq /\ mbox[1].id \in Int
    BY NotFrames, RxPlaces
  <2>2. last < mbox[1].id
    BY <1>2, <2>1 DEF RxOrder, BoxAfter
  <2>3. BoxAfter(mbox[1].id, 0 + 1)
    BY <1>2, <2>1 DEF RxOrder, BoxOrder
  <2>4. \A n : n = tmsg'.id => BoxAfter(n, 0)'
    BY <1>1, <1>5, <2>1, <2>3
  <2> QED
    BY <2>2, <2>4 DEF BoxAfter, CurAfter, RingAfter
<1>10. RingIds' = RingIds /\ CurIds' = CurIds /\ MsgIds = {}
  BY <1>1, <1>3, NotFrames DEF RingIds, CurIds, MsgIds
<1>11. BoxIds' \cup MsgIds' = BoxIds
  <2>1. MsgIds' = IF mbox[1] # Ooseq THEN {mbox[1].id} ELSE {}
    BY <1>1, <1>2, RxPlaces, NotFrames DEF MsgIds
  <2>2. \A k \in DOMAIN mbox : k = 1 \/ (k - 1 \in DOMAIN mbox' /\ k = k - 1 + 1)
    BY <1>2
  <2>3. \A k \in DOMAIN mbox' : k + 1 \in DOMAIN mbox
    BY <1>2
  <2>4. BoxIds' \subseteq BoxIds
    BY <1>2, <2>3 DEF BoxIds
  <2>5. BoxIds \subseteq BoxIds' \cup MsgIds'
    BY <1>2, <2>1, <2>2 DEF BoxIds
  <2>6. MsgIds' \subseteq BoxIds
    BY <1>2, <2>1 DEF BoxIds
  <2> QED
    BY <2>4, <2>5, <2>6
<1> QED
  BY <1>1, <1>4, <1>7, <1>8, <1>9, <1>10, <1>11, SameFlight DEF RxOrder

\* A refused frame is lost.
LEMMA ErrorLoses ==
  ASSUME RingInv, RingInv', RxOrder, InputError
  PROVE  RxOrder' /\ Channel!Lose
<1>1. cur \in Frame /\ cur.id \in Int /\ RingAfter(cur.id) /\ cur # NoFrame
  BY RxPlaces, NotFrames DEF RingInv, Control, InputError, RxOrder, CurOrder
<1>2. UNCHANGED <<own, slot, pDMARxSet, filled, mbox, tmsg, tpc, last>>
      /\ cur' = NoFrame
  BY DEF InputError, ringVars, dmaVars, tcpVars
<1>3. CpuOwned' = CpuOwned
  BY <1>2 DEF CpuOwned
<1>4. ChainOrder' /\ CurOrder' /\ \A n : CurAfter(n) => CurAfter(n)'
  BY <1>2, <1>3 DEF ChainOrder, CurOrder, RxOrder, Dist, RingAfter, CurAfter
<1>5. \A n, k : BoxAfter(n, k) => BoxAfter(n, k)'
  BY <1>2, <1>4 DEF BoxAfter
<1>6. RxOrder'
  BY <1>2, <1>4, <1>5 DEF RxOrder, BoxOrder, MsgOrder
<1>7. RingIds' = RingIds /\ BoxIds' = BoxIds /\ MsgIds' = MsgIds /\ CurIds' = {}
      /\ CurIds = {cur.id}
  BY <1>1, <1>2, <1>3 DEF RingIds, BoxIds, MsgIds, CurIds
<1>8. cur.id \notin RingIds
  BY <1>1 DEF RingAfter, RingIds
<1>9. cur.id \notin BoxIds
  BY <1>1, RxPlaces DEF RxOrder, BoxOrder, BoxAfter, CurAfter, BoxIds
<1>10. cur.id \notin MsgIds
  BY <1>1, RxPlaces DEF RxOrder, MsgOrder, BoxAfter, CurAfter, MsgIds
<1>11. InFlight' = InFlight \ {cur.id} /\ cur.id \in InFlight
  BY <1>7, <1>8, <1>9, <1>10, InFlightParts, InFlightNext
<1> QED
  BY <1>2, <1>6, <1>11 DEF Channel!Lose

\* The frame input_fn is given is the oldest in flight.
LEMMA InputHandsOver ==
  ASSUME RingInv, RingInv', RxOrder, TcpipInput
  PROVE  RxOrder' /\ Channel!HandOver
<1>1. tmsg \in Frame /\ tmsg.id \in Int /\ BoxAfter(tmsg.id, 0)
  BY RxPlaces, NotFrames DEF RingInv, Control, TcpipInput, RxOrder, MsgOrder
<1>2. UNCHANGED <<own, slot, pDMARxSet, filled, mbox, cur, npc>>
      /\ tmsg' = NoFrame /\ last' = tmsg.id /\ tpc' = "msgfree"
  BY DEF TcpipInput, ringVars, dmaVars, taskVars
<1>3. CpuOwned' = CpuOwned
  BY <1>2 DEF CpuOwned
<1>4. ChainOrder' /\ CurOrder' /\ \A n, k : BoxAfter(n, k)' <=> BoxAfter(n, k)
  BY <1>2, <1>3
  DEF ChainOrder, CurOrder, RxOrder, Dist, RingAfter, CurAfter, BoxAfter
<1>5. RxOrder'
  BY <1>1, <1>2, <1>4, NotFrames DEF RxOrder, BoxOrder, MsgOrder
<1>6. RingIds' = RingIds /\ BoxIds' = BoxIds /\ CurIds' = CurIds /\ MsgIds' = {}
      /\ MsgIds = {tmsg.id}
  BY <1>1, <1>2, <1>3, NotFrames DEF RingIds, BoxIds, MsgIds, CurIds
<1>7. /\ \A g \in RingIds \cup CurIds : g \in Int /\ tmsg.id < g
      /\ \A g \in BoxIds : g \in Int /\ tmsg.id < g
  <2>1. \A g \in RingIds : g \in Int /\ tmsg.id < g
    BY <1>1, RxPlaces DEF RingIds, BoxAfter, CurAfter, RingAfter, RxOrder, ChainOrder
  <2>2. \A g \in CurIds : g \in Int /\ tmsg.id < g
    BY <1>1, RxPlaces DEF CurIds, BoxAfter, CurAfter
  <2>3. \A k \in DOMAIN mbox : 0 < k
    BY DEF RingInv, TypeOK
  <2>4. \A g \in BoxIds : g \in Int /\ tmsg.id < g
    BY <1>1, <2>3, RxPlaces DEF BoxIds, BoxAfter
  <2> QED
    BY <2>1, <2>2, <2>4
<1>8. /\ InFlight' = InFlight \ {tmsg.id} /\ tmsg.id \in InFlight
      /\ \A g \in InFlight : tmsg.id <= g
  BY <1>1, <1>6, <1>7, InFlightParts, InFlightNext
<1> QED
  BY <1>2, <1>5, <1>8 DEF Channel!HandOver

\* Every step of reception is one of the channel, or none.
LEMMA RxStepImplements ==
  RingInv /\ RxOrder /\ [RxNext]_vars
    => RxOrder' /\ [Channel!ChNext]_(Channel!chVars)
<1> SUFFICES ASSUME RingInv, RxOrder, [RxNext]_vars
             PROVE  RxOrder' /\ [Channel!ChNext]_(Channel!chVars)
  OBVIOUS
<1> USE NextKeepsRing DEF Channel!ChNext
<1>1. ASSUME UNCHANGED <<own, slot, pDMARxSet, filled, cur, mbox, last>>,
             UNCHANGED <<npc, tpc, tmsg>>
      PROVE  RxOrder' /\ UNCHANGED Channel!chVars
  BY <1>1, QuietRx DEF RxOrder, CurOrder, MsgOrder
<1>2. CASE DmaStart \/ DmaSuspend \/ DmaAutoResume \/ DmaTxDone \/ Isr \/ StackRelease
           \/ UNCHANGED vars
  <2>1. UNCHANGED <<own, slot, pDMARxSet, filled, cur, mbox, last, npc, tpc, tmsg>>
    BY <1>2 DEF DmaStart, DmaSuspend, DmaAutoResume, DmaTxDone, Isr, IsrRbuResume,
                ReceivePollDemand, StackRelease, vars, rxVars, ringVars, dmaVars,
                memVars, taskVars, tcpVars
  <2> QED
    BY <1>1, <2>1
<1>3. CASE DmaFinish
  BY <1>3, FinishEnters
<1>4. CASE TcpipFetch
  BY <1>4, FetchMoves
<1>5. CASE TcpipInput
  BY <1>5, InputHandsOver
<1>6. CASE TcpipMsgFree \/ TcpipFreeOoseq \/ TcpipReclaim
  <2>1. /\ UNCHANGED <<own, slot, pDMARxSet, filled, cur, mbox, last, npc>>
        /\ tpc' # "run" /\ tmsg' = NoFrame /\ (tmsg = NoFrame \/ tmsg = Ooseq)
    BY <1>6 DEF TcpipMsgFree, TcpipFreeOoseq, TcpipReclaim, ringVars, dmaVars,
                taskVars, RxOrder, MsgOrder
  <2> QED
    BY <2>1, QuietRx, NotFrames DEF RxOrder, CurOrder
<1>7. ASSUME UNCHANGED <<own, slot, pDMARxSet, filled, cur, mbox, last, tpc, tmsg>>,
             cur # NoFrame => /\ npc' = "free" <=> npc = "free"
                              /\ npc' \in {"free", "poll", "input", "post", "inputErr"}
      PROVE  RxOrder' /\ UNCHANGED Channel!chVars
  BY <1>7, QuietRx DEF RxOrder, MsgOrder
<1>8. CASE RxTake \/ RxTimeout \/ RecPeekNone \/ RecPeekGood \/ PbufAllocOne
           \/ PbufAllocFail \/ PoolIsEmpty \/ PbufAllocUnwind
  <2>1. /\ UNCHANGED <<own, slot, pDMARxSet, filled, cur, mbox, last, tpc, tmsg>>
        /\ npc \notin {"free", "poll", "input", "post", "inputErr"}
    BY <1>8 DEF RxTake, RxTimeout, RecPeekNone, RecPeekGood, PbufAllocOne,
                PbufAllocFail, PoolIsEmpty, PbufAllocUnwind, ringVars, dmaVars,
                memVars, tcpVars
  <2>2. cur = NoFrame
    BY <2>1 DEF RxOrder, CurOrder
  <2> QED
    BY <1>7, <2>1, <2>2
<1>9. CASE RecFreePoll
  BY <1>7, <1>9 DEF RecFreePoll, ReceivePollDemand, ringVars, memVars, tcpVars
<1>10. CASE InputMsgAlloc \/ InputPostFull
  BY <1>7, <1>10 DEF InputMsgAlloc, InputPostFull, ringVars, dmaVars, tcpVars
<1>11. CASE RecPeekBad
  <2>1. cur = NoFrame
    BY <1>11 DEF RecPeekBad, RxOrder, CurOrder
  <2> QED
    BY <1>11, <2>1, GiveBackMoves
    DEF RecPeekBad, dmaVars, memVars, taskVars, tcpVars
<1>12. CASE RecFree
  BY <1>12, GiveBackMoves
  DEF RecFree, RingInv, Control, Holding, dmaVars, memVars, tcpVars
<1>13. CASE QueueOoseqCall
  BY <1>13, OoseqCallMoves
<1>14. CASE PbufTake
  BY <1>14, TakeMoves
<1>15. CASE InputPost
  BY <1>15, PostMoves
<1>16. CASE InputError
  BY <1>16, ErrorLoses
<1> QED
  BY <1>2, <1>3, <1>4, <1>5, <1>6, <1>8, <1>9, <1>10, <1>11, <1>12, <1>13, <1>14,
     <1>15, <1>16 DEF RxNext, NetifTask, Tcpip

LEMMA InitRxOrder == Init => RxOrder /\ Channel!ChInit
<1> SUFFICES ASSUME Init PROVE RxOrder /\ Channel!ChInit
  OBVIOUS
<1>1. CpuOwned = {} /\ InPbufs = {} /\ DOMAIN mbox = {}
  BY DEF Init, CpuOwned, InPbufs
<1>2. RxOrder
  BY <1>1, NotFrames DEF Init, RxOrder, ChainOrder, CurOrder, BoxOrder, MsgOrder,
                         BoxAfter, CurAfter, RingAfter
<1> QED
  BY <1>1, <1>2 DEF Init, InFlight, Channel!ChInit

\* For any chain, pools and mailbox and any number of frames, a frame is handed
\* to the stack at most once and in the order of reception, whichever frames
\* are lost on the way: reception implements the frame channel.
THEOREM RxDeliversInOrder == RxSpec => DeliversInOrder
<1>1. RxSpec => []RxOrder
  BY InitRxOrder, RxStepImplements, RxRingInv, PTL DEF RxSpec
<1> QED
  BY <1>1, InitRxOrder, RxStepImplements, RxRingInv, PTL
  DEF RxSpec, DeliversInOrder, Channel!ChSpec

-----------------------------------------------------------------------------
(* Both pools stay whole. *)

Kept == app \cup ooseq \cup reclaim

\* What is kept was handed over before, by one holder only, and only
\* pbuf_free_ooseq has frames to reclaim.
KeptOnce ==
  /\ \A f \in Kept : f.id <= last
  /\ app \cap ooseq = {} /\ app \cap reclaim = {} /\ ooseq \cap reclaim = {}
  /\ tpc # "reclaim" => reclaim = {}
  /\ IsFiniteSet(Kept) /\ IsFiniteSet(InPbufs)

\* pbuf_alloc alone holds part of a chain, and a whole one at pbuf_take.
GotWhole ==
  /\ npc \notin {"alloc", "empty", "callback", "unwind", "take"} => got = 0
  /\ npc = "take" => got = slot[pDMARxSet].pbufs

PoolInv == KeptOnce /\ GotWhole /\ PoolsConserved

\* A frame more takes its pbufs,
LEMMA PbufsAdd ==
  ASSUME NEW F \in SUBSET Frame, IsFiniteSet(F), NEW f \in Frame, f \notin F
  PROVE  /\ IsFiniteSet(F \cup {f})
         /\ Pbufs(F) \in Nat /\ f.pbufs \in Nat
         /\ Pbufs(F \cup {f}) = Pbufs(F) + f.pbufs
<1> DEFINE G == F \cup {f}
           w == [g \in G |-> g.pbufs]
           v == [g \in F |-> g.pbufs]
<1>1. \A g \in Frame : g.pbufs \in Nat
  BY DEF Frame
<1>2. IsFiniteSet(G)
  BY FS_AddElement
<1>3. G \ {f} = F
  OBVIOUS
<1>4. \A g \in G : w[g] \in Nat
  BY <1>1
<1>5. Held(G, w) = Held(G \ {f}, w) + w[f]
  <2>1. f \in G
    OBVIOUS
  <2> HIDE DEF G, w
  <2> QED
    BY <1>2, <1>4, <2>1, HeldWithout
<1>6. Held(G \ {f}, w) = Held(F, w)
  BY <1>3, Zenon
<1>7. Held(F, w) = Held(F, v)
  BY HeldSame
<1>8. Held(F, v) \in Nat
  BY <1>1, HeldType
<1>9. w[f] = f.pbufs
  OBVIOUS
<1> QED
  BY <1>1, <1>2, <1>5, <1>6, <1>7, <1>8, <1>9 DEF Pbufs

\* and one less gives them back.
LEMMA PbufsRemove ==
  ASSUME NEW F \in SUBSET Frame, IsFiniteSet(F), NEW f \in F
  PROVE  /\ IsFiniteSet(F \ {f})
         /\ Pbufs(F \ {f}) \in Nat /\ f.pbufs \in Nat
         /\ Pbufs(F) = Pbufs(F \ {f}) + f.pbufs
<1>1. IsFiniteSet(F \ {f})
  BY FS_RemoveElement
<1>2. (F \ {f}) \cup {f} = F
  OBVIOUS
<1>3. /\ Pbufs(F \ {f}) \in Nat /\ f.pbufs \in Nat
      /\ Pbufs((F \ {f}) \cup {f}) = Pbufs(F \ {f}) + f.pbufs
  <2> DEFINE G == F \ {f}
  <2>1. G \in SUBSET Frame /\ IsFiniteSet(G) /\ f \in Frame /\ f \notin G
    BY <1>1
  <2> HIDE DEF G
  <2>2. /\ Pbufs(G) \in Nat /\ f.pbufs \in Nat
        /\ Pbufs(G \cup {f}) = Pbufs(G) + f.pbufs
    BY <2>1, PbufsAdd
  <2> QED
    BY <2>2 DEF G
<1>4. Pbufs((F \ {f}) \cup {f}) = Pbufs(F)
  BY <1>2, Zenon
<1> QED
  BY <1>1, <1>3, <1>4

\* The frames in pbufs, by place.
LEMMA InPbufsParts ==
  ASSUME RingInv
  PROVE  /\ InPbufs = ({cur} \ {NoFrame})
                        \cup {mbox[k] : k \in {k \in DOMAIN mbox : mbox[k] # Ooseq}}
                        \cup ({tmsg} \cap Frame)
         /\ InPbufs \in SUBSET Frame /\ Kept \in SUBSET Frame
<1>1. InPbufs = ({cur} \ {NoFrame})
                  \cup {mbox[k] : k \in {k \in DOMAIN mbox : mbox[k] # Ooseq}}
                  \cup ({tmsg} \cap Frame)
  BY RxPlaces, NotFrames DEF InPbufs
<1> QED
  BY <1>1, RxPlaces DEF RingInv, TypeOK, Kept

\* Where no frame in pbufs and none kept moves, the pool's free elements and
\* those of the chain being allocated balance.
LEMMA PbufsQuiet ==
  ASSUME InPbufs' = InPbufs, Kept' = Kept, PbufsConserved,
         poolFree' + got' = poolFree + got
  PROVE  PbufsConserved'
<1>1. Pbufs(InPbufs') = Pbufs(InPbufs) /\ Pbufs(Kept') = Pbufs(Kept)
  BY Zenon
<1>2. poolFree + got + Pbufs(InPbufs) + Pbufs(Kept) = PoolSize
  BY DEF PbufsConserved, Kept
<1>3. PbufsConserved' <=> poolFree' + got' + Pbufs(InPbufs') + Pbufs(Kept') = PoolSize
  BY DEF PbufsConserved, Kept
<1> QED
  BY <1>1, <1>2, <1>3

\* A frame in pbufs is later than what the stack was given, and the next frame
\* of the chain is none of them.
LEMMA FreshFrames ==
  ASSUME RingInv, RxOrder
  PROVE  /\ \A f \in InPbufs : last < f.id
         /\ \A k \in DOMAIN mbox : mbox[k] # Ooseq /\ cur # NoFrame => mbox[k] # cur
         /\ \A k \in DOMAIN mbox : mbox[k] # Ooseq /\ tmsg \in Frame => mbox[k] # tmsg
         /\ tmsg \in Frame /\ cur # NoFrame => tmsg # cur
         /\ cur = NoFrame /\ own[pDMARxSet] = "cpu" => slot[pDMARxSet] \notin InPbufs
<1>1. \A k \in DOMAIN mbox : 0 < k
  BY DEF RingInv, TypeOK
<1>2. \A f \in InPbufs : last < f.id
  BY <1>1, InPbufsParts DEF RxOrder, MsgOrder, BoxAfter, CurAfter
<1>3. \A k \in DOMAIN mbox : mbox[k] # Ooseq /\ cur # NoFrame => mbox[k] # cur
  BY RxPlaces DEF RxOrder, BoxOrder, BoxAfter, CurAfter
<1>4. \A k \in DOMAIN mbox : mbox[k] # Ooseq /\ tmsg \in Frame => mbox[k] # tmsg
  BY <1>1, RxPlaces DEF RxOrder, MsgOrder, BoxAfter
<1>5. tmsg \in Frame /\ cur # NoFrame => tmsg # cur
  BY RxPlaces DEF RxOrder, MsgOrder, BoxAfter, CurAfter
<1>6. ASSUME cur = NoFrame, own[pDMARxSet] = "cpu"
      PROVE  slot[pDMARxSet] \notin InPbufs
  <2>1. pDMARxSet \in CpuOwned
    BY <1>6, RxPlaces DEF CpuOwned
  <2>2. \A f \in InPbufs : RingAfter(f.id)
    BY <1>6, InPbufsParts DEF RxOrder, BoxOrder, MsgOrder, BoxAfter, CurAfter
  <2>3. \A f \in InPbufs : f.id \in Int /\ f.id < slot[pDMARxSet].id
    BY <2>1, <2>2, InPbufsParts, RxPlaces DEF RingAfter
  <2> QED
    BY <2>3
<1> QED
  BY <1>2, <1>3, <1>4, <1>5, <1>6

\* Handing a message on moves no frame in or out of the pbufs.
LEMMA InPbufsMoves ==
  ASSUME RingInv, RingInv', RxOrder
  PROVE  /\ UNCHANGED <<cur, mbox, tmsg>> => InPbufs' = InPbufs
         /\ InputPost \/ QueueOoseqCall \/ TcpipFetch \/ TcpipFreeOoseq
              => InPbufs' = InPbufs
<1>1. UNCHANGED <<cur, mbox, tmsg>> => InPbufs' = InPbufs
  BY DEF InPbufs
<1>2. ASSUME InputPost PROVE InPbufs' = InPbufs
  <2>1. cur \in Frame /\ cur' = NoFrame /\ tmsg' = tmsg /\ mbox' = Append(mbox, cur)
    BY <1>2 DEF InputPost, RingInv, Control, tcpVars
  <2>2. /\ DOMAIN mbox' = DOMAIN mbox \cup {Len(mbox) + 1}
        /\ \A k \in DOMAIN mbox : mbox'[k] = mbox[k]
        /\ mbox'[Len(mbox) + 1] = cur
    BY <2>1, PostedBox
  <2>3. {mbox'[k] : k \in DOMAIN mbox'} = {mbox[k] : k \in DOMAIN mbox} \cup {cur}
    BY <2>2
  <2> QED
    BY <2>1, <2>3 DEF InPbufs
<1>3. ASSUME QueueOoseqCall PROVE InPbufs' = InPbufs
  <2>1. CASE mbox' = Append(mbox, Ooseq)
    <3>1. /\ DOMAIN mbox' = DOMAIN mbox \cup {Len(mbox) + 1}
          /\ \A k \in DOMAIN mbox : mbox'[k] = mbox[k]
          /\ mbox'[Len(mbox) + 1] = Ooseq
      BY <2>1, PostedBox
    <3>2. {mbox'[k] : k \in DOMAIN mbox'} = {mbox[k] : k \in DOMAIN mbox} \cup {Ooseq}
      BY <3>1
    <3> QED
      BY <1>3, <3>2 DEF InPbufs, QueueOoseqCall, tcpVars
  <2> QED
    BY <1>3, <2>1 DEF InPbufs, QueueOoseqCall, tcpVars
<1>4. ASSUME TcpipFetch PROVE InPbufs' = InPbufs
  <2>1. mbox \in Seq(Frame \cup {Ooseq}) /\ mbox # << >> /\ mbox' = Tail(mbox)
        /\ tmsg' = Head(mbox) /\ cur' = cur /\ tmsg = NoFrame
    BY <1>4 DEF RingInv, TypeOK, TcpipFetch, taskVars, RxOrder, MsgOrder
  <2>2. /\ tmsg' = mbox[1] /\ 1 \in DOMAIN mbox
        /\ \A k \in DOMAIN mbox' : mbox'[k] = mbox[k + 1] /\ k + 1 \in DOMAIN mbox
        /\ \A k \in DOMAIN mbox : k # 1 => /\ k - 1 \in DOMAIN mbox'
                                           /\ mbox'[k - 1] = mbox[k]
    BY <2>1
  <2>3. {mbox[k] : k \in DOMAIN mbox} = {mbox'[k] : k \in DOMAIN mbox'} \cup {tmsg'}
    BY <2>2
  <2> QED
    BY <2>1, <2>3 DEF InPbufs
<1>5. ASSUME TcpipFreeOoseq PROVE InPbufs' = InPbufs
  BY <1>5 DEF InPbufs, TcpipFreeOoseq, taskVars
<1> QED
  BY <1>1, <1>2, <1>3, <1>4, <1>5

\* The chain being allocated is the one of the descriptor at hand.
LEMMA GotStep ==
  ASSUME RingInv, GotWhole, [RxNext]_vars
  PROVE  GotWhole'
<1> USE DEF GotWhole
<1>1. CASE DmaFinish
  <2>1. npc = "take" => dmaPtr # pDMARxSet
    BY <1>1 DEF DmaFinish, RingInv, Control, Holding
  <2>2. npc = "take" => slot'[pDMARxSet] = slot[pDMARxSet]
    BY <1>1, <2>1 DEF DmaFinish, RingInv, TypeOK
  <2> QED
    BY <1>1, <2>2 DEF DmaFinish, taskVars
<1>2. CASE DmaStart \/ DmaSuspend \/ DmaAutoResume \/ DmaTxDone \/ Isr \/ StackRelease
           \/ UNCHANGED vars
  BY <1>2 DEF DmaStart, DmaSuspend, DmaAutoResume, DmaTxDone, Isr, IsrRbuResume,
              StackRelease, vars, rxVars, ringVars, taskVars
<1>3. CASE Tcpip
  BY <1>3 DEF Tcpip, TcpipFetch, TcpipInput, TcpipMsgFree, TcpipFreeOoseq,
              TcpipReclaim, ringVars, taskVars
<1>4. CASE PbufAllocOne
  BY <1>4 DEF PbufAllocOne, ringVars
<1>5. CASE NetifTask /\ ~PbufAllocOne
  BY <1>5 DEF NetifTask, RxTake, RxTimeout, RecPeekNone, RecPeekGood, RecPeekBad,
         PbufAllocFail, PoolIsEmpty, QueueOoseqCall, PbufAllocUnwind, PbufTake,
         RecFree, RecFreePoll, InputMsgAlloc, InputPost, InputPostFull, InputError,
         taskVars
<1> QED
  BY <1>1, <1>2, <1>3, <1>4, <1>5 DEF RxNext

\* Steps that leave frames and holders alone.
LEMMA HoldersQuiet ==
  ASSUME RingInv, KeptOnce, PbufsConserved,
         InPbufs' = InPbufs, UNCHANGED <<app, ooseq, reclaim, last>>,
         tpc' # "reclaim" => tpc # "reclaim" \/ reclaim = {},
         poolFree' + got' = poolFree + got
  PROVE  KeptOnce' /\ PbufsConserved'
<1>1. Kept' = Kept
  BY DEF Kept
<1>2. IsFiniteSet(Kept') /\ IsFiniteSet(InPbufs')
  BY <1>1, Zenon DEF KeptOnce
<1>3. KeptOnce'
  BY <1>1, <1>2 DEF KeptOnce
<1> QED
  BY <1>1, <1>3, PbufsQuiet

\* What the pool's elements add up to, with and without a prime.
LEMMA PoolSum ==
  ASSUME RingInv, KeptOnce
  PROVE  /\ Pbufs(InPbufs) \in Nat /\ Pbufs(Kept) \in Nat
         /\ poolFree \in Nat /\ got \in Nat
         /\ PbufsConserved <=>
              poolFree + got + Pbufs(InPbufs) + Pbufs(Kept) = PoolSize
         /\ PbufsConserved' <=>
              poolFree' + got' + Pbufs(InPbufs') + Pbufs(Kept') = PoolSize
<1>1. ASSUME NEW F \in SUBSET Frame, IsFiniteSet(F) PROVE Pbufs(F) \in Nat
  <2> DEFINE w == [f \in F |-> f.pbufs]
  <2>1. \A f \in F : w[f] \in Nat
    BY DEF Frame
  <2> HIDE DEF w
  <2>2. Held(F, w) \in Nat
    BY <1>1, <2>1, HeldType
  <2> QED
    BY <2>2 DEF Pbufs, w
<1>2. Pbufs(InPbufs) \in Nat /\ Pbufs(Kept) \in Nat
  BY <1>1, InPbufsParts DEF KeptOnce
<1>3. /\ PbufsConserved <=>
           poolFree + got + Pbufs(InPbufs) + Pbufs(Kept) = PoolSize
      /\ PbufsConserved' <=>
           poolFree' + got' + Pbufs(InPbufs') + Pbufs(Kept') = PoolSize
  BY DEF PbufsConserved, Kept
<1> QED
  BY <1>2, <1>3 DEF RingInv, TypeOK

\* A chain of pbufs becomes a frame, and a frame the free elements it was.
LEMMA TaskPbufs ==
  ASSUME RingInv, RingInv', RxOrder, KeptOnce, GotWhole, PbufsConserved,
         PbufTake \/ InputError
  PROVE  KeptOnce' /\ PbufsConserved'
<1>1. UNCHANGED <<app, ooseq, reclaim, last, tpc, tmsg, mbox>>
  BY DEF PbufTake, InputError, memVars, tcpVars
<1>2. Kept' = Kept
  BY <1>1 DEF Kept
<1>3. /\ InPbufs \in SUBSET Frame /\ Kept \in SUBSET Frame
      /\ IsFiniteSet(InPbufs) /\ IsFiniteSet(Kept)
  BY InPbufsParts DEF KeptOnce
<1>4. Pbufs(Kept') = Pbufs(Kept) /\ IsFiniteSet(Kept')
  BY <1>2, <1>3, Zenon
<1>5. ASSUME IsFiniteSet(InPbufs') PROVE KeptOnce'
  BY <1>1, <1>2, <1>4, <1>5 DEF KeptOnce
<1>6. CASE PbufTake
  <2> DEFINE f == slot[pDMARxSet]
  <2>1. cur = NoFrame /\ cur' = f /\ got' = 0 /\ poolFree' = poolFree /\ got = f.pbufs
    BY <1>6 DEF PbufTake, memVars, RxOrder, CurOrder, GotWhole
  <2>2. f \in Frame /\ own[pDMARxSet] = "cpu"
    BY <1>6, RxPlaces
    DEF PbufTake, RingInv, Control, Holding, RxOrder, ChainOrder, CpuOwned
  <2>3. InPbufs' = InPbufs \cup {f} /\ f \notin InPbufs
    BY <1>1, <2>1, <2>2, NotFrames, FreshFrames DEF InPbufs
  <2>4. /\ IsFiniteSet(InPbufs \cup {f}) /\ f.pbufs \in Nat
        /\ Pbufs(InPbufs \cup {f}) = Pbufs(InPbufs) + f.pbufs
    BY <1>3, <2>2, <2>3, PbufsAdd
  <2>5. /\ IsFiniteSet(InPbufs')
        /\ Pbufs(InPbufs') = Pbufs(InPbufs \cup {f})
    BY <2>3, <2>4, Zenon
  <2> HIDE DEF f
  <2>6. PbufsConserved'
    BY <1>4, <2>1, <2>4, <2>5, PoolSum
  <2> QED
    BY <1>5, <2>5, <2>6
<1>7. CASE InputError
  <2>1. cur \in Frame /\ cur' = NoFrame /\ got' = got
        /\ poolFree' = poolFree + cur.pbufs
    BY <1>7 DEF InputError, RingInv, Control
  <2>2. cur \in InPbufs /\ InPbufs' = InPbufs \ {cur}
    BY <1>1, <2>1, NotFrames, FreshFrames, RxPlaces DEF InPbufs
  <2>3. /\ IsFiniteSet(InPbufs \ {cur}) /\ cur.pbufs \in Nat
        /\ Pbufs(InPbufs \ {cur}) \in Nat
        /\ Pbufs(InPbufs) = Pbufs(InPbufs \ {cur}) + cur.pbufs
    BY <1>3, <2>2, PbufsRemove
  <2>4. /\ IsFiniteSet(InPbufs')
        /\ Pbufs(InPbufs') = Pbufs(InPbufs \ {cur})
    BY <2>2, <2>3, Zenon
  <2>5. PbufsConserved'
    BY <1>4, <2>1, <2>3, <2>4, PoolSum
  <2> QED
    BY <1>5, <2>4, <2>5
<1> QED
  BY <1>6, <1>7

\* The stack frees the frame it is given, or keeps it.
LEMMA InputPbufs ==
  ASSUME RingInv, RingInv', RxOrder, KeptOnce, PbufsConserved, TcpipInput
  PROVE  KeptOnce' /\ PbufsConserved'
<1>1. /\ UNCHANGED <<cur, mbox, reclaim, got>> /\ tmsg' = NoFrame /\ last' = tmsg.id
      /\ tpc = "run" /\ tpc' = "msgfree"
  BY DEF TcpipInput, taskVars
<1>2. tmsg \in Frame /\ tmsg \in InPbufs
  BY RxPlaces, NotFrames DEF RingInv, Control, TcpipInput, InPbufs
<1>3. InPbufs' = InPbufs \ {tmsg}
  BY <1>1, <1>2, NotFrames, FreshFrames, RxPlaces DEF InPbufs
<1>4. /\ InPbufs \in SUBSET Frame /\ Kept \in SUBSET Frame
      /\ IsFiniteSet(InPbufs) /\ IsFiniteSet(Kept)
  BY InPbufsParts DEF KeptOnce
<1>5. /\ IsFiniteSet(InPbufs \ {tmsg}) /\ tmsg.pbufs \in Nat
      /\ Pbufs(InPbufs \ {tmsg}) \in Nat
      /\ Pbufs(InPbufs) = Pbufs(InPbufs \ {tmsg}) + tmsg.pbufs
  BY <1>2, <1>4, PbufsRemove
<1>6. /\ IsFiniteSet(InPbufs')
      /\ Pbufs(InPbufs') = Pbufs(InPbufs \ {tmsg})
  BY <1>3, <1>5, Zenon
<1>7. tmsg \notin Kept /\ \A f \in Kept : f.id <= tmsg.id
  BY <1>2, <1>4, FreshFrames, RxPlaces DEF KeptOnce
<1>8. tmsg.id <= tmsg.id
  BY <1>2, RxPlaces
<1>9. CASE poolFree' = poolFree + tmsg.pbufs /\ UNCHANGED <<app, ooseq>>
  <2>1. Kept' = Kept
    BY <1>1, <1>9 DEF Kept
  <2>2. Pbufs(Kept') = Pbufs(Kept) /\ IsFiniteSet(Kept')
    BY <1>4, <2>1, Zenon
  <2>3. KeptOnce'
    BY <1>1, <1>6, <1>7, <1>9, <2>1, <2>2 DEF KeptOnce
  <2>4. PbufsConserved'
    BY <1>1, <1>5, <1>6, <1>9, <2>2, PoolSum
  <2> QED
    BY <2>3, <2>4
<1>10. ASSUME Kept' = Kept \cup {tmsg}, poolFree' = poolFree
       PROVE  IsFiniteSet(Kept') /\ PbufsConserved'
  <2>1. /\ IsFiniteSet(Kept \cup {tmsg})
        /\ Pbufs(Kept \cup {tmsg}) = Pbufs(Kept) + tmsg.pbufs
    BY <1>2, <1>4, <1>7, PbufsAdd
  <2>2. Pbufs(Kept') = Pbufs(Kept \cup {tmsg}) /\ IsFiniteSet(Kept')
    BY <1>10, <2>1, Zenon
  <2> QED
    BY <1>1, <1>5, <1>6, <1>10, <2>1, <2>2, PoolSum
<1>11. CASE app' = app \cup {tmsg} /\ UNCHANGED <<poolFree, ooseq>>
  <2>1. Kept' = Kept \cup {tmsg}
    BY <1>1, <1>11 DEF Kept
  <2>2. \A f \in Kept' : f.id <= last'
    BY <1>1, <1>7, <1>8, <2>1
  <2>3. /\ app' \cap ooseq' = {} /\ app' \cap reclaim' = {} /\ ooseq' \cap reclaim' = {}
        /\ tpc' # "reclaim" => reclaim' = {}
    BY <1>1, <1>7, <1>11 DEF KeptOnce, Kept
  <2> QED
    BY <1>6, <1>10, <1>11, <2>1, <2>2, <2>3 DEF KeptOnce
<1>12. CASE ooseq' = ooseq \cup {tmsg} /\ UNCHANGED <<poolFree, app>>
  <2>1. Kept' = Kept \cup {tmsg}
    BY <1>1, <1>12 DEF Kept
  <2>2. \A f \in Kept' : f.id <= last'
    BY <1>1, <1>7, <1>8, <2>1
  <2>3. /\ app' \cap ooseq' = {} /\ app' \cap reclaim' = {} /\ ooseq' \cap reclaim' = {}
        /\ tpc' # "reclaim" => reclaim' = {}
    BY <1>1, <1>7, <1>12 DEF KeptOnce, Kept
  <2> QED
    BY <1>6, <1>10, <1>12, <2>1, <2>2, <2>3 DEF KeptOnce
<1> QED
  BY <1>9, <1>11, <1>12 DEF TcpipInput

\* A kept frame is freed once: its user and pbuf_free_ooseq never both do.
LEMMA ReleasePbufs ==
  ASSUME RingInv, RingInv', RxOrder, KeptOnce, PbufsConserved,
         TcpipFreeOoseq \/ TcpipReclaim \/ StackRelease
  PROVE  KeptOnce' /\ PbufsConserved'
<1>1. /\ Kept \in SUBSET Frame
      /\ IsFiniteSet(InPbufs) /\ IsFiniteSet(Kept)
  BY InPbufsParts DEF KeptOnce
<1>2. InPbufs' = InPbufs
  <2>1. CASE TcpipFreeOoseq
    BY <2>1, InPbufsMoves
  <2>2. CASE TcpipReclaim \/ StackRelease
    BY <2>2, InPbufsMoves DEF TcpipReclaim, StackRelease, taskVars
  <2> QED
    BY <2>1, <2>2
<1>3. IsFiniteSet(InPbufs') /\ Pbufs(InPbufs') = Pbufs(InPbufs)
  BY <1>1, <1>2, Zenon
<1>4. UNCHANGED <<got, last>>
  BY DEF TcpipFreeOoseq, TcpipReclaim, StackRelease, taskVars
<1>5. ASSUME Kept' = Kept, poolFree' = poolFree
      PROVE  IsFiniteSet(Kept') /\ PbufsConserved'
  <2>1. IsFiniteSet(Kept')
    BY <1>1, <1>5, Zenon
  <2> QED
    BY <1>2, <1>4, <1>5, <2>1, PbufsQuiet
<1>6. ASSUME NEW f \in Kept, Kept' = Kept \ {f}, poolFree' = poolFree + f.pbufs
      PROVE  IsFiniteSet(Kept') /\ PbufsConserved'
  <2>1. /\ IsFiniteSet(Kept \ {f}) /\ f.pbufs \in Nat
        /\ Pbufs(Kept \ {f}) \in Nat
        /\ Pbufs(Kept) = Pbufs(Kept \ {f}) + f.pbufs
    BY <1>1, PbufsRemove
  <2>2. IsFiniteSet(Kept') /\ Pbufs(Kept') = Pbufs(Kept \ {f})
    BY <1>6, <2>1, Zenon
  <2> QED
    BY <1>3, <1>4, <1>6, <2>1, <2>2, PoolSum
<1>7. CASE TcpipFreeOoseq
  <2>1. PICK F \in SUBSET ooseq : ooseq' = ooseq \ F /\ reclaim' = F
    BY <1>7 DEF TcpipFreeOoseq
  <2>2. reclaim = {} /\ app' = app /\ poolFree' = poolFree /\ tpc' = "reclaim"
    BY <1>7 DEF TcpipFreeOoseq, KeptOnce
  <2>3. Kept' = Kept
    BY <2>1, <2>2 DEF Kept
  <2>4. /\ app' \cap ooseq' = {} /\ app' \cap reclaim' = {} /\ ooseq' \cap reclaim' = {}
        /\ \A f \in Kept' : f.id <= last'
    BY <1>4, <2>1, <2>2, <2>3 DEF KeptOnce
  <2> QED
    BY <1>3, <1>5, <2>2, <2>3, <2>4 DEF KeptOnce
<1>8. CASE TcpipReclaim
  <2>1. UNCHANGED <<app, ooseq>>
    BY <1>8 DEF TcpipReclaim
  <2>2. CASE reclaim = {} /\ UNCHANGED <<reclaim, poolFree>>
    <3>1. Kept' = Kept
      BY <2>1, <2>2 DEF Kept
    <3> QED
      BY <1>3, <1>4, <1>5, <2>1, <2>2, <3>1 DEF KeptOnce
  <2>3. ASSUME NEW f \in reclaim, reclaim' = reclaim \ {f},
               poolFree' = poolFree + f.pbufs, tpc' = tpc
        PROVE  KeptOnce' /\ PbufsConserved'
    <3>1. f \in Kept /\ Kept' = Kept \ {f}
      BY <2>1, <2>3 DEF Kept, KeptOnce
    <3>2. IsFiniteSet(Kept') /\ PbufsConserved'
      BY <1>6, <2>3, <3>1
    <3>3. /\ app' \cap ooseq' = {} /\ app' \cap reclaim' = {}
          /\ ooseq' \cap reclaim' = {} /\ (tpc' # "reclaim" => reclaim' = {})
          /\ \A g \in Kept' : g.id <= last'
      BY <1>4, <2>1, <2>3, <3>1 DEF KeptOnce
    <3> QED
      BY <1>3, <3>2, <3>3 DEF KeptOnce
  <2> QED
    BY <1>8, <2>2, <2>3 DEF TcpipReclaim
<1>9. CASE StackRelease
  <2>1. PICK f \in app \cup ooseq : /\ app' = app \ {f} /\ ooseq' = ooseq \ {f}
                                    /\ poolFree' = poolFree + f.pbufs
    BY <1>9 DEF StackRelease
  <2>2. UNCHANGED <<reclaim, tpc>>
    BY <1>9 DEF StackRelease
  <2>3. f \in Kept /\ Kept' = Kept \ {f}
    BY <2>1, <2>2 DEF Kept, KeptOnce
  <2>4. IsFiniteSet(Kept') /\ PbufsConserved'
    BY <1>6, <2>1, <2>3
  <2>5. /\ app' \cap ooseq' = {} /\ app' \cap reclaim' = {}
        /\ ooseq' \cap reclaim' = {} /\ (tpc' # "reclaim" => reclaim' = {})
        /\ \A g \in Kept' : g.id <= last'
    BY <1>4, <2>1, <2>2, <2>3 DEF KeptOnce
  <2> QED
    BY <1>3, <2>4, <2>5 DEF KeptOnce
<1> QED
  BY <1>7, <1>8, <1>9

LEMMA PbufsStep ==
  ASSUME RingInv, RingInv', RxOrder, KeptOnce, GotWhole, PbufsConserved,
         [RxNext]_vars
  PROVE  KeptOnce' /\ PbufsConserved'
<1>1. CASE DmaStart \/ DmaFinish \/ DmaSuspend \/ DmaAutoResume \/ DmaTxDone \/ Isr
           \/ UNCHANGED vars
  <2>1. UNCHANGED <<cur, mbox, tmsg, app, ooseq, reclaim, last, tpc, poolFree, got>>
    BY <1>1 DEF DmaStart, DmaFinish, DmaSuspend, DmaAutoResume, DmaTxDone, Isr,
                IsrRbuResume, vars, rxVars, memVars, taskVars, tcpVars
  <2> QED
    BY <2>1, InPbufsMoves, HoldersQuiet
<1>2. CASE RxTake \/ RxTimeout \/ RecPeekNone \/ RecPeekGood \/ RecPeekBad
           \/ PbufAllocFail \/ PoolIsEmpty \/ RecFree \/ RecFreePoll
           \/ InputMsgAlloc \/ InputPostFull
  <2>1. UNCHANGED <<cur, mbox, tmsg, app, ooseq, reclaim, last, tpc, poolFree, got>>
    BY <1>2 DEF RxTake, RxTimeout, RecPeekNone, RecPeekGood, RecPeekBad,
                PbufAllocFail, PoolIsEmpty, RecFree, RecFreePoll, InputMsgAlloc,
                InputPostFull, memVars, taskVars, tcpVars
  <2> QED
    BY <2>1, InPbufsMoves, HoldersQuiet
<1>3. CASE PbufAllocOne \/ PbufAllocUnwind
  <2>1. UNCHANGED <<cur, mbox, tmsg, app, ooseq, reclaim, last, tpc>>
    BY <1>3 DEF PbufAllocOne, PbufAllocUnwind, tcpVars
  <2>2. poolFree' + got' = poolFree + got
    <3>1. poolFree \in Nat /\ got \in Nat
      BY DEF RingInv, TypeOK
    <3>2. \/ poolFree' = poolFree - 1 /\ got' = got + 1
          \/ poolFree' = poolFree + got /\ got' = 0
      BY <1>3 DEF PbufAllocOne, PbufAllocUnwind
    <3> QED
      BY <3>1, <3>2
  <2> QED
    BY <2>1, <2>2, InPbufsMoves, HoldersQuiet
<1>4. CASE QueueOoseqCall \/ InputPost
  BY <1>4, InPbufsMoves, HoldersQuiet DEF QueueOoseqCall, InputPost, tcpVars
<1>5. CASE TcpipFetch
  BY <1>5, InPbufsMoves, HoldersQuiet DEF TcpipFetch, taskVars
<1>6. CASE TcpipMsgFree
  BY <1>6, InPbufsMoves, HoldersQuiet DEF TcpipMsgFree, taskVars
<1> QED
  BY <1>1, <1>2, <1>3, <1>4, <1>5, <1>6, TaskPbufs, InputPbufs, ReleasePbufs
  DEF RxNext, NetifTask, Tcpip

\* The messages of the mailbox are frames and calls.
LEMMA BoxPlaces ==
  ASSUME RingInv
  PROVE  /\ mbox \in Seq(Frame \cup {Ooseq})
         /\ {i \in DOMAIN mbox : mbox[i] # Ooseq} = Places(Frame, mbox)
         /\ Len(mbox) = Cardinality(Places(Frame, mbox))
                          + Cardinality(Places({Ooseq}, mbox))
<1>1. mbox \in Seq(Frame \cup {Ooseq})
  BY DEF RingInv, TypeOK
<1>2. {i \in DOMAIN mbox : mbox[i] # Ooseq} = Places(Frame, mbox)
  BY <1>1, NotFrames DEF Places
<1> DEFINE A == Places(Frame, mbox)
           B == Places({Ooseq}, mbox)
<1>3. A \cup B = 1 .. Len(mbox) /\ A \cap B = {} /\ Len(mbox) \in Nat
  BY <1>1, NotFrames DEF Places
<1>4. /\ IsFiniteSet(A) /\ Cardinality(A) \in Nat
      /\ IsFiniteSet(B) /\ Cardinality(B) \in Nat
  BY <1>1, PlacesFinite
<1>5. Cardinality(1 .. Len(mbox)) = Len(mbox)
  <2>1. Len(mbox) \in Nat
    BY <1>1
  <2> QED
    BY <2>1, FS_Interval
<1>6. Cardinality(A \cup B) = Cardinality(1 .. Len(mbox))
      /\ Cardinality(A \cap B) = Cardinality({})
  BY <1>3, Zenon
<1> HIDE DEF A, B
<1>7. Cardinality(A \cup B) = Cardinality(A) + Cardinality(B) - Cardinality(A \cap B)
  BY <1>4, FS_Union
<1>8. Cardinality({}) = 0
  BY FS_EmptySet
<1>9. Len(mbox) = Cardinality(A) + Cardinality(B)
  BY <1>4, <1>5, <1>6, <1>7, <1>8
<1> QED
  BY <1>1, <1>2, <1>9 DEF A, B

\* The messages in use: in the mailbox, at hand before the post, in tcpip_thread.
LEMMA MsgSum ==
  ASSUME RingInv, RingInv'
  PROVE  /\ MsgsConserved <=>
              msgFree + Cardinality(Places(Frame, mbox))
                + (IF npc = "post" THEN 1 ELSE 0)
                + (IF tpc = "msgfree" \/ (tpc = "run" /\ tmsg # Ooseq) THEN 1 ELSE 0)
              = MsgPoolSize
         /\ MsgsConserved' <=>
              msgFree' + Cardinality(Places(Frame, mbox'))
                + (IF npc' = "post" THEN 1 ELSE 0)
                + (IF tpc' = "msgfree" \/ (tpc' = "run" /\ tmsg' # Ooseq) THEN 1 ELSE 0)
              = MsgPoolSize
         /\ msgFree \in Nat /\ Cardinality(Places(Frame, mbox)) \in Nat
<1> DEFINE old == {i \in DOMAIN mbox : mbox[i] # Ooseq}
           new == {i \in DOMAIN mbox' : mbox'[i] # Ooseq}
<1>1. mbox \in Seq(Frame \cup {Ooseq}) /\ mbox' \in Seq(Frame \cup {Ooseq})
  BY DEF RingInv, TypeOK
<1>2. old = Places(Frame, mbox) /\ new = Places(Frame, mbox')
  BY <1>1, NotFrames DEF Places
<1>3. /\ Cardinality(old) = Cardinality(Places(Frame, mbox))
      /\ Cardinality(new) = Cardinality(Places(Frame, mbox'))
  BY <1>2, Zenon
<1>4. msgFree \in Nat /\ Cardinality(Places(Frame, mbox)) \in Nat
  BY <1>1, PlacesFinite DEF RingInv, TypeOK
<1> QED
  BY <1>3, <1>4 DEF MsgsConserved

\* Every message goes from the pool to the mailbox, to tcpip_thread and back.
LEMMA MsgsStep ==
  ASSUME RingInv, RingInv', RxOrder, MsgsConserved, [RxNext]_vars
  PROVE  MsgsConserved'
<1>1. mbox \in Seq(Frame \cup {Ooseq})
  BY DEF RingInv, TypeOK
<1>2. ASSUME mbox' = mbox
      PROVE  Cardinality(Places(Frame, mbox')) = Cardinality(Places(Frame, mbox))
  BY <1>2
<1>3. CASE DmaStart \/ DmaFinish \/ DmaSuspend \/ DmaAutoResume \/ DmaTxDone \/ Isr
           \/ StackRelease \/ TcpipReclaim \/ RecPeekBad \/ UNCHANGED vars
  <2>1. /\ UNCHANGED <<mbox, msgFree, npc, tmsg>>
        /\ tpc' = tpc \/ (tpc = "reclaim" /\ tpc' = "fetch")
    BY <1>3 DEF DmaStart, DmaFinish, DmaSuspend, DmaAutoResume, DmaTxDone, Isr,
                IsrRbuResume, StackRelease, TcpipReclaim, RecPeekBad, vars, rxVars,
                memVars, taskVars, tcpVars
  <2> QED
    BY <2>1, <1>2, MsgSum
<1>4. CASE RxTake \/ RxTimeout \/ RecPeekNone \/ RecPeekGood
           \/ PbufAllocOne \/ PbufAllocFail \/ PoolIsEmpty \/ PbufAllocUnwind
           \/ PbufTake \/ RecFree \/ RecFreePoll \/ InputError
  <2>1. UNCHANGED <<mbox, msgFree, tpc, tmsg>> /\ npc # "post" /\ npc' # "post"
    BY <1>4 DEF RxTake, RxTimeout, RecPeekNone, RecPeekGood, PbufAllocOne,
                PbufAllocFail, PoolIsEmpty, PbufAllocUnwind, PbufTake, RecFree,
                RecFreePoll, InputError, memVars, tcpVars
  <2> QED
    BY <2>1, <1>2, MsgSum
<1>5. CASE QueueOoseqCall
  <2>1. UNCHANGED <<msgFree, tpc, tmsg>> /\ npc # "post" /\ npc' # "post"
        /\ mbox' \in {mbox, Append(mbox, Ooseq)}
    BY <1>5 DEF QueueOoseqCall, tcpVars
  <2>2. Cardinality(Places(Frame, Append(mbox, Ooseq)))
          = Cardinality(Places(Frame, mbox)) + 0
    BY <1>1, PlacesAppend, NotFrames
  <2>3. Cardinality(Places(Frame, mbox)) \in Nat
    BY MsgSum
  <2>4. CASE mbox' = Append(mbox, Ooseq)
    <3>1. Cardinality(Places(Frame, mbox')) = Cardinality(Places(Frame, mbox)) + 0
      BY <2>2, <2>4
    <3> QED
      BY <2>1, <2>3, <3>1, MsgSum
  <2>5. CASE mbox' = mbox
    BY <2>1, <2>5, <1>2, MsgSum
  <2> QED
    BY <2>1, <2>4, <2>5
<1>6. CASE InputMsgAlloc \/ InputPostFull
  <2>1. UNCHANGED <<mbox, tpc, tmsg>>
        /\ \/ npc # "post" /\ npc' = "post" /\ msgFree' = msgFree - 1
           \/ npc # "post" /\ npc' # "post" /\ msgFree' = msgFree
           \/ npc = "post" /\ npc' # "post" /\ msgFree' = msgFree + 1
    BY <1>6 DEF InputMsgAlloc, InputPostFull, tcpVars
  <2> QED
    BY <2>1, <1>2, MsgSum
<1>7. CASE InputPost
  <2>1. UNCHANGED <<msgFree, tpc, tmsg>> /\ npc = "post" /\ npc' # "post"
        /\ mbox' = Append(mbox, cur) /\ cur \in Frame
    BY <1>7 DEF InputPost, RingInv, Control, tcpVars
  <2>2. Cardinality(Places(Frame, mbox')) = Cardinality(Places(Frame, mbox)) + 1
    BY <1>1, <2>1, PlacesAppend
  <2> QED
    BY <2>1, <2>2, MsgSum
<1>8. CASE TcpipFetch
  <2>1. UNCHANGED <<msgFree, npc>> /\ tpc = "fetch" /\ tpc' = "run"
        /\ mbox' = Tail(mbox) /\ tmsg' = Head(mbox) /\ mbox # << >>
    BY <1>8 DEF TcpipFetch, taskVars
  <2>2. Cardinality(Places(Frame, mbox)) = Cardinality(Places(Frame, mbox'))
          + IF Head(mbox) \in Frame THEN 1 ELSE 0
    BY <1>1, <2>1, PlacesTail
  <2>3. tmsg' # Ooseq <=> Head(mbox) \in Frame
    <3>1. Head(mbox) \in Frame \cup {Ooseq}
      BY <1>1, <2>1
    <3> QED
      BY <2>1, <3>1, NotFrames
  <2>4. Cardinality(Places(Frame, mbox')) \in Nat
    BY PlacesFinite DEF RingInv, TypeOK
  <2> QED
    BY <2>1, <2>2, <2>3, <2>4, MsgSum
<1>9. CASE TcpipInput \/ TcpipFreeOoseq
  <2>1. /\ UNCHANGED <<msgFree, npc, mbox>>
        /\ \/ tpc = "run" /\ tmsg # Ooseq /\ tpc' = "msgfree"
           \/ tpc = "run" /\ tmsg = Ooseq /\ tpc' = "reclaim"
    BY <1>9 DEF TcpipInput, TcpipFreeOoseq, taskVars
  <2> QED
    BY <2>1, <1>2, MsgSum
<1>10. CASE TcpipMsgFree
  <2>1. UNCHANGED <<npc, mbox>> /\ tpc = "msgfree" /\ tpc' = "fetch"
        /\ msgFree' = msgFree + 1
    BY <1>10 DEF TcpipMsgFree, taskVars
  <2> QED
    BY <2>1, <1>2, MsgSum
<1> QED
  BY <1>3, <1>4, <1>5, <1>6, <1>7, <1>8, <1>9, <1>10 DEF RxNext, NetifTask, Tcpip

LEMMA InitPools == Init => PoolInv
<1> SUFFICES ASSUME Init PROVE PoolInv
  OBVIOUS
<1>1. InPbufs = {} /\ Kept = {} /\ {i \in DOMAIN mbox : mbox[i] # Ooseq} = {}
  BY DEF Init, InPbufs, Kept
<1>2. IsFiniteSet({}) /\ Cardinality({}) = 0
  BY FS_EmptySet
<1>3. IsFiniteSet(InPbufs) /\ IsFiniteSet(Kept)
      /\ Cardinality({i \in DOMAIN mbox : mbox[i] # Ooseq}) = 0
  BY <1>1, <1>2, Zenon
<1>4. Pbufs(InPbufs) = 0 /\ Pbufs(Kept) = 0
  <2>1. Pbufs({}) = 0
    BY HeldNone DEF Pbufs
  <2> QED
    BY <1>1, <2>1, Zenon
<1>5. PbufsConserved
  BY <1>4, RxAssumption DEF PbufsConserved, Init, Kept
<1>6. MsgsConserved
  BY <1>3, RxAssumption DEF MsgsConserved, Init
<1>7. KeptOnce /\ GotWhole
  BY <1>1, <1>3 DEF Init, KeptOnce, GotWhole
<1> QED
  BY <1>5, <1>6, <1>7 DEF PoolInv, PoolsConserved

\* RxOrder is an invariant of reception too.
LEMMA RxOrderInv == RxSpec => []RxOrder
BY InitRxOrder, RxStepImplements, RxRingInv, PTL DEF RxSpec

LEMMA RxPoolInv == RxSpec => []PoolInv
<1>1. RingInv /\ RingInv' /\ RxOrder /\ PoolInv /\ [RxNext]_vars => PoolInv'
  BY PbufsStep, GotStep, MsgsStep DEF PoolInv, PoolsConserved
<1> QED
  BY <1>1, InitPools, RxRingInv, RxOrderInv, PTL DEF RxSpec

\* For pools of any size, on every path of pbuf_alloc, tcpip_inpkt, the error
\* branch of ethernetif_input, the stack and pbuf_free_ooseq, no pbuf and no
\* message is lost or freed twice.
THEOREM RxPoolsConserved == RxSpec => []PoolsConserved
<1>1. PoolInv => PoolsConserved
  BY DEF PoolInv
<1> QED
  BY <1>1, RxPoolInv, PTL

-----------------------------------------------------------------------------
(* netif->input is never refused where the pbuf pool is the smallest. *)

\* Every frame has a pbuf, and one call of pbuf_free_ooseq at most is under
\* way: about to be queued, in the mailbox or at hand.
FrameSizes ==
  /\ \A i \in CpuOwned : slot[i].pbufs # 0
  /\ \A f \in InPbufs : f.pbufs # 0

CallOnce ==
  Cardinality(Places({Ooseq}, mbox)) + (IF npc = "callback" THEN 1 ELSE 0)
    + (IF tmsg = Ooseq THEN 1 ELSE 0)
  = IF oosPending THEN 1 ELSE 0

AdmitInv == FrameSizes /\ CallOnce /\ InputNeverRefused

LEMMA SizesStep ==
  ASSUME RingInv, RingInv', RxOrder, FrameSizes, [RxNext]_vars
  PROVE  FrameSizes'
<1> USE DEF FrameSizes
<1>1. CASE DmaFinish
  <2> PICK k \in {"ok"} \cup BadKinds, n \in Sizes :
        slot' = [slot EXCEPT ![dmaPtr] = [id |-> filled, kind |-> k, pbufs |-> n]]
    BY <1>1 DEF DmaFinish
  <2>1. CpuOwned' = CpuOwned \cup {dmaPtr}
    BY <1>1 DEF RingInv, TypeOK, DmaFinish, CpuOwned
  <2>2. InPbufs' = InPbufs
    BY <1>1, InPbufsMoves DEF DmaFinish, memVars, taskVars, tcpVars
  <2>3. \A i \in CpuOwned' : slot'[i].pbufs # 0
    BY <2>1, RxAssumption, RxPlaces DEF RingInv, TypeOK
  <2> QED
    BY <2>2, <2>3
<1>2. CASE UNCHANGED ringVars /\ InPbufs' \subseteq InPbufs
  <2>1. CpuOwned' = CpuOwned
    BY <1>2 DEF CpuOwned, ringVars
  <2> QED
    BY <1>2, <2>1 DEF ringVars
<1>3. CASE PbufTake
  <2>1. /\ UNCHANGED <<own, slot, pDMARxSet, mbox, tmsg>>
        /\ cur' = slot[pDMARxSet] /\ pDMARxSet \in CpuOwned
    BY <1>3, RxPlaces
    DEF PbufTake, ringVars, memVars, tcpVars, RingInv, Control, Holding, CpuOwned
  <2>2. InPbufs' \subseteq InPbufs \cup {slot[pDMARxSet]} /\ CpuOwned' = CpuOwned
    BY <2>1 DEF InPbufs, CpuOwned
  <2> QED
    BY <2>1, <2>2
<1>4. CASE RecPeekBad \/ RecFree
  <2>1. InPbufs' = InPbufs /\ GiveBack
    BY <1>4, InPbufsMoves DEF RecPeekBad, RecFree, memVars, taskVars, tcpVars
  <2>2. \A i \in CpuOwned' : i \in CpuOwned /\ slot'[i] = slot[i]
    BY <2>1 DEF GiveBack, CpuOwned, RingInv, TypeOK
  <2> QED
    BY <2>1, <2>2
<1>5. CASE InputError \/ TcpipInput
  <2>1. UNCHANGED <<ringVars, mbox>> /\ cur' \in {cur, NoFrame} /\ tmsg' \in {tmsg, NoFrame}
    BY <1>5 DEF InputError, TcpipInput, tcpVars, taskVars
  <2>2. InPbufs' \subseteq InPbufs
    BY <2>1 DEF InPbufs
  <2> QED
    BY <1>2, <2>1, <2>2
<1>6. CASE InputPost \/ QueueOoseqCall \/ TcpipFetch \/ TcpipFreeOoseq
  BY <1>2, <1>6, InPbufsMoves DEF InputPost, QueueOoseqCall, TcpipFetch, TcpipFreeOoseq
<1>7. CASE DmaStart \/ DmaSuspend \/ DmaAutoResume \/ DmaTxDone \/ Isr
           \/ StackRelease \/ TcpipReclaim \/ TcpipMsgFree \/ UNCHANGED vars
  BY <1>2, <1>7, InPbufsMoves
  DEF DmaStart, DmaSuspend, DmaAutoResume, DmaTxDone, Isr, IsrRbuResume,
      StackRelease, TcpipReclaim, TcpipMsgFree, vars, rxVars, memVars, taskVars,
      tcpVars
<1>8. CASE RxTake \/ RxTimeout \/ RecPeekNone \/ RecPeekGood \/ PbufAllocOne
           \/ PbufAllocFail \/ PoolIsEmpty \/ PbufAllocUnwind \/ RecFreePoll
           \/ InputMsgAlloc \/ InputPostFull
  BY <1>2, <1>8, InPbufsMoves
  DEF RxTake, RxTimeout, RecPeekNone, RecPeekGood, PbufAllocOne, PbufAllocFail,
      PoolIsEmpty, PbufAllocUnwind, RecFreePoll, InputMsgAlloc, InputPostFull,
      memVars, tcpVars
<1> QED
  BY <1>1, <1>3, <1>4, <1>5, <1>6, <1>7, <1>8 DEF RxNext, NetifTask, Tcpip

LEMMA CallStep ==
  ASSUME RingInv, RingInv', RxOrder, CallOnce, [RxNext]_vars
  PROVE  CallOnce'
<1> DEFINE calls(s) == Cardinality(Places({Ooseq}, s))
<1>1. mbox \in Seq(Frame \cup {Ooseq}) /\ oosPending \in BOOLEAN
  BY DEF RingInv, TypeOK
<1>2. calls(mbox) \in Nat
  BY <1>1, PlacesFinite
<1>3. /\ CallOnce <=> calls(mbox) + (IF npc = "callback" THEN 1 ELSE 0)
                        + (IF tmsg = Ooseq THEN 1 ELSE 0)
                      = IF oosPending THEN 1 ELSE 0
      /\ CallOnce' <=> calls(mbox') + (IF npc' = "callback" THEN 1 ELSE 0)
                         + (IF tmsg' = Ooseq THEN 1 ELSE 0)
                       = IF oosPending' THEN 1 ELSE 0
  BY DEF CallOnce
<1>4. mbox' = mbox => calls(mbox') = calls(mbox)
  OBVIOUS
<1> HIDE DEF calls
<1>5. CASE DmaStart \/ DmaFinish \/ DmaSuspend \/ DmaAutoResume \/ DmaTxDone \/ Isr
           \/ StackRelease \/ TcpipReclaim \/ TcpipMsgFree \/ UNCHANGED vars
  <2>1. UNCHANGED <<mbox, npc, tmsg, oosPending>>
    BY <1>5 DEF DmaStart, DmaFinish, DmaSuspend, DmaAutoResume, DmaTxDone, Isr,
                IsrRbuResume, StackRelease, TcpipReclaim, TcpipMsgFree, vars, rxVars,
                memVars, taskVars, tcpVars
  <2> QED
    BY <2>1, <1>3, <1>4
<1>6. CASE RxTake \/ RxTimeout \/ RecPeekNone \/ RecPeekGood \/ RecPeekBad
           \/ PbufAllocOne \/ PbufAllocFail \/ PbufAllocUnwind \/ PbufTake
           \/ RecFree \/ RecFreePoll \/ InputMsgAlloc \/ InputPostFull \/ InputError
  <2>1. UNCHANGED <<mbox, tmsg, oosPending>> /\ npc # "callback" /\ npc' # "callback"
    BY <1>6 DEF RxTake, RxTimeout, RecPeekNone, RecPeekGood, RecPeekBad,
                PbufAllocOne, PbufAllocFail, PbufAllocUnwind, PbufTake, RecFree,
                RecFreePoll, InputMsgAlloc, InputPostFull, InputError, memVars,
                taskVars, tcpVars
  <2> QED
    BY <2>1, <1>3, <1>4
<1>7. CASE PoolIsEmpty
  <2>1. UNCHANGED <<mbox, tmsg>> /\ npc = "empty" /\ oosPending' = TRUE
        /\ npc' = IF oosPending THEN "unwind" ELSE "callback"
    BY <1>7 DEF PoolIsEmpty, tcpVars
  <2> QED
    BY <2>1, <1>1, <1>2, <1>3, <1>4
<1>8. CASE QueueOoseqCall
  <2>1. tmsg' = tmsg /\ npc = "callback" /\ npc' = "unwind"
        /\ \/ mbox' = Append(mbox, Ooseq) /\ oosPending' = oosPending
           \/ mbox' = mbox /\ oosPending' = FALSE
    BY <1>8 DEF QueueOoseqCall, tcpVars
  <2>2. mbox' = Append(mbox, Ooseq) => calls(mbox') = calls(mbox) + 1
    BY <1>1, PlacesAppend DEF calls
  <2> QED
    BY <2>1, <2>2, <1>1, <1>2, <1>3, <1>4
<1>9. CASE InputPost
  <2>1. UNCHANGED <<tmsg, oosPending>> /\ npc = "post" /\ npc' = "peek"
        /\ mbox' = Append(mbox, cur) /\ cur \in Frame
    BY <1>9 DEF InputPost, RingInv, Control, tcpVars
  <2>2. calls(mbox') = calls(mbox) + 0
    BY <1>1, <2>1, PlacesAppend, NotFrames DEF calls
  <2> QED
    BY <2>1, <2>2, <1>2, <1>3
<1>10. CASE TcpipFetch
  <2>1. UNCHANGED <<npc, oosPending>> /\ tmsg = NoFrame /\ mbox' = Tail(mbox)
        /\ tmsg' = Head(mbox) /\ mbox # << >>
    BY <1>10 DEF TcpipFetch, taskVars, RxOrder, MsgOrder
  <2>2. calls(mbox) = calls(mbox') + IF Head(mbox) \in {Ooseq} THEN 1 ELSE 0
    BY <1>1, <2>1, PlacesTail DEF calls
  <2>3. calls(mbox') \in Nat
    BY PlacesFinite DEF RingInv, TypeOK, calls
  <2> QED
    BY <2>1, <2>2, <2>3, <1>2, <1>3, NotFrames
<1>11. CASE TcpipInput
  <2>1. UNCHANGED <<npc, oosPending, mbox>> /\ tmsg # Ooseq /\ tmsg' = NoFrame
    BY <1>11 DEF TcpipInput, taskVars
  <2> QED
    BY <2>1, <1>3, <1>4, NotFrames
<1>12. CASE TcpipFreeOoseq
  <2>1. UNCHANGED <<npc, mbox>> /\ tmsg = Ooseq /\ tmsg' = NoFrame
        /\ oosPending' = FALSE
    BY <1>12 DEF TcpipFreeOoseq, taskVars
  <2> QED
    BY <2>1, <1>1, <1>2, <1>3, <1>4, NotFrames
<1> QED
  BY <1>5, <1>6, <1>7, <1>8, <1>9, <1>10, <1>11, <1>12 DEF RxNext, NetifTask, Tcpip

\* The frame at hand, the one in tcpip_thread and those of the mailbox have a
\* pbuf each.
LEMMA FramesBound ==
  ASSUME RingInv, RxOrder, PoolInv, FrameSizes, cur \in Frame
  PROVE  Cardinality(Places(Frame, mbox)) + 1 + (IF tmsg \in Frame THEN 1 ELSE 0)
           <= PoolSize
<1> DEFINE R == (InPbufs \ {cur}) \ {tmsg}
           at == [k \in Places(Frame, mbox) |-> mbox[k]]
           w == [f \in InPbufs |-> f.pbufs]
<1>1. InPbufs \in SUBSET Frame /\ IsFiniteSet(InPbufs) /\ mbox \in Seq(Frame \cup {Ooseq})
  BY InPbufsParts DEF RingInv, TypeOK, PoolInv, KeptOnce
<1>2. at \in Injection(Places(Frame, mbox), R)
  <2>1. \A k \in Places(Frame, mbox) : mbox[k] \in R
    BY NotFrames, FreshFrames DEF Places, InPbufs
  <2>2. \A k, l \in Places(Frame, mbox) : k < l => mbox[k].id < mbox[l].id
    BY NotFrames DEF RxOrder, BoxOrder, BoxAfter, Places
  <2>3. \A k \in Places(Frame, mbox) : k \in Int /\ mbox[k].id \in Int
    BY <1>1, RxPlaces DEF Places
  <2>4. \A k, l \in Places(Frame, mbox) : mbox[k] = mbox[l] => k = l
    BY <2>2, <2>3
  <2> QED
    BY <2>1, <2>4 DEF Injection, IsInjective
<1>3. /\ IsFiniteSet(InPbufs \ {cur})
      /\ Cardinality(InPbufs \ {cur}) = Cardinality(InPbufs) - 1
  <2>1. cur \in InPbufs
    BY NotFrames DEF InPbufs
  <2> QED
    BY <1>1, <2>1, FS_RemoveElement
<1>4. /\ IsFiniteSet(R)
      /\ Cardinality(R) = Cardinality(InPbufs \ {cur})
                            - IF tmsg \in Frame THEN 1 ELSE 0
  <2>1. tmsg \in InPbufs \ {cur} <=> tmsg \in Frame
    BY <1>1, NotFrames, FreshFrames DEF InPbufs
  <2>2. /\ IsFiniteSet(R)
        /\ Cardinality(R) = IF tmsg \in InPbufs \ {cur}
                            THEN Cardinality(InPbufs \ {cur}) - 1
                            ELSE Cardinality(InPbufs \ {cur})
    BY <1>3, FS_RemoveElement
  <2>3. Cardinality(InPbufs \ {cur}) \in Int
    BY <1>3, FS_CardinalityType
  <2> QED
    BY <2>1, <2>2, <2>3
<1>5. Cardinality(Places(Frame, mbox)) <= Cardinality(R)
  <2> HIDE DEF R, at
  <2> QED
    BY <1>2, <1>4, FS_Injection
<1>6. Cardinality(InPbufs) \in Nat /\ Cardinality(InPbufs) <= Pbufs(InPbufs)
  <2>1. \A f \in InPbufs : w[f] \in Nat \ {0}
    BY <1>1 DEF FrameSizes, Frame
  <2> HIDE DEF w
  <2>2. Cardinality(InPbufs) \in Nat /\ Cardinality(InPbufs) <= Held(InPbufs, w)
    BY <1>1, <2>1, HoldersBound
  <2> QED
    BY <2>2 DEF w, Pbufs
<1>7. Pbufs(InPbufs) \in Nat /\ Pbufs(InPbufs) <= PoolSize
  BY PoolSum DEF PoolInv, PoolsConserved
<1>8. Cardinality(Places(Frame, mbox)) \in Nat
  BY <1>1, PlacesFinite
<1> HIDE DEF R
<1> QED
  BY <1>3, <1>4, <1>5, <1>6, <1>7, <1>8, RxAssumption

\* Neither the message pool nor the mailbox refuses the frame.
LEMMA AdmitStep ==
  ASSUME PoolSize < MsgPoolSize, PoolSize < MboxSize,
         RingInv, RingInv', RxOrder, PoolInv, AdmitInv, [RxNext]_vars
  PROVE  InputNeverRefused'
<1> SUFFICES ASSUME npc' = "inputErr" PROVE FALSE
  BY DEF InputNeverRefused
<1>1. npc # "inputErr"
  BY DEF AdmitInv, InputNeverRefused
<1>2. CASE InputMsgAlloc \/ InputPostFull
  <2>1. cur \in Frame
    BY <1>2 DEF InputMsgAlloc, InputPostFull, RingInv, Control
  <2>2. Cardinality(Places(Frame, mbox)) + 1 + (IF tmsg \in Frame THEN 1 ELSE 0)
          <= PoolSize
    BY <2>1, FramesBound DEF AdmitInv
  <2>3. Cardinality(Places(Frame, mbox)) \in Nat
    BY MsgSum
  <2>4. CASE InputMsgAlloc
    <3>1. msgFree = 0 /\ npc = "input"
      BY <2>4 DEF InputMsgAlloc, RingInv, TypeOK
    <3>2. tpc = "run" /\ tmsg # Ooseq => tmsg \in Frame
      BY RxPlaces DEF RingInv, Control
    <3>3. Cardinality(Places(Frame, mbox))
            + (IF tpc = "msgfree" \/ (tpc = "run" /\ tmsg # Ooseq) THEN 1 ELSE 0)
          = MsgPoolSize
      BY <2>3, <3>1, MsgSum DEF PoolInv, PoolsConserved
    <3> QED
      BY <2>2, <2>3, <3>2, <3>3, RxAssumption
  <2>5. CASE InputPostFull
    <3>1. Len(mbox) >= MboxSize
      BY <2>5 DEF InputPostFull
    <3>2. Len(mbox) = Cardinality(Places(Frame, mbox))
                        + Cardinality(Places({Ooseq}, mbox))
      BY BoxPlaces
    <3>3. Cardinality(Places({Ooseq}, mbox)) \in Nat
      BY PlacesFinite DEF RingInv, TypeOK
    <3>4. Cardinality(Places({Ooseq}, mbox)) <= 1
      BY <3>3 DEF AdmitInv, CallOnce
    <3> QED
      BY <2>2, <2>3, <3>1, <3>2, <3>3, <3>4, RxAssumption
  <2> QED
    BY <1>2, <2>4, <2>5
<1>3. CASE NetifTask /\ ~InputMsgAlloc /\ ~InputPostFull
  BY <1>1, <1>3 DEF NetifTask, RxTake, RxTimeout, RecPeekNone, RecPeekGood,
         RecPeekBad, PbufAllocOne, PbufAllocFail, PoolIsEmpty, QueueOoseqCall,
         PbufAllocUnwind, PbufTake, RecFree, RecFreePoll, InputPost, InputError,
         taskVars
<1>4. CASE ~NetifTask
  BY <1>1, <1>4 DEF RxNext, DmaStart, DmaFinish, DmaSuspend, DmaAutoResume,
         DmaTxDone, Isr, IsrRbuResume, Tcpip, TcpipFetch, TcpipInput, TcpipMsgFree,
         TcpipFreeOoseq, TcpipReclaim, StackRelease, vars, rxVars, taskVars
<1> QED
  BY <1>2, <1>3, <1>4

LEMMA InitAdmit == Init => AdmitInv
<1> SUFFICES ASSUME Init PROVE AdmitInv
  OBVIOUS
<1>1. InPbufs = {} /\ CpuOwned = {} /\ Places({Ooseq}, mbox) = {}
  BY DEF Init, InPbufs, CpuOwned, Places
<1>2. Cardinality(Places({Ooseq}, mbox)) = 0
  BY <1>1, FS_EmptySet
<1>3. tmsg # Ooseq
  BY NotFrames DEF Init
<1> QED
  BY <1>1, <1>2, <1>3 DEF Init, AdmitInv, FrameSizes, CallOnce, InputNeverRefused

\* Where fewer pbufs than INPKT messages and fewer than mailbox places are
\* configured (lwipopts.h: 10, 12 and 16), netif->input never refuses a frame:
\* a frame posted, at hand or in tcpip_thread has a pbuf, and one call of
\* pbuf_free_ooseq at most takes a place.
THEOREM RxInputNeverRefused ==
  ASSUME PoolSize < MsgPoolSize, PoolSize < MboxSize
  PROVE  RxSpec => []InputNeverRefused
<1>1. RingInv /\ RingInv' /\ RxOrder /\ PoolInv /\ AdmitInv /\ [RxNext]_vars
        => AdmitInv'
  BY SizesStep, CallStep, AdmitStep DEF AdmitInv
<1>2. AdmitInv => InputNeverRefused
  BY DEF AdmitInv
<1> QED
  BY <1>1, <1>2, InitAdmit, RxRingInv, RxOrderInv, RxPoolInv, PTL DEF RxSpec
=============================================================================
