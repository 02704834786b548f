---------------------------- MODULE EthTx_proofs ----------------------------
(***************************************************************************)
(* Safety of the transmit chain for every length of the chain, every set   *)
(* of sending tasks and every number of frames.                            *)
(***************************************************************************)
EXTENDS EthTx, Structures_proofs

\* Every event the DMA latches is a bit of DMASR.
LEMMA LatchedType ==
  ASSUME IsrTypeOK, NEW b \in NormalBits \cup AbnormalBits
  PROVE  Latched(b) \subseteq StatusBits
BY DEF IsrTypeOK, Latched, StatusBits, NormalBits, AbnormalBits

\* WCHNET_ETHIsr keeps the registers and semaphores well-typed; in particular
\* neither semaphore it gives ever counts past one.
LEMMA IsrStepType ==
  ASSUME IsrTypeOK, IsrStep \/ IsrRbu
  PROVE  IsrTypeOK'
BY DEF IsrTypeOK, IsrStep, IsrEnter, IsrRbu, IsrNoRbu, IsrClear, Cleared, Left,
       IsrNis, IsrTx, RxSignal, TxSignal, IsrPcs, StatusBits, NormalBits,
       AbnormalBits

\* Inside lwIP: between taking the core lock and giving it back.
Inside(s) == pc[s] \notin {"idle", "lock"}

\* What the ring's shape needs to be inductive: whoever is inside holds the
\* core lock, a sender filling a buffer has seen it free, and a DMA that sends
\* owns its descriptor.
Control ==
  /\ \A s \in Senders : Inside(s) => coreLock = s
  /\ \A s \in Senders : pc[s] \in {"copy", "commit"} => own[DMATxDescToSet] = "cpu"
  /\ dma = "xmit" => own[dmaPtr] = "dma"

TxInv == TypeOK /\ TxRingShape /\ Control

\* A sender is between the OWN bit and the advance of ETH_SendFrame.
Advancing == \E s \in Senders : pc[s] \in {"poll", "advance"}

-----------------------------------------------------------------------------

\* After ETH_Init every descriptor is the driver's and nobody sends.
LEMMA InitTx == Init => TxInv
<1> SUFFICES ASSUME Init PROVE TxInv
  OBVIOUS
<1> USE NAssumption, TxAssumption DEF Init
<1>1. TypeOK
  BY DEF TypeOK, IsrInit, IsrTypeOK, IsrPcs, SenderPcs, Desc
<1>2. TxRingShape
  BY DEF TxRingShape, Shape, DmaOwned, FillPoint, Desc
<1>3. Control
  BY DEF Control, Inside
<1> QED
  BY <1>1, <1>2, <1>3 DEF TxInv

\* The core lock lets one sender in at a time.
LEMMA OneInside ==
  ASSUME Control, NEW s \in Senders, NEW t \in Senders, Inside(s), Inside(t)
  PROVE  s = t
BY DEF Control

\* Whoever moves a descriptor from the driver to the DMA fills at FillPoint,
\* and the DMA empties at its own position.
LEMMA SentShape ==
  ASSUME TxInv, own[dmaPtr] = "dma",
         own' = [own EXCEPT ![dmaPtr] = "cpu"],
         dmaPtr' = NextDesc(dmaPtr), UNCHANGED <<DMATxDescToSet, pc>>
  PROVE  TxRingShape'
<1>1. /\ DmaOwned \in SUBSET Desc /\ dmaPtr \in DmaOwned
      /\ dmaPtr \in Desc /\ FillPoint \in Desc
  BY NextDescOnChain DEF TxInv, TypeOK, DmaOwned, FillPoint
<1>2. DmaOwned' = DmaOwned \ {dmaPtr} /\ FillPoint' = FillPoint
  BY DEF TxInv, TypeOK, DmaOwned, FillPoint
<1>3. Shape(DmaOwned \ {dmaPtr}, NextDesc(dmaPtr), FillPoint)
  BY <1>1, ShapeEmpty DEF TxInv, TxRingShape
<1> QED
  BY <1>2, <1>3 DEF TxRingShape

LEMMA CommitShape ==
  ASSUME TxInv, own[DMATxDescToSet] = "cpu", ~Advancing, Advancing',
         own' = [own EXCEPT ![DMATxDescToSet] = "dma"],
         UNCHANGED <<DMATxDescToSet, dmaPtr>>
  PROVE  TxRingShape'
<1>1. /\ DmaOwned \in SUBSET Desc /\ DMATxDescToSet \notin DmaOwned
      /\ dmaPtr \in Desc /\ DMATxDescToSet \in Desc
  BY DEF TxInv, TypeOK, DmaOwned
<1>2. DmaOwned' = DmaOwned \cup {DMATxDescToSet}
  BY DEF TxInv, TypeOK, DmaOwned
<1>3. FillPoint = DMATxDescToSet /\ FillPoint' = NextDesc(DMATxDescToSet)
  BY DEF FillPoint, Advancing
<1>4. Shape(DmaOwned \cup {DMATxDescToSet}, dmaPtr, NextDesc(DMATxDescToSet))
  BY <1>1, <1>3, ShapeFill DEF TxInv, TxRingShape
<1> QED
  BY <1>2, <1>3, <1>4 DEF TxRingShape

\* Every other step leaves the chain and the fill point alone.
LEMMA SameTxShape ==
  ASSUME TxRingShape, UNCHANGED <<own, dmaPtr>>, FillPoint' = FillPoint
  PROVE  TxRingShape'
BY DEF TxRingShape, DmaOwned

-----------------------------------------------------------------------------
(* The DMA and the interrupt. *)

LEMMA HardwareKeepsTx ==
  ASSUME TxInv, DmaFetch \/ DmaSent \/ DmaSuspend \/ DmaRxEvent \/ Isr
  PROVE  TxInv'
<1> USE DEF TxInv
<1>1. Latched("T") \subseteq StatusBits
      /\ \A b \in RxEvents : Latched(b) \subseteq StatusBits
  BY LatchedType, TxAssumption DEF TypeOK, NormalBits, AbnormalBits
<1>2. IsrTypeOK'
  <2>1. CASE Isr
    BY <2>1, IsrStepType DEF TypeOK, Isr
  <2>2. CASE DmaFetch \/ DmaSuspend
    BY <2>2 DEF TypeOK, IsrTypeOK, DmaFetch, DmaSuspend, isrVars
  <2>3. CASE DmaSent \/ DmaRxEvent
    BY <1>1, <2>3 DEF TypeOK, IsrTypeOK, DmaSent, DmaRxEvent
  <2> QED
    BY <2>1, <2>2, <2>3
<1>3. CASE DmaSent
  <2>1. own[dmaPtr] = "dma"
    BY <1>3 DEF Control, DmaSent
  <2>2. TypeOK'
    BY <1>2, <1>3, NextDescOnChain DEF TypeOK, DmaSent
  <2>3. TxRingShape'
    BY <1>3, <2>1, SentShape DEF DmaSent
  <2>4. Control'
    BY <1>3 DEF Control, Inside, TypeOK, DmaSent
  <2> QED
    BY <2>2, <2>3, <2>4
<1>4. CASE DmaFetch \/ DmaSuspend \/ DmaRxEvent \/ Isr
  <2>1. /\ UNCHANGED <<own, buf, DMATxDescToSet, dmaPtr, coreLock, pc, committed,
                       out>>
        /\ dma' = dma \/ DmaFetch \/ DmaSuspend
    BY <1>4 DEF DmaFetch, DmaSuspend, DmaRxEvent, Isr, txVars
  <2>2. TypeOK'
    BY <1>2, <2>1 DEF TypeOK, DmaFetch, DmaSuspend
  <2>3. TxRingShape'
    BY <2>1, SameTxShape DEF FillPoint
  <2>4. Control'
    BY <2>1 DEF Control, Inside, DmaFetch, DmaSuspend
  <2> QED
    BY <2>2, <2>3, <2>4
<1> QED
  BY <1>3, <1>4

(* The senders. *)

\* A step that moves one sender only, from outside the advance to outside it.
LEMMA MoveKeepsTx ==
  ASSUME TxInv, NEW s \in Senders, NEW to \in SenderPcs,
         pc' = [pc EXCEPT ![s] = to], IsrTypeOK',
         UNCHANGED <<own, DMATxDescToSet, dmaPtr, dma, committed, out>>,
         buf' \in [Desc -> Nat \cup {-1}],
         to \in {"poll", "advance"} <=> pc[s] \in {"poll", "advance"},
         to \in {"copy", "commit"} => own[DMATxDescToSet] = "cpu",
         \/ coreLock' = coreLock /\ (to \in {"idle", "lock"} \/ Inside(s))
         \/ coreLock' = s /\ coreLock = None
         \/ coreLock' = None /\ Inside(s) /\ to = "idle"
  PROVE  TxInv'
<1> USE DEF TxInv
<1>1. TypeOK'
  BY DEF TypeOK
<1>2. TxRingShape'
  <2>1. FillPoint' = FillPoint
    BY DEF FillPoint, TypeOK
  <2> QED
    BY <2>1, SameTxShape
<1>3. Control'
  <2>1. ASSUME NEW t \in Senders, Inside(t)' PROVE coreLock' = t
    BY <2>1, OneInside, TxAssumption DEF Control, Inside, TypeOK
  <2> QED
    BY <2>1 DEF Control, TypeOK
<1> QED
  BY <1>1, <1>2, <1>3

LEMMA SenderKeepsTx ==
  ASSUME TxInv, NEW s \in Senders, Call(s) \/ LockCore(s) \/ Step(s)
  PROVE  TxInv'
<1> USE DEF TxInv
<1>1. IsrTypeOK'
  BY DEF Call, LockCore, Step, OutputTooLong, OutputGetBuf, OutputToken,
         OutputTimeout, OutputRetry, OutputCopy, SendFrameOwn, SendFramePoll,
         SendFrameAdvance, UnlockCore, TypeOK, IsrTypeOK, isrVars
<1>2. CASE Call(s)
  BY <1>1, <1>2, MoveKeepsTx DEF Call, Goto, SenderPcs, TypeOK
<1>3. CASE LockCore(s)
  BY <1>1, <1>3, MoveKeepsTx DEF LockCore, Goto, SenderPcs, TypeOK
<1>4. CASE OutputTooLong(s)
  BY <1>1, <1>4, MoveKeepsTx DEF OutputTooLong, Goto, Inside, SenderPcs, TypeOK
<1>5. CASE OutputGetBuf(s)
  <2>1. CASE own[DMATxDescToSet] = "cpu"
    BY <1>1, <1>5, <2>1, MoveKeepsTx
    DEF OutputGetBuf, Goto, Inside, SenderPcs, TypeOK
  <2>2. CASE own[DMATxDescToSet] # "cpu"
    BY <1>1, <1>5, <2>2, MoveKeepsTx
    DEF OutputGetBuf, Goto, Inside, SenderPcs, TypeOK
  <2> QED
    BY <2>1, <2>2
<1>6. CASE OutputToken(s)
  BY <1>1, <1>6, MoveKeepsTx DEF OutputToken, Goto, Inside, SenderPcs, TypeOK
<1>7. CASE OutputTimeout(s)
  BY <1>1, <1>7, MoveKeepsTx DEF OutputTimeout, Goto, Inside, SenderPcs, TypeOK
<1>8. CASE OutputRetry(s)
  <2>1. CASE own[DMATxDescToSet] = "cpu"
    BY <1>1, <1>8, <2>1, MoveKeepsTx
    DEF OutputRetry, Goto, Inside, SenderPcs, TypeOK
  <2>2. CASE own[DMATxDescToSet] # "cpu"
    BY <1>1, <1>8, <2>2, MoveKeepsTx
    DEF OutputRetry, Goto, Inside, SenderPcs, TypeOK
  <2> QED
    BY <2>1, <2>2
<1>9. CASE OutputCopy(s)
  <2>1. buf' \in [Desc -> Nat \cup {-1}]
    BY <1>9 DEF OutputCopy, TypeOK
  <2>2. own[DMATxDescToSet] = "cpu"
    BY <1>9 DEF OutputCopy, Goto, Control
  <2> QED
    BY <1>1, <1>9, <2>1, <2>2, MoveKeepsTx
    DEF OutputCopy, Goto, Inside, SenderPcs, TypeOK
<1>10. CASE SendFrameOwn(s)
  <2>1. Inside(s) /\ own[DMATxDescToSet] = "cpu"
    BY <1>10 DEF SendFrameOwn, Goto, Inside, Control
  <2>2. ~Advancing /\ Advancing'
    BY <1>10, <2>1, OneInside
    DEF SendFrameOwn, Goto, Inside, Advancing, TypeOK
  <2>3. TypeOK'
    BY <1>1, <1>10 DEF SendFrameOwn, Goto, SenderPcs, TypeOK
  <2>4. TxRingShape'
    BY <1>10, <2>1, <2>2, CommitShape DEF SendFrameOwn
  <2>5. \A t \in Senders : Inside(t)' => Inside(t)
    BY <1>10, <2>1 DEF SendFrameOwn, Goto, Inside, TypeOK
  <2>6. \A t \in Senders : (pc[t] \in {"copy", "commit"})' => FALSE
    BY <1>10, <2>1, OneInside DEF SendFrameOwn, Goto, Inside, TypeOK
  <2>7. Control'
    BY <1>10, <2>5, <2>6 DEF SendFrameOwn, Control, TypeOK
  <2> QED
    BY <2>3, <2>4, <2>7
<1>11. CASE SendFramePoll(s)
  <2>1. TypeOK'
    BY <1>1, <1>11
    DEF SendFramePoll, TransmitPollDemand, Goto, SenderPcs, TypeOK
  <2>2. FillPoint' = FillPoint
    BY <1>11 DEF SendFramePoll, Goto, FillPoint, TypeOK
  <2>3. TxRingShape'
    BY <1>11, <2>2, SameTxShape DEF SendFramePoll
  <2>4. Control'
    BY <1>11
    DEF SendFramePoll, TransmitPollDemand, Goto, Control, Inside, TypeOK
  <2> QED
    BY <2>1, <2>3, <2>4
<1>12. CASE SendFrameAdvance(s)
  <2>1. TypeOK'
    BY <1>1, <1>12, NextDescOnChain DEF SendFrameAdvance, Goto, SenderPcs, TypeOK
  <2>2. \A t \in Senders \ {s} : ~Inside(t)
    BY <1>12, OneInside DEF SendFrameAdvance, Goto, Inside
  <2>3. FillPoint' = FillPoint
    BY <1>12, <2>2 DEF SendFrameAdvance, Goto, Inside, FillPoint, TypeOK
  <2>4. TxRingShape'
    BY <1>12, <2>3, SameTxShape DEF SendFrameAdvance
  <2>5. Control'
    BY <1>12, <2>2 DEF SendFrameAdvance, Goto, Control, Inside, TypeOK
  <2> QED
    BY <2>1, <2>4, <2>5
<1>13. CASE UnlockCore(s)
  BY <1>1, <1>13, MoveKeepsTx DEF UnlockCore, Goto, Inside, SenderPcs, TypeOK
<1> QED
  BY <1>2, <1>3, <1>4, <1>5, <1>6, <1>7, <1>8, <1>9, <1>10, <1>11, <1>12, <1>13
  DEF Step

LEMMA NextKeepsTx == TxInv /\ [TxNext]_vars => TxInv'
<1> SUFFICES ASSUME TxInv, [TxNext]_vars PROVE TxInv'
  OBVIOUS
<1>1. CASE TxNext
  BY <1>1, HardwareKeepsTx, SenderKeepsTx DEF TxNext
<1>2. CASE UNCHANGED vars
  <2>1. TypeOK'
    BY <1>2 DEF TxInv, TypeOK, IsrTypeOK, vars, txVars, isrVars
  <2>2. TxRingShape'
    BY <1>2, SameTxShape DEF TxInv, FillPoint, vars, txVars
  <2>3. Control'
    BY <1>2 DEF TxInv, Control, Inside, vars, txVars
  <2> QED
    BY <2>1, <2>2, <2>3 DEF TxInv
<1> QED
  BY <1>1, <1>2

\* TxInv is an invariant of transmission.
LEMMA TxSpecInv == TxSpec => []TxInv
BY InitTx, NextKeepsTx, PTL DEF TxSpec

-----------------------------------------------------------------------------

\* Transmission is type-correct: the pointers stay on the chain and the lock
\* names a sender.
THEOREM TxTypeOK == TxSpec => []TypeOK
<1>1. TxInv => TypeOK
  BY DEF TxInv
<1> QED
  BY <1>1, TxSpecInv, PTL

\* On a chain of any length and for any set of senders the driver's pointer and
\* the DMA's never drift apart, not even inside ETH_SendFrame.
THEOREM TxRingKept == TxSpec => []TxRingShape
<1>1. TxInv => TxRingShape
  BY DEF TxInv
<1> QED
  BY <1>1, TxSpecInv, PTL

\* From ETH_GetTxBuf to the OWN bit a buffer is one sender's alone, for any
\* number of tasks that send.
THEOREM TxBufferExclusive == TxSpec => []BufferExclusive
<1>1. ASSUME TxInv PROVE BufferExclusive
  <2> SUFFICES ASSUME NEW s \in Senders, pc[s] \in {"copy", "commit"}
               PROVE  /\ own[DMATxDescToSet] = "cpu"
                      /\ \A t \in Senders \ {s} : ~Inside(t)
    BY DEF BufferExclusive, Inside
  <2>1. own[DMATxDescToSet] = "cpu"
    BY <1>1 DEF TxInv, Control
  <2>2. Inside(s)
    BY DEF Inside
  <2> QED
    BY <1>1, <2>1, <2>2, OneInside DEF TxInv
<1> QED
  BY <1>1, TxSpecInv, PTL

-----------------------------------------------------------------------------
(* Transmission implements the lossless channel. *)

\* What the channel needs beyond the shape: the buffers the DMA owns hold the
\* frames after the one sent last, in the order of the chain, up to the last
\* one committed, and a buffer about to be committed holds the next.
TxOrder ==
  /\ \A i \in DmaOwned : buf[i] = out + 1 + Dist(dmaPtr, i)
  /\ committed = out + 1 + Depth(DmaOwned, dmaPtr, FillPoint)
  /\ \A s \in Senders : pc[s] = "commit" => buf[DMATxDescToSet] = committed

LEMMA InitTxOrder == Init => TxOrder
BY DEF Init, TxOrder, DmaOwned, Depth

\* Where things are on the chain.
LEMMA TxPlaces ==
  ASSUME TxInv
  PROVE  /\ DmaOwned \in SUBSET Desc /\ DMATxDescToSet \in Desc
         /\ dmaPtr \in Desc /\ FillPoint \in Desc
         /\ Shape(DmaOwned, dmaPtr, FillPoint)
         /\ out \in Int /\ committed \in Int
BY NextDescOnChain DEF TxInv, TypeOK, DmaOwned, FillPoint, TxRingShape

\* The frame sent is the oldest; those that follow move up.
LEMMA SentOrder ==
  ASSUME TxInv, TxOrder, DmaSent
  PROVE  /\ TxOrder'
         /\ dmaPtr \in DmaOwned /\ DmaOwned' = DmaOwned \ {dmaPtr}
         /\ out' = out + 1 /\ buf[dmaPtr] = out + 1
<1>1. dmaPtr \in DmaOwned
  BY DEF TxInv, TypeOK, Control, DmaSent, DmaOwned
<1>2. DmaOwned' = DmaOwned \ {dmaPtr} /\ FillPoint' = FillPoint
  BY DEF TxInv, TypeOK, DmaSent, DmaOwned, FillPoint
<1>3. out' = out + 1 /\ buf[dmaPtr] = out + 1
  BY <1>1, TxPlaces, DistType DEF TxOrder, DmaSent
<1>4. \A i \in DmaOwned' : buf'[i] = out' + 1 + Dist(dmaPtr', i)
  <2> SUFFICES ASSUME NEW i \in DmaOwned \ {dmaPtr}
               PROVE  buf[i] = out + 1 + 1 + Dist(NextDesc(dmaPtr), i)
    BY <1>2, <1>3 DEF DmaSent
  <2>1. buf[i] = out + 1 + Dist(dmaPtr, i)
    BY DEF TxOrder
  <2>2. Dist(dmaPtr, i) = Dist(NextDesc(dmaPtr), i) + 1
    BY TxPlaces, DistFromNext
  <2>3. Dist(NextDesc(dmaPtr), i) \in Int
    BY TxPlaces, NextDescOnChain, DistType
  <2> QED
    BY <2>1, <2>2, <2>3, TxPlaces
<1>5. committed' = out' + 1 + Depth(DmaOwned, dmaPtr, FillPoint)'
  <2>1. Depth(DmaOwned, dmaPtr, FillPoint)'
          = Depth(DmaOwned \ {dmaPtr}, NextDesc(dmaPtr), FillPoint)
    BY <1>2 DEF DmaSent, Depth, Dist
  <2>2. Depth(DmaOwned \ {dmaPtr}, NextDesc(dmaPtr), FillPoint) + 1
          = Depth(DmaOwned, dmaPtr, FillPoint)
    BY <1>1, TxPlaces, DepthEmpty
  <2>3. Depth(DmaOwned \ {dmaPtr}, NextDesc(dmaPtr), FillPoint) \in Int
    BY <1>1, TxPlaces, ShapeEmpty, ShapeDepth, NextDescOnChain
  <2> QED
    BY <1>3, <2>1, <2>2, <2>3, TxPlaces DEF TxOrder, DmaSent
<1>6. \A s \in Senders : pc'[s] = "commit" => buf'[DMATxDescToSet'] = committed'
  BY DEF TxOrder, DmaSent
<1> QED
  BY <1>1, <1>2, <1>3, <1>4, <1>5, <1>6 DEF TxOrder

\* The frame committed is the next, behind those the DMA owns.
LEMMA CommitOrder ==
  ASSUME TxInv, TxOrder, NEW s \in Senders, SendFrameOwn(s)
  PROVE  /\ TxOrder'
         /\ DmaOwned' = DmaOwned \cup {DMATxDescToSet}
         /\ buf[DMATxDescToSet] = committed
<1>1. Inside(s) /\ buf[DMATxDescToSet] = committed
  BY DEF TxOrder, Inside, SendFrameOwn, Goto
<1>2. \A t \in Senders : pc[t] \notin {"poll", "advance"}
  BY <1>1, OneInside DEF TxInv, Inside, SendFrameOwn, Goto
<1>3. FillPoint = DMATxDescToSet /\ DMATxDescToSet \notin DmaOwned
  BY <1>2 DEF FillPoint, DmaOwned, TxInv, Control, SendFrameOwn, Goto
<1>4. FillPoint' = NextDesc(DMATxDescToSet)
  <2>1. pc'[s] = "poll"
    BY DEF TxInv, TypeOK, SendFrameOwn, Goto
  <2> QED
    BY <2>1 DEF FillPoint, SendFrameOwn
<1>5. DmaOwned' = DmaOwned \cup {DMATxDescToSet}
  BY DEF TxInv, TypeOK, DmaOwned, SendFrameOwn
<1>6. Dist(dmaPtr, DMATxDescToSet) = Depth(DmaOwned, dmaPtr, FillPoint)
  BY <1>3, TxPlaces, ShapeDepth
<1>7. \A i \in DmaOwned' : buf'[i] = out' + 1 + Dist(dmaPtr', i)
  BY <1>1, <1>5, <1>6 DEF TxOrder, SendFrameOwn
<1>8. committed' = out' + 1 + Depth(DmaOwned, dmaPtr, FillPoint)'
  <2>1. Depth(DmaOwned, dmaPtr, FillPoint)'
          = Depth(DmaOwned \cup {DMATxDescToSet}, dmaPtr, NextDesc(DMATxDescToSet))
    BY <1>4, <1>5 DEF SendFrameOwn, Depth, Dist
  <2>2. Depth(DmaOwned \cup {DMATxDescToSet}, dmaPtr, NextDesc(DMATxDescToSet))
          = Depth(DmaOwned, dmaPtr, FillPoint) + 1
    BY <1>3, TxPlaces, DepthFill
  <2>3. Depth(DmaOwned, dmaPtr, FillPoint) \in Int
    BY TxPlaces, ShapeDepth
  <2> QED
    BY <2>1, <2>2, <2>3, TxPlaces DEF TxOrder, SendFrameOwn
<1>9. \A t \in Senders : pc'[t] # "commit"
  BY <1>1, OneInside DEF TxInv, TypeOK, Inside, SendFrameOwn, Goto
<1> QED
  BY <1>1, <1>5, <1>7, <1>8, <1>9 DEF TxOrder

\* Every other step leaves the frames where they are.
LEMMA QuietOrder ==
  ASSUME TxInv, TxOrder, UNCHANGED <<own, dmaPtr, committed, out>>,
         FillPoint' = FillPoint, \A i \in DmaOwned : buf'[i] = buf[i],
         \A s \in Senders : pc'[s] = "commit" => buf'[DMATxDescToSet'] = committed
  PROVE  TxOrder' /\ UNCHANGED Channel!chVars
<1>1. DmaOwned' = DmaOwned
  BY DEF DmaOwned
<1>2. Depth(DmaOwned, dmaPtr, FillPoint)' = Depth(DmaOwned, dmaPtr, FillPoint)
  BY <1>1 DEF Depth, Dist
<1>3. TxOrder'
  BY <1>1, <1>2 DEF TxOrder, Dist
<1>4. {buf[i] : i \in DmaOwned}' = {buf[i] : i \in DmaOwned}
  BY <1>1
<1> QED
  BY <1>3, <1>4 DEF Channel!chVars

\* Steps of a sender away from the ring.
LEMMA PlainOrder ==
  ASSUME TxInv, TxOrder, NEW s \in Senders, NEW to \in SenderPcs,
         pc[s] \in {"poll", "advance"} <=> to \in {"poll", "advance"},
         to # "commit", pc' = [pc EXCEPT ![s] = to],
         UNCHANGED <<own, buf, DMATxDescToSet, dmaPtr, committed, out>>
  PROVE  TxOrder' /\ UNCHANGED Channel!chVars
<1>1. \A t \in Senders : pc'[t] = IF t = s THEN to ELSE pc[t]
  BY DEF TxInv, TypeOK
<1>2. FillPoint' = FillPoint
  BY <1>1 DEF FillPoint
<1>3. \A t \in Senders : pc'[t] = "commit" => buf'[DMATxDescToSet'] = committed
  BY <1>1 DEF TxOrder
<1> QED
  BY <1>2, <1>3, QuietOrder

\* What a sender does to the channel: nothing, or a frame enters it.
LEMMA SenderImplements ==
  ASSUME TxInv, TxOrder, NEW s \in Senders, Call(s) \/ LockCore(s) \/ Step(s)
  PROVE  TxOrder' /\ (Channel!Enter \/ UNCHANGED Channel!chVars)
<1> USE DEF Goto, SenderPcs
<1>1. CASE Call(s)
  BY <1>1, PlainOrder DEF Call
<1>2. CASE LockCore(s)
  BY <1>2, PlainOrder DEF LockCore
<1>3. CASE OutputTooLong(s)
  BY <1>3, PlainOrder DEF OutputTooLong
<1>4. CASE OutputGetBuf(s)
  BY <1>4, PlainOrder DEF OutputGetBuf
<1>5. CASE OutputToken(s)
  BY <1>5, PlainOrder DEF OutputToken
<1>6. CASE OutputTimeout(s)
  BY <1>6, PlainOrder DEF OutputTimeout
<1>7. CASE OutputRetry(s)
  BY <1>7, PlainOrder DEF OutputRetry
<1>8. CASE OutputCopy(s)
  <2>1. Inside(s) /\ DMATxDescToSet \notin DmaOwned
    BY <1>8 DEF OutputCopy, Inside, TxInv, Control, DmaOwned
  <2>2. \A t \in Senders : pc[t] # "commit" /\ pc[t] \notin {"poll", "advance"}
    BY <1>8, <2>1, OneInside DEF OutputCopy, Inside, TxInv
  <2>3. \A t \in Senders : pc'[t] \notin {"poll", "advance"}
    BY <1>8, <2>2 DEF OutputCopy, TxInv, TypeOK
  <2>4. FillPoint' = FillPoint
    BY <1>8, <2>2, <2>3 DEF OutputCopy, FillPoint
  <2>5. /\ \A i \in DmaOwned : buf'[i] = buf[i]
        /\ buf'[DMATxDescToSet'] = committed
    BY <1>8, <2>1, TxPlaces DEF OutputCopy, TxInv, TypeOK
  <2> QED
    BY <1>8, <2>4, <2>5, QuietOrder DEF OutputCopy
<1>9. CASE SendFrameOwn(s)
  <2>1. {buf[i] : i \in DmaOwned}' = {buf[i] : i \in DmaOwned} \cup {committed}
    BY <1>9, CommitOrder DEF SendFrameOwn
  <2> QED
    BY <1>9, <2>1, CommitOrder DEF SendFrameOwn, Channel!Enter
<1>10. CASE SendFramePoll(s)
  BY <1>10, PlainOrder DEF SendFramePoll
<1>11. CASE SendFrameAdvance(s)
  <2>1. Inside(s)
    BY <1>11 DEF SendFrameAdvance, Inside
  <2>2. \A t \in Senders : pc'[t] \notin {"poll", "advance", "commit"}
    BY <1>11, <2>1, OneInside DEF SendFrameAdvance, Inside, TxInv, TypeOK
  <2>3. FillPoint' = FillPoint
    BY <1>11, <2>2 DEF SendFrameAdvance, FillPoint
  <2> QED
    BY <1>11, <2>2, <2>3, QuietOrder DEF SendFrameAdvance
<1>12. CASE UnlockCore(s)
  BY <1>12, PlainOrder DEF UnlockCore
<1> QED
  BY <1>1, <1>2, <1>3, <1>4, <1>5, <1>6, <1>7, <1>8, <1>9, <1>10, <1>11, <1>12
  DEF Step

\* Every step of transmission is one of the lossless channel, or none.
LEMMA StepImplements ==
  TxInv /\ TxOrder /\ [TxNext]_vars
    => TxOrder' /\ [Channel!Enter \/ Channel!HandOver]_(Channel!chVars)
<1> SUFFICES ASSUME TxInv, TxOrder, [TxNext]_vars
             PROVE  TxOrder' /\ [Channel!Enter \/ Channel!HandOver]_(Channel!chVars)
  OBVIOUS
<1>1. ASSUME UNCHANGED <<own, buf, DMATxDescToSet, dmaPtr, pc, committed, out>>
      PROVE  TxOrder' /\ UNCHANGED Channel!chVars
  BY <1>1, QuietOrder DEF FillPoint, TxOrder
<1>2. CASE DmaFetch \/ DmaSuspend
  BY <1>1, <1>2 DEF DmaFetch, DmaSuspend
<1>3. CASE DmaRxEvent \/ Isr \/ UNCHANGED vars
  BY <1>1, <1>3 DEF DmaRxEvent, Isr, vars, txVars
<1>4. CASE DmaSent
  <2> DEFINE flying == {buf[i] : i \in DmaOwned}
  <2>1. flying' = flying \ {out + 1}
    <3>1. \A i \in DmaOwned : buf[i] = out + 1 <=> i = dmaPtr
      BY <1>4, SentOrder, TxPlaces, DistType DEF TxOrder
    <3> QED
      BY <1>4, <3>1, SentOrder DEF DmaSent
  <2>2. out + 1 \in flying /\ \A g \in flying : out + 1 <= g
    <3>1. \A i \in DmaOwned : out + 1 <= buf[i]
      BY TxPlaces, DistType DEF TxOrder
    <3> QED
      BY <1>4, <3>1, SentOrder
  <2>3. Channel!HandOver
    BY <1>4, <2>1, <2>2, SentOrder DEF Channel!HandOver, DmaSent
  <2> QED
    BY <1>4, <2>3, SentOrder
<1>5. ASSUME NEW s \in Senders, Call(s) \/ LockCore(s) \/ Step(s)
      PROVE  TxOrder' /\ (Channel!Enter \/ UNCHANGED Channel!chVars)
  BY <1>5, SenderImplements
<1> QED
  BY <1>1, <1>2, <1>3, <1>4, <1>5 DEF TxNext

\* A frame low_level_output accepted is sent, in order and once, none skipped:
\* transmission implements the lossless channel for any chain, any set of
\* senders and any number of frames.
THEOREM TxSendsInOrder == TxSpec => SendsInOrder
<1>1. Init => Channel!ChInit
  BY DEF Init, Channel!ChInit, DmaOwned
<1>2. TxSpec => []TxOrder
  BY InitTxOrder, StepImplements, TxSpecInv, PTL DEF TxSpec
<1> QED
  BY <1>1, <1>2, StepImplements, TxSpecInv, PTL
  DEF TxSpec, SendsInOrder, Channel!LosslessSpec
=============================================================================
