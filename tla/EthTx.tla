-------------------------------- MODULE EthTx --------------------------------
(***************************************************************************)
(* Transmission: the tasks that send through lwIP, serialised by the core  *)
(* lock, low_level_output with its bounded wait on eth_tx_semaphore, the   *)
(* chain of TX descriptors (ETH_GetTxBuf, ETH_SendFrame) and the transmit  *)
(* DMA.  The interrupt routine that gives the semaphore is module EthIsr.  *)
(***************************************************************************)
EXTENDS EthIsr, DescRing

CONSTANTS
  Senders,    \* tasks that send: tcpip_thread and users of the API
  RxEvents,   \* what the receive half of the DMA raises meanwhile
  MaxFrames   \* bound: no call starts once this many frames are committed

None == "none"  \* holder of a free lock

ASSUME TxAssumption ==
  /\ None \notin Senders
  /\ RxEvents \subseteq {"R", "RBU"}
  /\ MaxFrames \in Nat

VARIABLES
  own,        \* OWN bit of each descriptor's Status: "dma" or "cpu"
  buf,        \* the frame in each transmit buffer, -1 for none
  DMATxDescToSet, \* the driver's next descriptor to fill
  dmaPtr,     \* the DMA's current transmit descriptor
  dma,        \* transmit process: "run", "xmit", "suspended"
  coreLock,   \* holder of lock_tcpip_core, None when free
  pc,         \* where each sender is
  committed,  \* frames given to the DMA so far; names the next one
  out         \* the frame the DMA sent last, -1 before the first

txVars == <<own, buf, DMATxDescToSet, dmaPtr, dma, coreLock, pc, committed, out>>
vars   == <<txVars, isrVars>>

SenderPcs == {"idle", "lock", "enter", "wait", "retry", "copy", "commit",
              "poll", "advance", "unlock"}

TypeOK ==
  /\ IsrTypeOK
  /\ own \in [Desc -> {"dma", "cpu"}]
  /\ buf \in [Desc -> Nat \cup {-1}]
  /\ DMATxDescToSet \in Desc /\ dmaPtr \in Desc
  /\ dma \in {"run", "xmit", "suspended"}
  /\ coreLock \in Senders \cup {None}
  /\ pc \in [Senders -> SenderPcs]
  /\ committed \in Nat
  /\ out \in Nat \cup {-1}

\* After ETH_Init and ETH_Start: every descriptor free, TCH and IC set.
Init ==
  /\ IsrInit
  /\ own = [i \in Desc |-> "cpu"]
  /\ buf = [i \in Desc |-> -1]
  /\ DMATxDescToSet = 0 /\ dmaPtr = 0
  /\ dma = "run"
  /\ coreLock = None
  /\ pc = [s \in Senders |-> "idle"]
  /\ committed = 0
  /\ out = -1

-----------------------------------------------------------------------------
(* The transmit DMA: external, from how the driver uses it. *)

DmaFetch ==
  /\ dma = "run" /\ own[dmaPtr] = "dma"
  /\ dma' = "xmit"
  /\ UNCHANGED <<own, buf, DMATxDescToSet, dmaPtr, coreLock, pc, committed, out,
                 isrVars>>

\* The frame is on the wire: OWN goes back to the CPU and, IC being set in
\* every descriptor, T is raised.
DmaSent ==
  /\ dma = "xmit"
  /\ out' = buf[dmaPtr]
  /\ own' = [own EXCEPT ![dmaPtr] = "cpu"]
  /\ dmaPtr' = NextDesc(dmaPtr)
  /\ dma' = "run"
  /\ dmasr' = Latched("T")
  /\ UNCHANGED <<buf, DMATxDescToSet, coreLock, pc, committed,
                 isrPc, intSta, rxSem, txSem>>

\* Nothing to send: suspended until a poll demand (TBU is masked).
DmaSuspend ==
  /\ dma = "run" /\ own[dmaPtr] = "cpu"
  /\ dma' = "suspended"
  /\ UNCHANGED <<own, buf, DMATxDescToSet, dmaPtr, coreLock, pc, committed, out,
                 isrVars>>

\* A write to DMATPDR.
TransmitPollDemand ==
  dma' = IF dma = "suspended" /\ own[dmaPtr] = "dma" THEN "run" ELSE dma

\* The receive half shares the status register and the interrupt.
DmaRxEvent ==
  /\ \E b \in RxEvents : dmasr' = Latched(b)
  /\ UNCHANGED <<txVars, isrPc, intSta, rxSem, txSem>>

\* The interrupt routine; its receive poll demand does not touch this state.
Isr == (IsrStep \/ IsrRbu) /\ UNCHANGED txVars

-----------------------------------------------------------------------------
(* A sender. *)

Goto(s, from, to) == pc[s] = from /\ pc' = [pc EXCEPT ![s] = to]

\* A task calls into lwIP: tcpip_api_call and tcpip_thread take the core lock
\* before anything can reach netif->linkoutput.
Call(s) ==
  /\ TaskLevel /\ committed < MaxFrames
  /\ Goto(s, "idle", "lock")
  /\ UNCHANGED <<own, buf, DMATxDescToSet, dmaPtr, dma, coreLock, committed, out,
                 isrVars>>

LockCore(s) ==
  /\ TaskLevel /\ coreLock = None
  /\ Goto(s, "lock", "enter")
  /\ coreLock' = s
  /\ UNCHANGED <<own, buf, DMATxDescToSet, dmaPtr, dma, committed, out, isrVars>>

\* len > ETH_MAX_PACKET_SIZE: return ERR_MEM.
OutputTooLong(s) ==
  /\ TaskLevel
  /\ Goto(s, "enter", "unlock")
  /\ UNCHANGED <<own, buf, DMATxDescToSet, dmaPtr, dma, coreLock, committed, out,
                 isrVars>>

\* dst = ETH_GetTxBuf()
OutputGetBuf(s) ==
  /\ TaskLevel
  /\ Goto(s, "enter", IF own[DMATxDescToSet] = "cpu" THEN "copy" ELSE "wait")
  /\ UNCHANGED <<own, buf, DMATxDescToSet, dmaPtr, dma, coreLock, committed, out,
                 isrVars>>

\* xSemaphoreTake(eth_tx_semaphore, 50 ms) == pdTRUE
OutputToken(s) ==
  /\ TaskLevel /\ txSem = 1
  /\ Goto(s, "wait", "retry")
  /\ txSem' = 0
  /\ UNCHANGED <<own, buf, DMATxDescToSet, dmaPtr, dma, coreLock, committed, out,
                 dmasr, isrPc, intSta, rxSem>>

Mut_OutputTimeoutNever(s) == FALSE  \* fault: the wait has no timeout

\* fault: the frame is copied although the wait ran out
Mut_OutputTimeout(s) ==
  /\ TaskLevel /\ txSem = 0
  /\ Goto(s, "wait", "copy")
  /\ UNCHANGED <<own, buf, DMATxDescToSet, dmaPtr, dma, coreLock, committed, out,
                 isrVars>>

\* The wait runs out: link.drop, ERR_IF, without another look at the descriptor.
OutputTimeout(s) ==
  /\ TaskLevel /\ txSem = 0
  /\ Goto(s, "wait", "unlock")
  /\ UNCHANGED <<own, buf, DMATxDescToSet, dmaPtr, dma, coreLock, committed, out,
                 isrVars>>

\* fault: a token is taken for a free descriptor
Mut_OutputRetry(s) ==
  /\ TaskLevel
  /\ Goto(s, "retry", "copy")
  /\ UNCHANGED <<own, buf, DMATxDescToSet, dmaPtr, dma, coreLock, committed, out,
                 isrVars>>

\* The one further ETH_GetTxBuf after a token; NULL again drops the frame.
OutputRetry(s) ==
  /\ TaskLevel
  /\ Goto(s, "retry", IF own[DMATxDescToSet] = "cpu" THEN "copy" ELSE "unlock")
  /\ UNCHANGED <<own, buf, DMATxDescToSet, dmaPtr, dma, coreLock, committed, out,
                 isrVars>>

\* The pbuf chain is copied into the transmit buffer.
OutputCopy(s) ==
  /\ TaskLevel
  /\ Goto(s, "copy", "commit")
  /\ buf' = [buf EXCEPT ![DMATxDescToSet] = committed]
  /\ UNCHANGED <<own, DMATxDescToSet, dmaPtr, dma, coreLock, committed, out,
                 isrVars>>

\* ETH_SendFrame: size, FS and LS while the descriptor is the CPU's, then OWN.
SendFrameOwn(s) ==
  /\ TaskLevel
  /\ Goto(s, "commit", "poll")
  /\ own' = [own EXCEPT ![DMATxDescToSet] = "dma"]
  /\ committed' = committed + 1
  /\ UNCHANGED <<buf, DMATxDescToSet, dmaPtr, dma, coreLock, out, isrVars>>

\* fault: no poll demand
Mut_SendFramePoll(s) ==
  /\ TaskLevel
  /\ Goto(s, "poll", "advance")
  /\ UNCHANGED <<own, buf, DMATxDescToSet, dmaPtr, dma, coreLock, committed, out,
                 isrVars>>

\* TBUS cleared, DMATPDR written.
SendFramePoll(s) ==
  /\ TaskLevel
  /\ Goto(s, "poll", "advance")
  /\ TransmitPollDemand
  /\ UNCHANGED <<own, buf, DMATxDescToSet, dmaPtr, coreLock, committed, out,
                 isrVars>>

\* fault: the pointer stays
Mut_SendFrameAdvance(s) ==
  /\ TaskLevel
  /\ Goto(s, "advance", "unlock")
  /\ UNCHANGED <<own, buf, DMATxDescToSet, dmaPtr, dma, coreLock, committed, out,
                 isrVars>>

SendFrameAdvance(s) ==
  /\ TaskLevel
  /\ Goto(s, "advance", "unlock")
  /\ DMATxDescToSet' = NextDesc(DMATxDescToSet)
  /\ UNCHANGED <<own, buf, dmaPtr, dma, coreLock, committed, out, isrVars>>

UnlockCore(s) ==
  /\ TaskLevel
  /\ Goto(s, "unlock", "idle")
  /\ coreLock' = None
  /\ UNCHANGED <<own, buf, DMATxDescToSet, dmaPtr, dma, committed, out, isrVars>>

\* Everything a task does once it has decided to send, but for the lock.
Step(s) ==
  \/ OutputTooLong(s) \/ OutputGetBuf(s) \/ OutputToken(s) \/ OutputTimeout(s)
  \/ OutputRetry(s) \/ OutputCopy(s)
  \/ SendFrameOwn(s) \/ SendFramePoll(s) \/ SendFrameAdvance(s)
  \/ UnlockCore(s)

TxNext ==
  \/ DmaFetch \/ DmaSent \/ DmaSuspend \/ DmaRxEvent
  \/ Isr
  \/ \E s \in Senders : Call(s) \/ LockCore(s) \/ Step(s)

TxSpec == Init /\ [][TxNext]_vars

\* The scheduler runs every ready task and the 50 ms wait ends; a mutex is
\* granted to the waiters of one priority in turn; interrupts are served.
\* Nothing is assumed of the DMA: the link may be dead.
TaskFairness ==
  /\ \A s \in Senders : SF_vars(LockCore(s)) /\ SF_vars(Step(s))
  /\ WF_vars(Isr)

\* With a live link the DMA also sends what it owns.
LinkFairness == WF_vars(DmaFetch) /\ WF_vars(DmaSent)

TxFairSpec == TxSpec /\ TaskFairness

-----------------------------------------------------------------------------
(* Properties. *)

DmaOwned == {i \in Desc : own[i] = "dma"}

\* Where the next frame goes once ETH_SendFrame, if one is running past the
\* OWN bit, has advanced the pointer.
FillPoint ==
  IF \E s \in Senders : pc[s] \in {"poll", "advance"}
  THEN NextDesc(DMATxDescToSet) ELSE DMATxDescToSet

\* The driver's pointer and the DMA's keep together: the DMA owns exactly the
\* descriptors from its own position up to the fill point, none or all when
\* they coincide.  Losing it would make ETH_GetTxBuf wait on the wrong one.
TxRingShape == Shape(DmaOwned, dmaPtr, FillPoint)

\* Between ETH_GetTxBuf and the OWN bit the buffer is one sender's alone:
\* neither another sender nor the DMA works on it.
BufferExclusive ==
  \A s \in Senders : pc[s] \in {"copy", "commit"} =>
    /\ own[DMATxDescToSet] = "cpu"
    /\ \A t \in Senders \ {s} : pc[t] \in {"idle", "lock"}

\* A frame low_level_output accepted is sent: in order, once, none skipped.
Channel == INSTANCE FrameChannel WITH
  sent <- committed, inFlight <- {buf[i] : i \in DmaOwned}, out <- out

SendsInOrder == Channel!LosslessSpec

\* low_level_output always comes back and releases the core lock, the DMA dead
\* or not: the wait under the lock is bounded.
SenderReturns == \A s \in Senders : pc[s] # "idle" ~> pc[s] = "idle"

\* On a live link every committed frame goes out, whatever happens to its
\* interrupt: the poll demand comes after the OWN bit.
CommittedIsSent ==
  LinkFairness => \A i \in Desc : own[i] = "dma" ~> own[i] = "cpu"

\* "low_level_output() waits on eth_tx_semaphore when the DMA still owns every
\* TX descriptor, instead of dropping the frame": a frame is given up only
\* after the wait ran out, never with a token just taken.
TokenMeansDescriptor ==
  [][\A s \in Senders : pc[s] = "retry" => pc'[s] \in {"retry", "copy"}]_vars
=============================================================================
