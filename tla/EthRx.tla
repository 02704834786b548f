-------------------------------- MODULE EthRx --------------------------------
(***************************************************************************)
(* Reception: the chain of RX descriptors shared with the Ethernet DMA,    *)
(* the netif task that drains it (lwip_netif_thread -> ethernetif_input -> *)
(* low_level_input -> ETH_RecPeek / ETH_RecFree), the pool of pbufs it     *)
(* copies into, the tcpip_thread mailbox it posts to and the thread that   *)
(* consumes it.                                                            *)
(*                                                                         *)
(* The DMA, the interrupt routine (module EthIsr) and the two tasks        *)
(* interleave at every access to shared state.  The tasks have the same    *)
(* priority on one preemptive core, so either may run next; neither runs   *)
(* while the interrupt routine does.                                       *)
(***************************************************************************)
EXTENDS EthIsr, DescRing, Pools, Sequences, FiniteSetsExt

CONSTANTS
  Sizes,       \* pbufs a good frame may need (its length over the pool size)
  BadKinds,    \* kinds of unusable frame on the wire, subset of {"err", "seg"}
  PoolSize,    \* PBUF_POOL_SIZE
  MsgPoolSize, \* MEMP_NUM_TCPIP_MSG_INPKT
  MboxSize,    \* TCPIP_MBOX_SIZE
  TxTraffic,   \* whether the transmit half of the DMA raises T meanwhile
  AutoResume,  \* hardware choice: a suspended DMA looks at its descriptor
               \* again when the next frame comes in, without a poll demand
  MaxFrames    \* bound: descriptors the DMA fills in one behaviour

ASSUME RxAssumption ==
  /\ Sizes \subseteq Nat \ {0}
  /\ BadKinds \subseteq {"err", "seg"}
  /\ PoolSize \in Nat \ {0}
  /\ MsgPoolSize \in Nat \ {0}
  /\ MboxSize \in Nat \ {0}
  /\ AutoResume \in BOOLEAN
  /\ TxTraffic \in BOOLEAN
  /\ MaxFrames \in Nat

VARIABLES
  own,        \* OWN bit of each descriptor's Status: "dma" or "cpu"
  slot,       \* the frame each descriptor last received
  pDMARxSet,  \* the driver's next descriptor to look at
  dmaPtr,     \* the DMA's current receive descriptor
  dma,        \* receive process: "idle", "fill" (writing), "suspended"
  filled,     \* descriptors filled so far; the next frame's id
  npc,        \* where the netif task is
  got,        \* pbufs of the chain pbuf_alloc has so far
  cur,        \* p: the frame in the pbuf chain, NoFrame for NULL
  poolFree,   \* free elements of MEMP_PBUF_POOL
  msgFree,    \* free elements of MEMP_TCPIP_MSG_INPKT
  mbox,       \* tcpip_mbox
  oosPending, \* pbuf_free_ooseq_pending
  tpc,        \* where tcpip_thread is
  tmsg,       \* the message it handles
  app,        \* frames whose pbufs the stack's users keep
  ooseq,      \* frames whose pbufs TCP keeps out of sequence
  reclaim,    \* those of them pbuf_free_ooseq is freeing
  last,       \* id of the last frame handed to the stack, -1 before it
  cut         \* history: the last drain ended on a failed pbuf_alloc

ringVars == <<own, slot, pDMARxSet>>
dmaVars  == <<dmaPtr, dma, filled>>
memVars  == <<poolFree, msgFree, mbox, oosPending>>
taskVars == <<npc, got, cur, cut>>
tcpVars  == <<tpc, tmsg, app, ooseq, reclaim, last>>
rxVars   == <<ringVars, dmaVars, memVars, taskVars, tcpVars>>
vars     == <<rxVars, isrVars>>

Frame   == [id : Nat, kind : {"ok"} \cup BadKinds, pbufs : Nat]
NoFrame == [id |-> -1, kind |-> "none", pbufs |-> 0]
Ooseq   == [id |-> -1, kind |-> "ooseq", pbufs |-> 0]

NetifPcs == {"wait", "peek", "alloc", "empty", "callback", "unwind", "take",
             "free", "poll", "input", "post", "inputErr"}

TypeOK ==
  /\ IsrTypeOK
  /\ own \in [Desc -> {"dma", "cpu"}]
  /\ slot \in [Desc -> Frame \cup {NoFrame}]
  /\ pDMARxSet \in Desc /\ dmaPtr \in Desc
  /\ dma \in {"idle", "fill", "suspended"}
  /\ filled \in Nat
  /\ npc \in NetifPcs
  /\ got \in Nat
  /\ cur \in Frame \cup {NoFrame}
  /\ poolFree \in Nat
  /\ msgFree \in Nat
  /\ mbox \in Seq(Frame \cup {Ooseq}) /\ Len(mbox) <= MboxSize
  /\ oosPending \in BOOLEAN
  /\ tpc \in {"fetch", "run", "msgfree", "reclaim"}
  /\ tmsg \in Frame \cup {Ooseq, NoFrame}
  /\ app \subseteq Frame /\ ooseq \subseteq Frame /\ reclaim \subseteq Frame
  /\ last \in Nat \cup {-1}
  /\ cut \in BOOLEAN

\* After ETH_Init (descriptors chained and given to the DMA, pDMARxSet at the
\* first), tcpip_init and the first ETH_Start.
Init ==
  /\ IsrInit
  /\ own = [i \in Desc |-> "dma"]
  /\ slot = [i \in Desc |-> NoFrame]
  /\ pDMARxSet = 0 /\ dmaPtr = 0
  /\ dma = "idle"
  /\ filled = 0
  /\ npc = "wait" /\ got = 0 /\ cur = NoFrame
  /\ poolFree = PoolSize /\ msgFree = MsgPoolSize
  /\ mbox = << >> /\ oosPending = FALSE
  /\ tpc = "fetch" /\ tmsg = NoFrame
  /\ app = {} /\ ooseq = {} /\ reclaim = {}
  /\ last = -1
  /\ cut = FALSE

-----------------------------------------------------------------------------
(* The receive DMA: external, from how the driver uses it. *)

\* It writes a frame into a buffer only while the descriptor is its own.
DmaStart ==
  /\ dma = "idle" /\ own[dmaPtr] = "dma" /\ filled < MaxFrames
  /\ dma' = "fill"
  /\ UNCHANGED <<ringVars, dmaPtr, filled, memVars, taskVars, tcpVars, isrVars>>

\* Status write-back: OWN goes to the CPU and R is raised.  "err" is a frame
\* with ES set; "seg" a descriptor without both FS and LS (a frame longer
\* than a buffer), which raises R only if it is the last one.
DmaFinish ==
  /\ dma = "fill"
  /\ \E k \in {"ok"} \cup BadKinds, n \in Sizes, raise \in BOOLEAN :
       /\ k # "seg" => raise
       /\ k # "ok" => n = Min(Sizes)
       /\ slot' = [slot EXCEPT ![dmaPtr] =
                     [id |-> filled, kind |-> k, pbufs |-> n]]
       /\ dmasr' = IF raise THEN Latched("R") ELSE dmasr
  /\ own' = [own EXCEPT ![dmaPtr] = "cpu"]
  /\ dmaPtr' = NextDesc(dmaPtr)
  /\ filled' = filled + 1
  /\ dma' = "idle"
  /\ UNCHANGED <<pDMARxSet, memVars, taskVars, tcpVars,
                 isrPc, intSta, rxSem, txSem>>

\* The next descriptor belongs to the CPU: the DMA suspends and raises RBU.
DmaSuspend ==
  /\ dma = "idle" /\ own[dmaPtr] = "cpu"
  /\ dma' = "suspended"
  /\ dmasr' = Latched("RBU")
  /\ UNCHANGED <<ringVars, dmaPtr, filled, memVars, taskVars, tcpVars,
                 isrPc, intSta, rxSem, txSem>>

\* With AutoResume, an incoming frame restarts a suspended DMA.
DmaAutoResume ==
  /\ AutoResume
  /\ dma = "suspended" /\ own[dmaPtr] = "dma" /\ filled < MaxFrames
  /\ dma' = "fill"
  /\ UNCHANGED <<ringVars, dmaPtr, filled, memVars, taskVars, tcpVars, isrVars>>

\* A write to DMARPDR restarts a suspended DMA if it owns its descriptor.
ReceivePollDemand ==
  /\ dma' = IF dma = "suspended" /\ own[dmaPtr] = "dma" THEN "idle" ELSE dma
  /\ UNCHANGED <<dmaPtr, filled>>

\* The transmit half of the DMA shares the register and the interrupt.
DmaTxDone ==
  /\ TxTraffic
  /\ dmasr' = Latched("T")
  /\ UNCHANGED <<rxVars, isrPc, intSta, rxSem, txSem>>

-----------------------------------------------------------------------------
(* The interrupt routine, EthIsr, on this state. *)

IsrRbuResume ==
  /\ IsrRbu
  /\ ReceivePollDemand
  /\ UNCHANGED <<ringVars, memVars, taskVars, tcpVars>>

Isr == IsrRbuResume \/ (IsrStep /\ UNCHANGED rxVars)

-----------------------------------------------------------------------------
(* The netif task. *)

\* xSemaphoreTake(eth_rx_semaphore, 10 ms); its result is not looked at, so a
\* token and a timeout go on alike.
RxTake ==
  /\ TaskLevel /\ npc = "wait" /\ rxSem = 1
  /\ rxSem' = 0
  /\ npc' = "peek"
  /\ UNCHANGED <<ringVars, dmaVars, memVars, got, cur, cut, tcpVars,
                 dmasr, isrPc, intSta, txSem>>

Mut_RxTimeout == FALSE  \* fault: the wait has no timeout

RxTimeout ==
  /\ TaskLevel /\ npc = "wait" /\ rxSem = 0
  /\ npc' = "peek"
  /\ UNCHANGED <<ringVars, dmaVars, memVars, got, cur, cut, tcpVars, isrVars>>

\* ETH_RecPeek, one turn of its loop: no frame, a good one, or a bad one that
\* is given back and skipped.  The last writes no poll demand.
RecPeekNone ==
  /\ TaskLevel /\ npc = "peek" /\ own[pDMARxSet] = "dma"
  /\ npc' = "wait" /\ cut' = FALSE
  /\ UNCHANGED <<ringVars, dmaVars, memVars, got, cur, tcpVars, isrVars>>

\* fault: the descriptor goes back before the copy
Mut_RecPeekGood ==
  /\ TaskLevel /\ npc = "peek" /\ own[pDMARxSet] = "cpu"
  /\ slot[pDMARxSet].kind = "ok"
  /\ own' = [own EXCEPT ![pDMARxSet] = "dma"]
  /\ npc' = "alloc"
  /\ UNCHANGED <<slot, pDMARxSet, dmaVars, memVars, got, cur, cut, tcpVars, isrVars>>

RecPeekGood ==
  /\ TaskLevel /\ npc = "peek" /\ own[pDMARxSet] = "cpu"
  /\ slot[pDMARxSet].kind = "ok"
  /\ npc' = "alloc"
  /\ UNCHANGED <<ringVars, dmaVars, memVars, got, cur, cut, tcpVars, isrVars>>

\* Status = ETH_DMARxDesc_OWN overwrites the frame's status; then the pointer.
GiveBack ==
  /\ own' = [own EXCEPT ![pDMARxSet] = "dma"]
  /\ slot' = [slot EXCEPT ![pDMARxSet] = NoFrame]
  /\ pDMARxSet' = NextDesc(pDMARxSet)

\* fault: the discard does not advance
Mut_RecPeekBad ==
  /\ TaskLevel /\ npc = "peek" /\ own[pDMARxSet] = "cpu"
  /\ slot[pDMARxSet].kind # "ok"
  /\ own' = [own EXCEPT ![pDMARxSet] = "dma"]
  /\ UNCHANGED <<slot, pDMARxSet, dmaVars, memVars, taskVars, tcpVars, isrVars>>

RecPeekBad ==
  /\ TaskLevel /\ npc = "peek" /\ own[pDMARxSet] = "cpu"
  /\ slot[pDMARxSet].kind # "ok"
  /\ GiveBack
  /\ UNCHANGED <<dmaVars, memVars, taskVars, tcpVars, isrVars>>

\* pbuf_alloc(PBUF_POOL): one element of the chain at a time.
PbufAllocOne ==
  /\ TaskLevel /\ npc = "alloc" /\ poolFree > 0
  /\ poolFree' = poolFree - 1
  /\ got' = got + 1
  /\ npc' = IF got + 1 = slot[pDMARxSet].pbufs THEN "take" ELSE "alloc"
  /\ UNCHANGED <<ringVars, dmaVars, msgFree, mbox, oosPending, cur, cut, tcpVars,
                 isrVars>>

PbufAllocFail ==
  /\ TaskLevel /\ npc = "alloc" /\ poolFree = 0
  /\ npc' = "empty"
  /\ UNCHANGED <<ringVars, dmaVars, memVars, got, cur, cut, tcpVars, isrVars>>

\* fault: a call is queued although one is pending
Mut_PoolIsEmpty ==
  /\ TaskLevel /\ npc = "empty"
  /\ oosPending' = TRUE
  /\ npc' = "callback"
  /\ UNCHANGED <<ringVars, dmaVars, poolFree, msgFree, mbox, got, cur, cut, tcpVars,
                 isrVars>>

\* pbuf_pool_is_empty: test and set of the flag under SYS_ARCH_PROTECT, then
\* the callback is queued outside of it, and the flag taken back on failure.
PoolIsEmpty ==
  /\ TaskLevel /\ npc = "empty"
  /\ oosPending' = TRUE
  /\ npc' = IF oosPending THEN "unwind" ELSE "callback"
  /\ UNCHANGED <<ringVars, dmaVars, poolFree, msgFree, mbox, got, cur, cut, tcpVars,
                 isrVars>>

\* tcpip_try_callback.  Its message pool (MEMP_NUM_TCPIP_MSG_API) serves no other
\* user here and one call is pending at a time: only the mailbox can refuse.
QueueOoseqCall ==
  /\ TaskLevel /\ npc = "callback"
  /\ IF Len(mbox) < MboxSize
     THEN mbox' = Append(mbox, Ooseq) /\ UNCHANGED oosPending
     ELSE oosPending' = FALSE /\ UNCHANGED mbox
  /\ npc' = "unwind"
  /\ UNCHANGED <<ringVars, dmaVars, poolFree, msgFree, got, cur, cut, tcpVars, isrVars>>

\* "free chain so far allocated", return NULL.
PbufAllocUnwind ==
  /\ TaskLevel /\ npc = "unwind"
  /\ poolFree' = poolFree + got
  /\ got' = 0
  /\ npc' = "free"
  /\ UNCHANGED <<ringVars, dmaVars, msgFree, mbox, oosPending, cur, cut, tcpVars,
                 isrVars>>

\* pbuf_take: the frame is copied out of the DMA buffer.
PbufTake ==
  /\ TaskLevel /\ npc = "take"
  /\ cur' = slot[pDMARxSet]
  /\ got' = 0
  /\ npc' = "free"
  /\ UNCHANGED <<ringVars, dmaVars, memVars, cut, tcpVars, isrVars>>

\* fault: the pointer moves on, the descriptor stays with the CPU
Mut_RecFree ==
  /\ TaskLevel /\ npc = "free"
  /\ pDMARxSet' = NextDesc(pDMARxSet)
  /\ npc' = "poll"
  /\ UNCHANGED <<own, slot, dmaVars, memVars, got, cur, cut, tcpVars, isrVars>>

\* ETH_RecFree, in every case: the descriptor first, then the poll demand.
RecFree ==
  /\ TaskLevel /\ npc = "free"
  /\ GiveBack
  /\ npc' = "poll"
  /\ UNCHANGED <<dmaVars, memVars, got, cur, cut, tcpVars, isrVars>>

\* fault: no poll demand
Mut_RecFreePoll ==
  /\ TaskLevel /\ npc = "poll"
  /\ npc' = IF cur = NoFrame THEN "wait" ELSE "input"
  /\ UNCHANGED <<ringVars, dmaVars, memVars, got, cur, cut, tcpVars, isrVars>>

\* low_level_input returns p; ethernetif_input goes on with it or, on NULL,
\* leaves its loop.
RecFreePoll ==
  /\ TaskLevel /\ npc = "poll"
  /\ ReceivePollDemand
  /\ npc' = IF cur = NoFrame THEN "wait" ELSE "input"
  /\ cut' = (cur = NoFrame)
  /\ UNCHANGED <<ringVars, memVars, got, cur, tcpVars, isrVars>>

\* netif->input is tcpip_inpkt: a message from the pool, then sys_mbox_trypost.
InputMsgAlloc ==
  /\ TaskLevel /\ npc = "input"
  /\ IF msgFree > 0
     THEN msgFree' = msgFree - 1 /\ npc' = "post"
     ELSE msgFree' = msgFree /\ npc' = "inputErr"
  /\ UNCHANGED <<ringVars, dmaVars, poolFree, mbox, oosPending, got, cur, cut, tcpVars,
                 isrVars>>

InputPost ==
  /\ TaskLevel /\ npc = "post" /\ Len(mbox) < MboxSize
  /\ mbox' = Append(mbox, cur)
  /\ cur' = NoFrame
  /\ npc' = "peek"
  /\ UNCHANGED <<ringVars, dmaVars, poolFree, msgFree, oosPending, got, cut, tcpVars,
                 isrVars>>

InputPostFull ==
  /\ TaskLevel /\ npc = "post" /\ Len(mbox) >= MboxSize
  /\ msgFree' = msgFree + 1
  /\ npc' = "inputErr"
  /\ UNCHANGED <<ringVars, dmaVars, poolFree, mbox, oosPending, got, cur, cut, tcpVars,
                 isrVars>>

\* fault: the pbufs of a refused frame are not freed
Mut_InputError ==
  /\ TaskLevel /\ npc = "inputErr"
  /\ cur' = NoFrame
  /\ npc' = "peek"
  /\ UNCHANGED <<ringVars, dmaVars, memVars, got, cut, tcpVars, isrVars>>

\* The error branch of ethernetif_input: pbuf_free(p), then the next frame.
InputError ==
  /\ TaskLevel /\ npc = "inputErr"
  /\ poolFree' = poolFree + cur.pbufs
  /\ cur' = NoFrame
  /\ npc' = "peek"
  /\ UNCHANGED <<ringVars, dmaVars, msgFree, mbox, oosPending, got, cut, tcpVars,
                 isrVars>>

NetifTask ==
  \/ RxTake \/ RxTimeout
  \/ RecPeekNone \/ RecPeekGood \/ RecPeekBad
  \/ PbufAllocOne \/ PbufAllocFail \/ PoolIsEmpty \/ QueueOoseqCall
  \/ PbufAllocUnwind \/ PbufTake \/ RecFree \/ RecFreePoll
  \/ InputMsgAlloc \/ InputPost \/ InputPostFull \/ InputError

-----------------------------------------------------------------------------
(* tcpip_thread and the owners of what it delivers. *)

TcpipFetch ==
  /\ TaskLevel /\ tpc = "fetch" /\ mbox # << >>
  /\ tmsg' = Head(mbox)
  /\ mbox' = Tail(mbox)
  /\ tpc' = "run"
  /\ UNCHANGED <<ringVars, dmaVars, poolFree, msgFree, oosPending, taskVars,
                 app, ooseq, reclaim, last, isrVars>>

\* TCPIP_MSG_INPKT: input_fn (ethernet_input) consumes the frame: it is freed,
\* or kept for a user, or queued out of sequence.
TcpipInput ==
  /\ TaskLevel /\ tpc = "run" /\ tmsg # Ooseq
  /\ last' = tmsg.id
  /\ \/ poolFree' = poolFree + tmsg.pbufs /\ UNCHANGED <<app, ooseq>>
     \/ app' = app \cup {tmsg} /\ UNCHANGED <<poolFree, ooseq>>
     \/ ooseq' = ooseq \cup {tmsg} /\ UNCHANGED <<poolFree, app>>
  /\ tmsg' = NoFrame
  /\ tpc' = "msgfree"
  /\ UNCHANGED <<ringVars, dmaVars, msgFree, mbox, oosPending, taskVars, reclaim,
                 isrVars>>

\* memp_free(MEMP_TCPIP_MSG_INPKT, msg)
TcpipMsgFree ==
  /\ TaskLevel /\ tpc = "msgfree"
  /\ msgFree' = msgFree + 1
  /\ tpc' = "fetch"
  /\ UNCHANGED <<ringVars, dmaVars, poolFree, mbox, oosPending, taskVars, tmsg,
                 app, ooseq, reclaim, last, isrVars>>

\* TCPIP_MSG_CALLBACK: pbuf_free_ooseq lets a further call be queued, then
\* takes the out-of-sequence frames of one connection, if there is one ...
TcpipFreeOoseq ==
  /\ TaskLevel /\ tpc = "run" /\ tmsg = Ooseq
  /\ oosPending' = FALSE
  /\ \E F \in SUBSET ooseq :
       /\ ooseq # {} => F # {}
       /\ ooseq' = ooseq \ F
       /\ reclaim' = F
  /\ tmsg' = NoFrame
  /\ tpc' = "reclaim"
  /\ UNCHANGED <<ringVars, dmaVars, poolFree, msgFree, mbox, taskVars, app, last,
                 isrVars>>

\* ... and frees them one after the other.
TcpipReclaim ==
  /\ TaskLevel /\ tpc = "reclaim"
  /\ \/ /\ reclaim = {} /\ tpc' = "fetch"
        /\ UNCHANGED <<reclaim, poolFree>>
     \/ \E f \in reclaim :
          /\ reclaim' = reclaim \ {f}
          /\ poolFree' = poolFree + f.pbufs
          /\ UNCHANGED tpc
  /\ UNCHANGED <<ringVars, dmaVars, msgFree, mbox, oosPending, taskVars, tmsg, app,
                 ooseq, last, isrVars>>

\* A user, or TCP once the gap is filled, frees a frame it kept.
StackRelease ==
  /\ TaskLevel
  /\ \E f \in app \cup ooseq :
       /\ app' = app \ {f} /\ ooseq' = ooseq \ {f}
       /\ poolFree' = poolFree + f.pbufs
  /\ UNCHANGED <<ringVars, dmaVars, msgFree, mbox, oosPending, taskVars, tpc,
                 tmsg, reclaim, last, isrVars>>

Tcpip == TcpipFetch \/ TcpipInput \/ TcpipMsgFree \/ TcpipFreeOoseq
         \/ TcpipReclaim

RxNext ==
  \/ DmaStart \/ DmaFinish \/ DmaSuspend \/ DmaAutoResume \/ DmaTxDone
  \/ Isr \/ NetifTask \/ Tcpip \/ StackRelease

RxSpec == Init /\ [][RxNext]_vars

\* The round-robin scheduler runs each ready task, the 10 ms wait ends, the
\* interrupt line is served and a transfer once begun completes.
RxFairness ==
  /\ SF_vars(NetifTask)
  /\ SF_vars(Tcpip)
  /\ WF_vars(Isr)
  /\ WF_vars(DmaFinish)

RxFairSpec == RxSpec /\ RxFairness

-----------------------------------------------------------------------------
(* Properties. *)

CpuOwned == {i \in Desc : own[i] = "cpu"}

\* The driver's pointer and the DMA's never drift apart: the descriptors the
\* CPU owns are exactly those from pDMARxSet up to the DMA's position, none or
\* all when the two coincide.  Every ETH_RecPeek / ETH_RecFree interleaving
\* with the DMA keeps it; without it the netif task would poll a descriptor
\* the DMA fills last and reception would stall with frames in the ring.
RingShape == Shape(CpuOwned, pDMARxSet, dmaPtr)

\* From ETH_RecPeek's return to ETH_RecFree.
Holding == npc \in {"alloc", "empty", "callback", "unwind", "take", "free"}

\* ETH_RecPeek's contract, "the caller can safely copy the frame while DMA
\* stays away": while low_level_input works on a descriptor the DMA does not
\* own it, and does not write into its buffer.
DmaStaysAway ==
  Holding => /\ own[pDMARxSet] = "cpu"
             /\ ~(dma = "fill" /\ dmaPtr = pDMARxSet)

\* Frames whose pbufs ethernetif_input and tcpip_thread hold.
InPbufs ==
  ({cur, tmsg} \cup {mbox[i] : i \in DOMAIN mbox}) \ {NoFrame, Ooseq}

\* Elements of the pool a set of frames takes.
Pbufs(F) == Held(F, [f \in F |-> f.pbufs])

\* No pool element is lost or freed twice on any path of pbuf_alloc,
\* tcpip_inpkt, the error branch of ethernetif_input and the ooseq callback.
PbufsConserved ==
  poolFree + got + Pbufs(InPbufs) + Pbufs(app \cup ooseq \cup reclaim)
  = PoolSize

\* The same for the INPKT messages.
MsgsConserved ==
  msgFree + Cardinality({i \in DOMAIN mbox : mbox[i] # Ooseq})
    + (IF npc = "post" THEN 1 ELSE 0)
    + (IF tpc = "msgfree" \/ (tpc = "run" /\ tmsg # Ooseq) THEN 1 ELSE 0)
  = MsgPoolSize

\* Frames come and go on every path, error branches included, and both pools
\* stay whole.
PoolsConserved == PbufsConserved /\ MsgsConserved

\* With the board's sizes (PBUF_POOL_SIZE 10, 12 INPKT messages, mailbox of
\* 16) the pbuf pool runs out first: netif->input never refuses a frame and
\* the error branch of ethernetif_input is not reached.
InputNeverRefused == npc # "inputErr"

\* A frame in the ring is announced: by the semaphore, by the pending
\* interrupt or by the routine serving it.
WakeupPending ==
  \/ rxSem = 1
  \/ {"R", "NIS"} \subseteq dmasr
  \/ isrPc \in {"ais", "clrRbu", "clrAis", "nis"} /\ {"R", "NIS"} \subseteq intSta

\* No frame waits unannounced while the netif task sleeps, wherever the DMA
\* and the interrupt interleave with the drain and with transmit completions.
\* Only a drain cut short by an exhausted pool leaves frames to the timeout.
NoLostWakeup ==
  npc = "wait" /\ ~cut /\ own[pDMARxSet] = "cpu" => WakeupPending

\* Reception implements the frame channel: in order, at most once.
InFlight ==
  {slot[i].id : i \in CpuOwned} \cup {f.id : f \in InPbufs}

Channel == INSTANCE FrameChannel WITH
  sent <- filled, inFlight <- InFlight, out <- last

DeliversInOrder == Channel!ChSpec

\* Whatever the interrupt, the pools and the mailbox do, each descriptor the
\* DMA filled goes back to it: the 10 ms timeout backs a lost wake-up.
DescriptorReturns ==
  \A i \in Desc : own[i] = "cpu" ~> own[i] = "dma"

\* A DMA that ran out of descriptors is restarted by a poll demand as soon as
\* one good frame waits in the ring: ETH_RecFree gives the descriptor back
\* first and polls then, whichever of RBU and the drain comes first.
GoodFrameResumes ==
  dma = "suspended" /\ (\E i \in CpuOwned : slot[i].kind = "ok")
    ~> dma # "suspended"
=============================================================================
