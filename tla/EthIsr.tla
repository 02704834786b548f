------------------------------- MODULE EthIsr -------------------------------
(***************************************************************************)
(* The Ethernet interrupt of the LAN8720A driver: the DMA status register  *)
(* DMASR, the interrupt service routine WCHNET_ETHIsr and the two binary   *)
(* semaphores it gives (ethernetif_rx_signal, ethernetif_tx_signal).       *)
(*                                                                         *)
(* The routine runs above every task but beside the DMA, which keeps       *)
(* raising bits while it runs.  Every access it makes to DMASR, DMARPDR or *)
(* a semaphore is therefore a step of its own.  EthRx and EthTx extend     *)
(* this module, add their half of the DMA and conjoin the effect of the    *)
(* receive poll demand to IsrRbu.                                          *)
(***************************************************************************)

CONSTANT SummaryHeld  \* hardware choice: a write-1 to NIS/AIS while one of
                      \* its sources is pending leaves the summary bit set

ASSUME SummaryHeldAssumption == SummaryHeld \in BOOLEAN

VARIABLES
  dmasr,     \* pending bits of ETH->DMASR, a set
  isrPc,     \* where WCHNET_ETHIsr is, "off" when no interrupt is served
  intSta,    \* its local int_sta: the snapshot of DMASR
  rxSem,     \* count of eth_rx_semaphore (binary)
  txSem      \* count of eth_tx_semaphore (binary)

isrVars == <<dmasr, isrPc, intSta, rxSem, txSem>>

\* The bits ETH_Configuration unmasks.
NormalBits   == {"R", "T"}
AbnormalBits == {"RBU"}
StatusBits   == NormalBits \cup AbnormalBits \cup {"NIS", "AIS"}
IsrPcs       == {"off", "ais", "clrRbu", "clrAis", "nis", "clrR", "txs",
                 "clrT", "clrNis"}

IsrTypeOK ==
  /\ dmasr \subseteq StatusBits
  /\ isrPc \in IsrPcs
  /\ intSta \subseteq StatusBits
  /\ rxSem \in {0, 1}
  /\ txSem \in {0, 1}

IsrInit ==
  /\ dmasr = {}
  /\ isrPc = "off"
  /\ intSta = {}
  /\ rxSem = 0
  /\ txSem = 0

-----------------------------------------------------------------------------
(* Hardware side. *)

\* Status after the DMA latched the event b together with its summary bit.
Latched(b) ==
  dmasr \cup {b, IF b \in NormalBits THEN "NIS" ELSE "AIS"}

\* The ETH interrupt line.
IrqPending == dmasr \cap {"NIS", "AIS"} # {}

Mut_Cleared(b) == {}  \* fault: every pending bit is written back

\* ETH_DMAClearITPendingBit: the write-1-to-clear of one DMASR bit.  A
\* summary bit may be re-evaluated from its sources by the hardware.
Cleared(b) ==
  LET source == CASE b = "NIS" -> NormalBits
                  [] b = "AIS" -> AbnormalBits
                  [] OTHER     -> {}
  IN  IF SummaryHeld /\ source \cap dmasr # {} THEN dmasr ELSE dmasr \ {b}

-----------------------------------------------------------------------------
(* WCHNET_ETHIsr. *)

\* Tasks run only while no interrupt is served.
TaskLevel == isrPc = "off"

\* int_sta = ETH->DMASR
IsrEnter ==
  /\ isrPc = "off" /\ IrqPending
  /\ intSta' = dmasr
  /\ isrPc' = "ais"
  /\ UNCHANGED <<dmasr, rxSem, txSem>>

\* AIS and RBU: the routine writes DMARPDR (conjoined by the user module).
IsrRbu ==
  /\ isrPc = "ais" /\ {"AIS", "RBU"} \subseteq intSta
  /\ isrPc' = "clrRbu"
  /\ UNCHANGED <<dmasr, intSta, rxSem, txSem>>

\* The abnormal branch without RBU, or not taken at all.
IsrNoRbu ==
  /\ isrPc = "ais" /\ ~({"AIS", "RBU"} \subseteq intSta)
  /\ isrPc' = IF "AIS" \in intSta THEN "clrAis" ELSE "nis"
  /\ UNCHANGED <<dmasr, intSta, rxSem, txSem>>

\* int_sta is dead once the routine returns; the model forgets it there.
Left(next) == IF next = "off" THEN {} ELSE intSta

IsrClear(at, b, next) ==
  /\ isrPc = at
  /\ dmasr' = Cleared(b)
  /\ isrPc' = next
  /\ intSta' = Left(next)
  /\ UNCHANGED <<rxSem, txSem>>

\* ethernetif_rx_signal and ethernetif_tx_signal: giving a full binary
\* semaphore is a no-op, so the count is 1 afterwards either way.
RxSignal == rxSem' = 1
TxSignal == txSem' = 1

\* if(int_sta & NIS) if(int_sta & R) ethernetif_rx_signal()
IsrNis ==
  /\ isrPc = "nis"
  /\ IF "NIS" \notin intSta
     THEN isrPc' = "off" /\ rxSem' = rxSem
     ELSE IF "R" \in intSta
          THEN isrPc' = "clrR" /\ RxSignal
          ELSE isrPc' = "txs" /\ rxSem' = rxSem
  /\ intSta' = Left(isrPc')
  /\ UNCHANGED <<dmasr, txSem>>

\* if(int_sta & T) ethernetif_tx_signal()
IsrTx ==
  /\ isrPc = "txs"
  /\ IF "T" \in intSta
     THEN isrPc' = "clrT" /\ TxSignal
     ELSE isrPc' = "clrNis" /\ txSem' = txSem
  /\ UNCHANGED <<dmasr, intSta, rxSem>>

\* Every step of the routine but the receive poll demand.
IsrStep ==
  \/ IsrEnter
  \/ IsrNoRbu
  \/ IsrClear("clrRbu", "RBU", "clrAis")
  \/ IsrClear("clrAis", "AIS", "nis")
  \/ IsrNis
  \/ IsrClear("clrR", "R", "txs")
  \/ IsrTx
  \/ IsrClear("clrT", "T", "clrNis")
  \/ IsrClear("clrNis", "NIS", "off")
=============================================================================
