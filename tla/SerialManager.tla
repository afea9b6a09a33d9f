---------------------------- MODULE SerialManager ----------------------------
(***************************************************************************)
(* The serial manager (SerialManager.c) on the USART driver                *)
(* (UART_Adapter.c), as this program builds them: bare metal, one          *)
(* interface, senders that spin when the transmit ring is full             *)
(* (gSerialMgr_BlockSenderOnQueueFull_c without OS semaphores).            *)
(*                                                                         *)
(* One thread runs the writers and SerialManagerTask, one after the other; *)
(* the interrupt of the USART comes between any two of its steps.  Three   *)
(* indices go round the transmit ring: txIn where writers put blocks,      *)
(* txCurrent which the interrupt advances as blocks go out, and txOut      *)
(* which maintenance advances as it releases them.  A section with         *)
(* interrupts disabled, and an interrupt, are one step.                    *)
(*                                                                         *)
(* The w-th block written is w and the b-th byte received is b.            *)
(***************************************************************************)
EXTENDS Naturals, FiniteSets

CONSTANTS
    gSerialMgrTxQueueSize_c,
    gSerialMgrRxBufSize_c,
    MaxWrites,   \* bound: blocks written in a behaviour
    MaxBytes,    \* bound: bytes received in a behaviour
    Length,      \* of each block, in bytes
    ReadSizes    \* how many bytes the receive callback asks for at a time

ASSUME SerialAssumption ==
    /\ gSerialMgrTxQueueSize_c \in Nat \ {0}
    /\ gSerialMgrRxBufSize_c \in Nat \ {0}
    /\ MaxWrites \in Nat
    /\ MaxBytes \in Nat
    /\ Length \in [1 .. MaxWrites -> Nat \ {0}]
    /\ ReadSizes \subseteq Nat \ {0}

gSMRxBufSize_c == gSerialMgrRxBufSize_c + 1

Slots   == 0 .. gSerialMgrTxQueueSize_c - 1
Cells   == 0 .. gSMRxBufSize_c - 1
Writers == {"Serial_Print", "Serial_SyncWrite"}

VARIABLES
    dataSize, txCallback, pData,      \* of each slot of txQueue; a slot's
                                      \* txCallback is set or NULL
    txIn, txOut, txCurrent, txNo,
    state,                            \* 1 while a transmission is under way
    txSize, txData, txFifo, txLevel,  \* the driver: bytes left of which block, a
                                      \* byte in the FIFO, interrupt enabled
    events, signalled,                \* of the interface, and the task's event
    rxBuffer, rxIn, rxOut,
    pc, caller, ev, bytes,            \* the thread, and its local variables
    writes, received, read,           \* history: the last block written, byte
                                      \* received, byte read
    sent,                             \* history: last block sent from, bytes of it
    releases                          \* history: how often each block was released

ring   == <<dataSize, txCallback, pData, txIn, txOut, txCurrent, txNo>>
driver == <<txSize, txData, txFifo, txLevel, sent>>
rx     == <<rxBuffer, rxIn, rxOut, received, read>>
signal == <<events, signalled>>
locals == <<caller, ev, bytes>>
vars   == <<ring, state, driver, rx, signal, pc, locals, writes, releases>>

TypeOK ==
    /\ dataSize \in [Slots -> Nat]
    /\ txCallback \in [Slots -> BOOLEAN]
    /\ pData \in [Slots -> 0 .. MaxWrites]
    /\ txIn \in Slots /\ txOut \in Slots /\ txCurrent \in Slots
    /\ txNo \in 0 .. gSerialMgrTxQueueSize_c
    /\ state \in {0, 1}
    /\ txSize \in Nat /\ txData \in 0 .. MaxWrites
    /\ txFifo \in BOOLEAN /\ txLevel \in BOOLEAN
    /\ events \subseteq {"Rx", "TxDone"} /\ signalled \in BOOLEAN
    /\ rxBuffer \in [Cells -> 0 .. MaxBytes] /\ rxIn \in Cells /\ rxOut \in Cells
    /\ pc \in {"idle", "take", "maintain", "start", "send", "enable", "wait", "drain",
               "events", "count", "copy", "restart"}
    /\ caller \in Writers \cup {"SerialManagerTask"}
    /\ ev \subseteq {"Rx", "TxDone"}
    /\ bytes \in Nat
    /\ writes \in 0 .. MaxWrites /\ received \in 0 .. MaxBytes /\ read \in 0 .. MaxBytes
    /\ sent \in [block : 0 .. MaxWrites, bytes : Nat]
    /\ releases \in [1 .. MaxWrites -> Nat]

\* mSerial_IncIdx_d
Inc(idx, max) == IF idx + 1 >= max THEN 0 ELSE idx + 1

\* SerialManager_Init and Serial_InitInterface.
Init ==
    /\ dataSize = [i \in Slots |-> 0]
    /\ txCallback = [i \in Slots |-> FALSE]
    /\ pData = [i \in Slots |-> 0]
    /\ txIn = 0 /\ txOut = 0 /\ txCurrent = 0 /\ txNo = 0
    /\ state = 0
    /\ txSize = 0 /\ txData = 0 /\ txFifo = FALSE /\ txLevel = FALSE
    /\ events = {} /\ signalled = FALSE
    /\ rxBuffer = [i \in Cells |-> 0] /\ rxIn = 0 /\ rxOut = 0
    /\ pc = "idle" /\ caller = "SerialManagerTask" /\ ev = {} /\ bytes = 0
    /\ writes = 0 /\ received = 0 /\ read = 0
    /\ sent = [block |-> 0, bytes |-> 0]
    /\ releases = [w \in 1 .. MaxWrites |-> 0]

Release(w) == releases' = [releases EXCEPT ![w] = @ + 1]

-----------------------------------------------------------------------------
(* Writing.  Serial_Print copies its string to a buffer that the callback  *)
(* of the slot frees; Serial_SyncWrite lends its caller's, which is the    *)
(* caller's again when the call returns.                                   *)

Call(f) ==
    /\ pc = "idle"
    /\ writes < MaxWrites
    /\ writes' = writes + 1
    /\ caller' = f
    /\ pc' = "take"
    /\ UNCHANGED <<ring, state, driver, rx, signal, ev, bytes, releases>>

\* The count is not consulted.
FreeByTheLooks ==
    /\ dataSize[txIn] = 0
    /\ ~txCallback[txIn]

SlotIsFree ==
    /\ dataSize[txIn] = 0
    /\ ~txCallback[txIn]
    /\ txNo < gSerialMgrTxQueueSize_c

\* The ring is tried with interrupts disabled.
TakeSlot ==
    /\ pc = "take"
    /\ SlotIsFree
    /\ dataSize' = [dataSize EXCEPT ![txIn] = Length[writes]]
    /\ pData' = [pData EXCEPT ![txIn] = writes]
    /\ txCallback' = [txCallback EXCEPT ![txIn] = caller = "Serial_Print"]
    /\ txIn' = Inc(txIn, gSerialMgrTxQueueSize_c)
    /\ txNo' = txNo + 1
    /\ pc' = "start"
    /\ UNCHANGED <<txOut, txCurrent, state, driver, rx, signal, locals, writes, releases>>

\* The sender does the maintenance itself until there is a slot.
RingIsFull ==
    /\ pc = "take"
    /\ ~SlotIsFree
    /\ pc' = "maintain"
    /\ UNCHANGED <<ring, state, driver, rx, signal, locals, writes, releases>>

\* Serial_SyncWrite: while(pSer->state), then while(USART_IsTxActive()).
WaitForState ==
    /\ pc = "wait"
    /\ state = 0
    /\ pc' = "drain"
    /\ UNCHANGED <<ring, state, driver, rx, signal, locals, writes, releases>>

SyncWriteReturns ==
    /\ pc = "drain"
    /\ txSize = 0 /\ ~txFifo
    /\ Release(writes)
    /\ pc' = "idle"
    /\ UNCHANGED <<ring, state, driver, rx, signal, locals, writes>>

-----------------------------------------------------------------------------
(* Starting a transmission.                                                *)

\* USART_WriteByte
Fetch(w) ==
    /\ txFifo' = TRUE
    /\ sent' = [block |-> w, bytes |-> IF sent.block = w THEN sent.bytes + 1 ELSE 1]

\* USART_SendData, when it is not busy: the first byte of the block in the
\* slot goes out, the interrupt does the rest.
USART_SendData(i) ==
    /\ txSize' = dataSize[i] - 1
    /\ txData' = pData[i]
    /\ Fetch(pData[i])

AfterWrite == pc' = IF caller = "Serial_SyncWrite" THEN "wait" ELSE "idle"

\* Serial_WriteInternal: whoever finds the interface idle starts it, the
\* others leave their block to the interrupt.
Start ==
    /\ pc = "start"
    /\ IF state = 0 THEN state' = 1 /\ pc' = "send"
                    ELSE AfterWrite /\ UNCHANGED state
    /\ UNCHANGED <<ring, driver, rx, signal, locals, writes, releases>>

\* The interrupt may have sent the block since it was put in the ring.
NothingToSend ==
    /\ pc = "send"
    /\ dataSize[txCurrent] = 0
    /\ state' = 0
    /\ AfterWrite
    /\ UNCHANGED <<ring, driver, rx, signal, locals, writes, releases>>

\* A busy driver makes Serial_WriteInternal fail, and Serial_Print free a
\* buffer that stays in the ring.
Send ==
    /\ pc = "send"
    /\ dataSize[txCurrent] > 0
    /\ IF txSize > 0
          THEN /\ state' = 0
               /\ signalled' = TRUE
               /\ AfterWrite
               /\ IF caller = "Serial_Print" THEN Release(writes) ELSE UNCHANGED releases
               /\ UNCHANGED driver
          ELSE /\ ~txFifo
               /\ USART_SendData(txCurrent)
               /\ pc' = "enable"
               /\ UNCHANGED <<state, txLevel, signalled, releases>>
    /\ UNCHANGED <<ring, rx, events, locals, writes>>

\* USART_EnableInterrupts comes after the interrupts of the processor are on.
EnableTxLevel ==
    /\ pc = "enable"
    /\ txLevel' = TRUE
    /\ AfterWrite
    /\ UNCHANGED <<ring, state, txSize, txData, txFifo, sent, rx, signal, locals,
                   writes, releases>>

-----------------------------------------------------------------------------
(* Serial_TxQueueMaintenance, by a blocked sender or by the task.          *)

AfterMaintenance ==
    IF caller = "SerialManagerTask" THEN pc' = "restart" ELSE pc' = "take"

\* The size of the oldest slot is not looked at.
ReleaseUnsent ==
    /\ pc = "maintain"
    /\ txNo > 0
    /\ txNo' = txNo - 1
    /\ txOut' = Inc(txOut, gSerialMgrTxQueueSize_c)
    /\ IF txCallback[txOut] THEN Release(pData[txOut]) ELSE UNCHANGED releases
    /\ txCallback' = [txCallback EXCEPT ![txOut] = FALSE]
    /\ IF txOut' = txIn THEN AfterMaintenance ELSE UNCHANGED pc
    /\ UNCHANGED <<dataSize, pData, txIn, txCurrent, state, driver, rx, signal,
                   locals, writes>>

\* The oldest slot has been sent: it is free again.  The interrupt shares
\* only dataSize with this.
ReleaseSlot ==
    /\ pc = "maintain"
    /\ dataSize[txOut] = 0
    /\ txNo > 0
    /\ txNo' = txNo - 1
    /\ txOut' = Inc(txOut, gSerialMgrTxQueueSize_c)
    /\ IF txCallback[txOut] THEN Release(pData[txOut]) ELSE UNCHANGED releases
    /\ txCallback' = [txCallback EXCEPT ![txOut] = FALSE]
    /\ IF txOut' = txIn THEN AfterMaintenance ELSE UNCHANGED pc
    /\ UNCHANGED <<dataSize, pData, txIn, txCurrent, state, driver, rx, signal,
                   locals, writes>>

NothingToRelease ==
    /\ pc = "maintain"
    /\ dataSize[txOut] > 0 \/ txNo = 0
    /\ AfterMaintenance
    /\ UNCHANGED <<ring, state, driver, rx, signal, locals, writes, releases>>

-----------------------------------------------------------------------------
(* SerialManagerTask.  It runs when its event is set, and may run once     *)
(* more: OSA_EventWait returns whether or not the event was set.           *)

RunTask ==
    /\ pc = "idle"
    /\ signalled' = FALSE
    /\ caller' = "SerialManagerTask"
    /\ pc' = "events"
    /\ UNCHANGED <<ring, state, driver, rx, events, ev, bytes, writes, releases>>

AfterRx(taken) == IF "TxDone" \in taken THEN "maintain" ELSE "restart"

TakeEvents ==
    /\ pc = "events"
    /\ ev' = events
    /\ events' = {}
    /\ pc' = IF "Rx" \in events THEN "count" ELSE AfterRx(events)
    /\ UNCHANGED <<ring, state, driver, rx, signalled, caller, bytes, writes, releases>>

\* A slot whose block nobody started.
Restart ==
    /\ pc = "restart"
    /\ pc' = IF state = 0 /\ dataSize[txCurrent] > 0 THEN "start" ELSE "idle"
    /\ UNCHANGED <<ring, state, driver, rx, signal, locals, writes, releases>>

Serial_RxBufferByteCount ==
    IF rxIn >= rxOut THEN rxIn - rxOut ELSE gSMRxBufSize_c - rxOut + rxIn

\* A receive callback that calls Serial_Read until nothing is left.
CountBytes ==
    /\ pc = "count"
    /\ \E dataAsked \in ReadSizes :
          bytes' = IF Serial_RxBufferByteCount > dataAsked THEN dataAsked
                                                           ELSE Serial_RxBufferByteCount
    /\ pc' = IF Serial_RxBufferByteCount = 0 THEN AfterRx(ev) ELSE "copy"
    /\ UNCHANGED <<ring, state, driver, rx, signal, caller, ev, writes, releases>>

CopyByte ==
    /\ pc = "copy"
    /\ read' = rxBuffer[rxOut]
    /\ rxOut' = Inc(rxOut, gSMRxBufSize_c)
    /\ bytes' = bytes - 1
    /\ pc' = IF bytes = 1 THEN "count" ELSE "copy"
    /\ UNCHANGED <<ring, state, driver, rxBuffer, rxIn, received, signal, caller, ev,
                   writes, releases>>

-----------------------------------------------------------------------------
(* The USART and its interrupt.                                            *)

\* The FIFO empties onto the line.
UsartShifts ==
    /\ txFifo
    /\ txFifo' = FALSE
    /\ UNCHANGED <<ring, state, txSize, txData, txLevel, sent, rx, signal, pc, locals,
                   writes, releases>>

FifoInterrupt == txLevel /\ ~txFifo

\* USART_ISR, a block under way.
UsartTxByte ==
    /\ FifoInterrupt
    /\ txSize > 0
    /\ txSize' = txSize - 1
    /\ Fetch(txData)
    /\ UNCHANGED <<ring, state, txData, txLevel, rx, signal, pc, locals, writes, releases>>

\* Signal the task unless the event is there already.
Notify(e) ==
    /\ events' = events \cup {e}
    /\ signalled' = (signalled \/ e \notin events)

\* The block stays marked as waiting.
KeepSize ==
    /\ FifoInterrupt
    /\ txSize = 0
    /\ txCurrent' = Inc(txCurrent, gSerialMgrTxQueueSize_c)
    /\ IF dataSize[txCurrent'] > 0
          THEN /\ state' = 1
               /\ USART_SendData(txCurrent')
               /\ UNCHANGED txLevel
          ELSE /\ state' = 0
               /\ txLevel' = FALSE
               /\ UNCHANGED <<txSize, txData, txFifo, sent>>
    /\ Notify("TxDone")
    /\ UNCHANGED <<dataSize, txCallback, pData, txIn, txOut, txNo, rx, pc, locals, writes,
                   releases>>

\* USART_ISR at the end of a block: SerialManager_TxNotify frees the slot for
\* maintenance and starts the block of the next one, if there is one.
UsartTxEnds ==
    /\ FifoInterrupt
    /\ txSize = 0
    /\ dataSize' = [dataSize EXCEPT ![txCurrent] = 0]
    /\ txCurrent' = Inc(txCurrent, gSerialMgrTxQueueSize_c)
    /\ IF dataSize'[txCurrent'] > 0
          THEN /\ state' = 1
               /\ USART_SendData(txCurrent')
               /\ UNCHANGED txLevel
          ELSE /\ state' = 0
               /\ txLevel' = FALSE
               /\ UNCHANGED <<txSize, txData, txFifo, sent>>
    /\ Notify("TxDone")
    /\ UNCHANGED <<txCallback, pData, txIn, txOut, txNo, rx, pc, locals, writes, releases>>

\* SerialManager_RxNotify signals only if no event at all is noted.
NotifyRx ==
    /\ events' = events \cup {"Rx"}
    /\ signalled' = (signalled \/ events = {})

\* Mutant: a full buffer looks empty once the new byte is in.
KeepOldest ==
    /\ rxIn' = Inc(rxIn, gSMRxBufSize_c)
    /\ UNCHANGED rxOut

\* SerialManager_RxNotify: a full buffer loses its oldest byte.
AdvanceRx ==
    /\ rxIn' = Inc(rxIn, gSMRxBufSize_c)
    /\ rxOut' = IF rxIn' = rxOut THEN Inc(rxOut, gSMRxBufSize_c) ELSE rxOut

\* USART_ISR stores the byte and notifies.
UsartRxByte ==
    /\ received < MaxBytes
    /\ received' = received + 1
    /\ rxBuffer' = [rxBuffer EXCEPT ![rxIn] = received + 1]
    /\ AdvanceRx
    /\ NotifyRx
    /\ UNCHANGED <<read, ring, state, driver, pc, locals, writes, releases>>

-----------------------------------------------------------------------------

\* What the thread does once it has been called.
Thread ==
    \/ TakeSlot \/ RingIsFull \/ WaitForState \/ SyncWriteReturns
    \/ Start \/ NothingToSend \/ Send \/ EnableTxLevel
    \/ ReleaseSlot \/ NothingToRelease
    \/ TakeEvents \/ Restart \/ CountBytes \/ CopyByte

Interrupt == UsartTxByte \/ UsartTxEnds

Next ==
    \/ \E f \in Writers : Call(f)
    \/ Thread
    \/ RunTask
    \/ UsartShifts
    \/ Interrupt
    \/ UsartRxByte

\* The processor goes on, the USART empties its FIFO and is served, and the
\* scheduler calls a task whose event is set.
Fairness ==
    /\ WF_vars(Thread)
    /\ WF_vars(UsartShifts)
    /\ WF_vars(Interrupt)
    /\ WF_vars(signalled /\ RunTask)

Spec     == Init /\ [][Next]_vars
FairSpec == Spec /\ Fairness

-----------------------------------------------------------------------------
(* Properties.                                                             *)

\* The bytes go out in the order they were written, whether the thread or
\* the interrupt starts a block: each follows the one before it in its block,
\* or begins the next block after the whole of the last one.
SendsInOrder ==
    [][ sent' # sent =>
          \/ /\ sent.block > 0 /\ sent.bytes < Length[sent.block]
             /\ sent' = [sent EXCEPT !.bytes = @ + 1]
          \/ /\ sent.block > 0 => sent.bytes = Length[sent.block]
             /\ sent' = [block |-> sent.block + 1, bytes |-> 1] ]_vars

\* The driver has read all of w.
HasBeenSent(w) ==
    \/ w < sent.block
    \/ w = sent.block /\ sent.bytes = Length[w]

\* A buffer is freed, or is its caller's again, once, and not before its last
\* byte was sent, although the driver reads it long after the write returned.
BuffersAreHeld ==
    \A w \in 1 .. MaxWrites : releases[w] <= IF HasBeenSent(w) THEN 1 ELSE 0

\* A byte read is the oldest still there: none is read twice or out of order,
\* and only those are lost that a full buffer has no room for, also when the
\* interrupt adds a byte, and drops one, between the count and the copy.
ReadsInOrder ==
    [][ read' # read =>
          read' = IF received > read + gSerialMgrRxBufSize_c
                     THEN received - gSerialMgrRxBufSize_c + 1
                     ELSE read + 1 ]_vars

\* Every block written is sent and released, with no task waiting for ever in
\* a write, and every byte received is read or overwritten by one that is.
EverythingIsServed ==
    /\ \A w \in 1 .. MaxWrites : (writes >= w) ~> (releases[w] = 1)
    /\ \A b \in 1 .. MaxBytes : (received >= b) ~> (read >= b)
=============================================================================
