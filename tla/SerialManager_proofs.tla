------------------------ MODULE SerialManager_proofs ------------------------
(***************************************************************************)
(* Proofs about SerialManager: the transmit ring sends the blocks in the   *)
(* order they were written, no buffer is released before it was sent or    *)
(* twice, and the receive ring gives the bytes in order, whatever the      *)
(* sizes of the rings, the lengths of the blocks and the interleaving of   *)
(* the thread with the interrupt.                                          *)
(***************************************************************************)
EXTENDS SerialManager, TLAPS

N == gSerialMgrTxQueueSize_c

\* The thread has a block, number writes, that is not in the ring yet.
Putting == caller \in Writers /\ pc \in {"take", "maintain"}

\* Blocks put in the ring, and blocks taken out of it by maintenance.
Taken == IF Putting THEN writes - 1 ELSE writes
Freed == Taken - txNo

\* The driver has been given a block and has not reported its end.
InBlock == txLevel \/ pc = "enable"

\* Blocks whose end the driver has reported.
Done == IF InBlock THEN sent.block - 1 ELSE sent.block

\* Slot i is the Rel(i)-th from the oldest; Pos(d) is d slots from it.
Rel(i) == IF i >= txOut THEN i - txOut ELSE i + N - txOut
Pos(d) == IF txOut + d >= N THEN txOut + d - N ELSE txOut + d

\* Who can be where.
FlowInv ==
    /\ pc = "take" => caller \in Writers
    /\ caller \in Writers => writes >= 1
    /\ pc \in {"wait", "drain"} => caller = "Serial_SyncWrite"
    /\ pc \in {"events", "count", "copy", "restart"} => caller = "SerialManagerTask"

\* The ring holds the blocks Freed + 1 .. Taken from txOut to txIn, those up
\* to Done are sent, and every other slot is free.
RingInv ==
    /\ txNo <= Taken
    /\ Freed <= Done
    /\ Done <= Taken
    /\ txIn = Pos(txNo)
    /\ txCurrent = Pos(Done - Freed)
    /\ \A i \in Slots : Rel(i) < txNo => pData[i] = Freed + 1 + Rel(i)
    /\ \A i \in Slots : dataSize[i] = IF Rel(i) < txNo /\ Done - Freed <= Rel(i)
                                         THEN Length[Freed + 1 + Rel(i)] ELSE 0
    /\ \A i \in Slots : txNo <= Rel(i) => ~txCallback[i]

\* The driver and state agree on whether a block is going out; when none is,
\* every block in the ring has gone, unless the thread is about to see to it.
DriverInv ==
    /\ state = 1 <=> InBlock \/ pc = "send"
    /\ pc \in {"send", "enable"} => ~txLevel
    /\ InBlock => /\ sent.block >= 1 /\ sent.block <= Taken
                  /\ txData = sent.block
                  /\ sent.bytes >= 1
                  /\ sent.bytes + txSize = Length[sent.block]
    /\ ~InBlock => /\ txSize = 0
                   /\ sent.block >= 1 => sent.bytes = Length[sent.block]
                   /\ pc \notin {"start", "send"} => Done = Taken
    /\ pc = "drain" => state = 0

\* The block a Serial_SyncWrite has in the ring.
Lending == caller = "Serial_SyncWrite" /\ pc \in {"start", "send", "enable", "wait", "drain"}

\* Only what is done is released, and what a callback will release is not.
ReleaseInv ==
    /\ \A w \in 1 .. MaxWrites : releases[w] <= 1
    /\ \A w \in 1 .. MaxWrites : w > Done => releases[w] = 0
    /\ \A i \in Slots : Rel(i) < txNo /\ txCallback[i] => releases[pData[i]] = 0
    /\ Lending => releases[writes] = 0
    /\ Lending => \A i \in Slots : Rel(i) < txNo /\ pData[i] = writes => ~txCallback[i]

Used == Serial_RxBufferByteCount

RxRel(i) == IF i >= rxOut THEN i - rxOut ELSE i + gSMRxBufSize_c - rxOut

\* The receive ring holds the last Used bytes received, oldest first: all
\* that were not read, or as many as there is room for.
RxInv ==
    /\ \A i \in Cells : RxRel(i) < Used => rxBuffer[i] = received - Used + 1 + RxRel(i)
    /\ received - Used = IF received > read + gSerialMgrRxBufSize_c
                            THEN received - gSerialMgrRxBufSize_c ELSE read
    /\ pc = "copy" => 1 <= bytes /\ bytes <= Used

SerialInv ==
    /\ TypeOK /\ FlowInv /\ RingInv /\ DriverInv /\ ReleaseInv /\ RxInv
-----------------------------------------------------------------------------
(* Type correctness.                                                       *)

LEMMA SerialInit == Init => SerialInv
<1> SUFFICES ASSUME Init PROVE SerialInv
  OBVIOUS
<1>1. TypeOK
  <2>1. 0 \in Slots /\ 0 \in Cells
    BY SerialAssumption DEF Slots, Cells, gSMRxBufSize_c
  <2>2. txCallback \in [Slots -> BOOLEAN]
    BY DEF Init
  <2>3. /\ dataSize \in [Slots -> Nat] /\ pData \in [Slots -> 0 .. MaxWrites]
        /\ rxBuffer \in [Cells -> 0 .. MaxBytes] /\ releases \in [1 .. MaxWrites -> Nat]
    BY SerialAssumption DEF Init
  <2>4. sent \in [block : 0 .. MaxWrites, bytes : Nat]
    BY SerialAssumption DEF Init
  <2>5. /\ txIn \in Slots /\ txOut \in Slots /\ txCurrent \in Slots
        /\ rxIn \in Cells /\ rxOut \in Cells
    BY <2>1 DEF Init
  <2>6. /\ txNo \in 0 .. gSerialMgrTxQueueSize_c /\ state \in {0, 1}
        /\ txSize \in Nat /\ txData \in 0 .. MaxWrites /\ bytes \in Nat
        /\ writes \in 0 .. MaxWrites /\ received \in 0 .. MaxBytes /\ read \in 0 .. MaxBytes
    BY SerialAssumption DEF Init
  <2>7. /\ txFifo \in BOOLEAN /\ txLevel \in BOOLEAN /\ signalled \in BOOLEAN
        /\ events \subseteq {"Rx", "TxDone"} /\ ev \subseteq {"Rx", "TxDone"}
        /\ pc = "idle" /\ caller = "SerialManagerTask"
    BY DEF Init
  <2> QED
    BY <2>2, <2>3, <2>4, <2>5, <2>6, <2>7 DEF TypeOK
<1>2. FlowInv
  BY DEF Init, FlowInv, Writers
<1>3. Taken = 0 /\ Done = 0 /\ ~InBlock /\ Freed = 0
  BY DEF Init, Taken, Putting, Done, InBlock, Freed, Writers
<1>4. RingInv
  BY <1>3, SerialAssumption DEF Init, RingInv, Pos, Rel, N, Slots
<1>5. DriverInv
  BY <1>3 DEF Init, DriverInv
<1>6. ReleaseInv
  BY <1>3, SerialAssumption DEF Init, ReleaseInv, Lending
<1>7. RxInv
  <2>1. Used = 0 /\ \A i \in Cells : ~(RxRel(i) < 0)
    BY SerialAssumption DEF Init, Used, Serial_RxBufferByteCount, RxRel, Cells, gSMRxBufSize_c
  <2> QED
    BY <2>1, SerialAssumption DEF Init, RxInv
<1> QED
  BY <1>1, <1>2, <1>4, <1>5, <1>6, <1>7 DEF SerialInv

LEMMA IncIsASlot == ASSUME NEW n \in Nat \ {0}, NEW i \in 0 .. n - 1
                    PROVE  Inc(i, n) \in 0 .. n - 1
  BY DEF Inc

LEMMA IncIsACell == ASSUME NEW i \in Cells PROVE Inc(i, gSMRxBufSize_c) \in Cells
<1>1. gSMRxBufSize_c \in Nat \ {0}
  BY SerialAssumption DEF gSMRxBufSize_c
<1> QED
  BY <1>1, IncIsASlot DEF Cells

LEMMA ReleaseTypes ==
    ASSUME TypeOK, NEW w \in 0 .. MaxWrites, Release(w)
    PROVE  releases' \in [1 .. MaxWrites -> Nat]
<1>1. \A v \in 1 .. MaxWrites : releases[v] \in Nat /\ releases[v] + 1 \in Nat
  <2>1. releases \in [1 .. MaxWrites -> Nat]
    BY DEF TypeOK
  <2> QED
    BY <2>1
<1>2. \A v \in 1 .. MaxWrites : releases'[v] = IF v = w THEN releases[v] + 1 ELSE releases[v]
  BY DEF TypeOK, Release
<1>3. releases' = [v \in 1 .. MaxWrites |-> releases'[v]]
  BY DEF TypeOK, Release
<1> QED
  BY <1>1, <1>2, <1>3

LEMMA FetchTypes ==
    ASSUME TypeOK, NEW w \in 0 .. MaxWrites, Fetch(w)
    PROVE  txFifo' \in BOOLEAN /\ sent' \in [block : 0 .. MaxWrites, bytes : Nat]
  BY DEF TypeOK, Fetch

LEMMA SendDataTypes ==
    ASSUME TypeOK, NEW i \in Slots, dataSize[i] > 0, USART_SendData(i)
    PROVE  /\ txSize' \in Nat /\ txData' \in 0 .. MaxWrites
           /\ txFifo' \in BOOLEAN /\ sent' \in [block : 0 .. MaxWrites, bytes : Nat]
<1>1. pData[i] \in 0 .. MaxWrites /\ dataSize[i] \in Nat
  BY DEF TypeOK
<1> QED
  BY <1>1, FetchTypes DEF USART_SendData

LEMMA TypeStep == SerialInv /\ [Next]_vars => TypeOK'
<1> SUFFICES ASSUME SerialInv, [Next]_vars PROVE TypeOK'
  OBVIOUS
<1> USE SerialAssumption DEF SerialInv, TypeOK, FlowInv
<1>1. ASSUME NEW f \in Writers, Call(f) PROVE TypeOK'
  <2>1. /\ writes' \in 0 .. MaxWrites /\ pc' = "take"
        /\ caller' \in Writers \cup {"SerialManagerTask"}
    BY <1>1 DEF Call
  <2>2. UNCHANGED <<ring, state, driver, rx, signal, ev, bytes, releases>>
    BY <1>1 DEF Call
  <2> QED
    BY <2>1, <2>2 DEF ring, driver, rx, signal
<1>2. CASE TakeSlot
  <2>1. Inc(txIn, gSerialMgrTxQueueSize_c) \in Slots
    BY IncIsASlot DEF Slots
  <2>2. Length[writes] \in Nat /\ writes \in 1 .. MaxWrites
    BY <1>2 DEF TakeSlot
  <2>3. txCallback' \in [Slots -> BOOLEAN]
    BY <1>2 DEF TakeSlot
  <2>4. dataSize' \in [Slots -> Nat] /\ pData' \in [Slots -> 0 .. MaxWrites]
    BY <1>2, <2>2 DEF TakeSlot
  <2>5. txIn' \in Slots /\ txNo' \in 0 .. gSerialMgrTxQueueSize_c /\ pc' = "start"
    BY <1>2, <2>1 DEF TakeSlot, SlotIsFree
  <2>6. UNCHANGED <<txOut, txCurrent, state, driver, rx, signal, locals, writes, releases>>
    BY <1>2 DEF TakeSlot
  <2> QED
    BY <2>3, <2>4, <2>5, <2>6 DEF driver, rx, signal, locals
<1>3. CASE RingIsFull \/ WaitForState \/ Start \/ NothingToSend \/ Restart
           \/ NothingToRelease
  BY <1>3 DEF RingIsFull, WaitForState, Start, NothingToSend, Restart, NothingToRelease,
              AfterWrite, AfterMaintenance, ring, driver, rx, signal, locals
<1>4. CASE SyncWriteReturns
  <2>1. releases' \in [1 .. MaxWrites -> Nat]
    BY <1>4, ReleaseTypes DEF SyncWriteReturns
  <2> QED
    BY <1>4, <2>1 DEF SyncWriteReturns, ring, driver, rx, signal, locals
<1>5. CASE Send
  <2>1. releases' \in [1 .. MaxWrites -> Nat]
    BY <1>5, ReleaseTypes DEF Send
  <2>2. state' \in {0, 1} /\ signalled' \in BOOLEAN
    BY <1>5 DEF Send
  <2>3. pc' \in {"enable", "wait", "idle"}
    BY <1>5 DEF Send, AfterWrite
  <2>4. /\ txSize' \in Nat /\ txData' \in 0 .. MaxWrites /\ txFifo' \in BOOLEAN
        /\ txLevel' \in BOOLEAN /\ sent' \in [block : 0 .. MaxWrites, bytes : Nat]
    BY <1>5, SendDataTypes DEF Send, driver
  <2> QED
    BY <1>5, <2>1, <2>2, <2>3, <2>4 DEF Send, ring, rx, locals
<1>6. CASE EnableTxLevel
  BY <1>6 DEF EnableTxLevel, AfterWrite, ring, rx, signal, locals
<1>7. CASE ReleaseSlot
  <2>1. Inc(txOut, gSerialMgrTxQueueSize_c) \in Slots
    BY IncIsASlot DEF Slots
  <2>2. txCallback' \in [Slots -> BOOLEAN]
    BY <1>7 DEF ReleaseSlot
  <2>3. releases' \in [1 .. MaxWrites -> Nat]
    <3>1. pData[txOut] \in 0 .. MaxWrites
      OBVIOUS
    <3> QED
      BY <1>7, <3>1, ReleaseTypes DEF ReleaseSlot
  <2>4. txNo' \in 0 .. gSerialMgrTxQueueSize_c
    BY <1>7 DEF ReleaseSlot
  <2>5. pc' \in {"maintain", "restart", "take"}
    BY <1>7 DEF ReleaseSlot, AfterMaintenance
  <2> QED
    BY <1>7, <2>1, <2>2, <2>3, <2>4, <2>5 DEF ReleaseSlot, driver, rx, signal, locals
<1>8. CASE TakeEvents
  BY <1>8 DEF TakeEvents, AfterRx, ring, driver, rx
<1>9. CASE CountBytes
  <2>1. Serial_RxBufferByteCount \in Nat
    BY DEF Serial_RxBufferByteCount, Cells, gSMRxBufSize_c
  <2>2. bytes' \in Nat
    BY <1>9, <2>1 DEF CountBytes
  <2> QED
    BY <1>9, <2>2 DEF CountBytes, AfterRx, ring, driver, rx, signal
<1>10. CASE CopyByte
  <2>1. Inc(rxOut, gSMRxBufSize_c) \in Cells
    BY IncIsACell
  <2>2. bytes - 1 \in Nat
    BY <1>10 DEF CopyByte, RxInv
  <2> QED
    BY <1>10, <2>1, <2>2 DEF CopyByte, ring, driver, signal
<1>11. CASE RunTask
  BY <1>11 DEF RunTask, ring, driver, rx
<1>12. CASE UsartShifts
  BY <1>12 DEF UsartShifts, ring, rx, signal, locals
<1>13. CASE UsartTxByte
  <2>1. txSize' \in Nat
    BY <1>13 DEF UsartTxByte
  <2>2. txFifo' \in BOOLEAN /\ sent' \in [block : 0 .. MaxWrites, bytes : Nat]
    BY <1>13, FetchTypes DEF UsartTxByte
  <2> QED
    BY <1>13, <2>1, <2>2 DEF UsartTxByte, ring, rx, signal, locals
<1>14. CASE UsartTxEnds
  <2>1. Inc(txCurrent, gSerialMgrTxQueueSize_c) \in Slots
    BY IncIsASlot DEF Slots
  <2>2. dataSize' \in [Slots -> Nat]
    BY <1>14 DEF UsartTxEnds
  <2>3. txCurrent' \in Slots
    BY <1>14, <2>1 DEF UsartTxEnds
  <2>4. /\ txSize' \in Nat /\ txData' \in 0 .. MaxWrites /\ txFifo' \in BOOLEAN
        /\ txLevel' \in BOOLEAN /\ sent' \in [block : 0 .. MaxWrites, bytes : Nat]
    <3> DEFINE next == Inc(txCurrent, gSerialMgrTxQueueSize_c)
    <3>1. CASE dataSize'[next] > 0
      <4>1. dataSize[next] > 0
        BY <1>14, <2>1, <3>1 DEF UsartTxEnds
      <4>2. USART_SendData(next) /\ UNCHANGED txLevel
        BY <1>14, <3>1 DEF UsartTxEnds
      <4> QED
        BY <4>1, <4>2, <2>1, SendDataTypes
    <3>2. CASE ~(dataSize'[next] > 0)
      BY <1>14, <3>2 DEF UsartTxEnds
    <3> QED
      BY <3>1, <3>2
  <2>5. events' \subseteq {"Rx", "TxDone"} /\ signalled' \in BOOLEAN /\ state' \in {0, 1}
    BY <1>14 DEF UsartTxEnds, Notify
  <2> QED
    BY <1>14, <2>2, <2>3, <2>4, <2>5 DEF UsartTxEnds, rx, locals
<1>15. CASE UsartRxByte
  <2>1. Inc(rxIn, gSMRxBufSize_c) \in Cells /\ Inc(rxOut, gSMRxBufSize_c) \in Cells
    BY IncIsACell
  <2>2. events' \subseteq {"Rx", "TxDone"} /\ signalled' \in BOOLEAN
    BY <1>15 DEF UsartRxByte, NotifyRx
  <2>3. rxBuffer' \in [Cells -> 0 .. MaxBytes] /\ received' \in 0 .. MaxBytes
    BY <1>15 DEF UsartRxByte
  <2>4. rxIn' \in Cells /\ rxOut' \in Cells
    BY <1>15, <2>1 DEF UsartRxByte, AdvanceRx
  <2> QED
    BY <1>15, <2>2, <2>3, <2>4 DEF UsartRxByte, AdvanceRx, ring, driver, locals
<1>16. CASE UNCHANGED vars
  BY <1>16 DEF vars, ring, driver, rx, signal, locals
<1> QED
  BY <1>1, <1>2, <1>3, <1>4, <1>5, <1>6, <1>7, <1>8, <1>9, <1>10, <1>11, <1>12, <1>13,
     <1>14, <1>15, <1>16 DEF Next, Thread, Interrupt

LEMMA FlowStep == SerialInv /\ [Next]_vars => FlowInv'
<1> SUFFICES ASSUME SerialInv, [Next]_vars PROVE FlowInv'
  OBVIOUS
<1> USE DEF SerialInv, FlowInv, Writers
<1>1. ASSUME NEW f \in Writers, Call(f) PROVE FlowInv'
  BY <1>1 DEF Call, TypeOK
<1>2. CASE TakeSlot \/ RingIsFull \/ WaitForState \/ SyncWriteReturns \/ Start
           \/ NothingToSend \/ Send \/ EnableTxLevel
  BY <1>2 DEF TakeSlot, RingIsFull, WaitForState, SyncWriteReturns, Start, NothingToSend,
              Send, EnableTxLevel, AfterWrite, locals
<1>3. CASE ReleaseSlot \/ NothingToRelease
  BY <1>3 DEF ReleaseSlot, NothingToRelease, AfterMaintenance, locals, TypeOK
<1>4. CASE TakeEvents \/ Restart \/ CountBytes \/ CopyByte \/ RunTask
  BY <1>4 DEF TakeEvents, Restart, CountBytes, CopyByte, RunTask, AfterRx, locals
<1>5. CASE UsartShifts \/ UsartTxByte \/ UsartTxEnds \/ UsartRxByte \/ UNCHANGED vars
  BY <1>5 DEF UsartShifts, UsartTxByte, UsartTxEnds, UsartRxByte, vars, locals
<1> QED
  BY <1>1, <1>2, <1>3, <1>4, <1>5 DEF Next, Thread, Interrupt
-----------------------------------------------------------------------------
(* Receiving.                                                              *)

LEMMA UsedFits == TypeOK => Used \in 0 .. gSerialMgrRxBufSize_c
  BY SerialAssumption DEF TypeOK, Used, Serial_RxBufferByteCount, Cells, gSMRxBufSize_c

LEMMA RxFrame ==
    ASSUME RxInv, UNCHANGED rx, pc' = "copy" => pc = "copy" /\ bytes' = bytes
    PROVE  RxInv'
  BY DEF RxInv, rx, Used, Serial_RxBufferByteCount, RxRel

\* A byte is put in, and the oldest dropped if there was no room.
LEMMA RxByteStep == SerialInv /\ UsartRxByte => RxInv'
<1> SUFFICES ASSUME SerialInv, UsartRxByte PROVE RxInv'
  OBVIOUS
<1> USE SerialAssumption DEF gSMRxBufSize_c
<1>1. /\ rxIn \in Cells /\ rxOut \in Cells /\ bytes \in Nat
      /\ received \in Nat /\ read \in Nat
      /\ rxBuffer \in [Cells -> 0 .. MaxBytes]
  BY DEF SerialInv, TypeOK
<1>2. /\ rxIn' = Inc(rxIn, gSMRxBufSize_c)
      /\ rxOut' = IF rxIn' = rxOut THEN Inc(rxOut, gSMRxBufSize_c) ELSE rxOut
      /\ rxBuffer' = [rxBuffer EXCEPT ![rxIn] = received + 1]
      /\ received' = received + 1
      /\ UNCHANGED <<read, pc, bytes>>
  BY DEF UsartRxByte, AdvanceRx, locals
<1>3. Used \in 0 .. gSerialMgrRxBufSize_c
  BY UsedFits DEF SerialInv
<1>4. Used' = IF Used = gSerialMgrRxBufSize_c THEN Used ELSE Used + 1
  BY <1>1, <1>2 DEF Used, Serial_RxBufferByteCount, Inc, Cells
<1>5. RxRel(rxIn) = Used
  BY <1>1, <1>3 DEF Used, Serial_RxBufferByteCount, RxRel, Cells
<1>6. \A i \in Cells : i # rxIn => RxRel(i) # Used /\ RxRel(i) \in 0 .. gSerialMgrRxBufSize_c
  BY <1>1, <1>3 DEF Used, Serial_RxBufferByteCount, RxRel, Cells
<1>7. CASE Used = gSerialMgrRxBufSize_c
  <2>1. rxIn' = rxOut /\ rxOut' = Inc(rxOut, gSMRxBufSize_c)
    BY <1>1, <1>2, <1>7 DEF Used, Serial_RxBufferByteCount, Inc, Cells
  <2>2. \A i \in Cells : i # rxOut => RxRel(i)' = RxRel(i) - 1
    BY <1>1, <2>1 DEF RxRel, Inc, Cells
  <2>3. \A i \in Cells : i = rxOut => RxRel(i)' = gSerialMgrRxBufSize_c
    BY <1>1, <2>1 DEF RxRel, Inc, Cells
  <2>4. ASSUME NEW i \in Cells, RxRel(i)' < Used'
        PROVE  rxBuffer'[i] = received' - Used' + 1 + RxRel(i)'
    <3>1. i # rxOut /\ RxRel(i)' = RxRel(i) - 1 /\ Used' = Used
      BY <2>2, <2>3, <2>4, <1>3, <1>4, <1>7
    <3>2. CASE i = rxIn
      BY <3>1, <3>2, <1>1, <1>2, <1>3, <1>5
    <3>3. CASE i # rxIn
      <4>1. RxRel(i) \in 0 .. gSerialMgrRxBufSize_c /\ RxRel(i) < Used
        BY <3>3, <1>6, <1>7
      <4>2. rxBuffer[i] = received - Used + 1 + RxRel(i)
        BY <4>1 DEF SerialInv, RxInv
      <4>3. rxBuffer'[i] = rxBuffer[i]
        BY <3>3, <1>1, <1>2
      <4> QED
        BY <4>1, <4>2, <4>3, <3>1, <1>1, <1>2, <1>3
    <3> QED
      BY <3>2, <3>3
  <2>5. received' - Used' = IF received' > read' + gSerialMgrRxBufSize_c
                               THEN received' - gSerialMgrRxBufSize_c ELSE read'
    BY <1>1, <1>2, <1>3, <1>4, <1>7 DEF SerialInv, RxInv
  <2>6. pc' = "copy" => 1 <= bytes' /\ bytes' <= Used'
    BY <1>2, <1>4, <1>7 DEF SerialInv, RxInv
  <2> QED
    BY <2>4, <2>5, <2>6 DEF RxInv, Cells
<1>8. CASE Used < gSerialMgrRxBufSize_c
  <2>1. rxOut' = rxOut
    BY <1>1, <1>2, <1>8 DEF Used, Serial_RxBufferByteCount, Inc, Cells
  <2>2. \A i \in Cells : RxRel(i)' = RxRel(i)
    BY <2>1 DEF RxRel
  <2>3. Used' = Used + 1
    BY <1>3, <1>4, <1>8
  <2>4. ASSUME NEW i \in Cells, RxRel(i)' < Used'
        PROVE  rxBuffer'[i] = received' - Used' + 1 + RxRel(i)'
    <3>1. CASE i = rxIn
      BY <3>1, <2>2, <2>3, <1>1, <1>2, <1>3, <1>5
    <3>2. CASE i # rxIn
      <4>1. RxRel(i) \in 0 .. gSerialMgrRxBufSize_c /\ RxRel(i) < Used
        BY <3>2, <1>6, <2>4, <2>2, <2>3, <1>3
      <4>2. rxBuffer[i] = received - Used + 1 + RxRel(i)
        BY <4>1 DEF SerialInv, RxInv
      <4>3. rxBuffer'[i] = rxBuffer[i]
        BY <3>2, <1>1, <1>2
      <4> QED
        BY <4>1, <4>2, <4>3, <2>2, <2>3, <1>1, <1>2, <1>3
    <3> QED
      BY <3>1, <3>2
  <2>5. received' - Used' = IF received' > read' + gSerialMgrRxBufSize_c
                               THEN received' - gSerialMgrRxBufSize_c ELSE read'
    BY <1>1, <1>2, <1>3, <1>8, <2>3 DEF SerialInv, RxInv
  <2>6. pc' = "copy" => 1 <= bytes' /\ bytes' <= Used'
    BY <1>1, <1>2, <1>3, <2>3 DEF SerialInv, RxInv
  <2> QED
    BY <2>4, <2>5, <2>6 DEF RxInv, Cells
<1> QED
  BY <1>3, <1>7, <1>8

\* The oldest byte is taken out.
LEMMA CopyStep == SerialInv /\ CopyByte => RxInv' /\ read' = received - Used + 1
<1> SUFFICES ASSUME SerialInv, CopyByte PROVE RxInv' /\ read' = received - Used + 1
  OBVIOUS
<1> USE SerialAssumption DEF gSMRxBufSize_c
<1>1. /\ rxIn \in Cells /\ rxOut \in Cells /\ bytes \in Nat
      /\ received \in Nat /\ read \in Nat
  BY DEF SerialInv, TypeOK
<1>2. /\ rxOut' = Inc(rxOut, gSMRxBufSize_c)
      /\ read' = rxBuffer[rxOut]
      /\ bytes' = bytes - 1
      /\ pc' = IF bytes = 1 THEN "count" ELSE "copy"
      /\ UNCHANGED <<rxBuffer, rxIn, received>>
  BY DEF CopyByte
<1>3. Used \in 0 .. gSerialMgrRxBufSize_c
  BY UsedFits DEF SerialInv
<1>4. 1 <= bytes /\ bytes <= Used
  BY DEF SerialInv, RxInv, CopyByte
<1>5. Used' = Used - 1
  BY <1>1, <1>2, <1>3, <1>4 DEF Used, Serial_RxBufferByteCount, Inc, Cells
<1>6. read' = received - Used + 1
  <2>1. RxRel(rxOut) = 0 /\ 0 < Used
    BY <1>1, <1>3, <1>4 DEF RxRel, Cells
  <2> QED
    BY <2>1, <1>1, <1>2, <1>3 DEF SerialInv, RxInv
<1>7. ASSUME NEW i \in Cells, RxRel(i)' < Used'
      PROVE  rxBuffer'[i] = received' - Used' + 1 + RxRel(i)'
  <2>1. CASE i = rxOut
    <3>1. RxRel(i)' = gSerialMgrRxBufSize_c
      BY <2>1, <1>1, <1>2 DEF RxRel, Inc, Cells
    <3> QED
      BY <3>1, <1>3, <1>5, <1>7
  <2>2. CASE i # rxOut
    <3>1. RxRel(i)' = RxRel(i) - 1 /\ RxRel(i) \in Nat
      BY <2>2, <1>1, <1>2 DEF RxRel, Inc, Cells
    <3>2. rxBuffer[i] = received - Used + 1 + RxRel(i)
      BY <3>1, <1>3, <1>5, <1>7 DEF SerialInv, RxInv
    <3> QED
      BY <3>1, <3>2, <1>1, <1>2, <1>3, <1>5
  <2> QED
    BY <2>1, <2>2
<1>8. received' - Used' = IF received' > read' + gSerialMgrRxBufSize_c
                             THEN received' - gSerialMgrRxBufSize_c ELSE read'
  BY <1>1, <1>2, <1>3, <1>4, <1>5, <1>6
<1>9. pc' = "copy" => 1 <= bytes' /\ bytes' <= Used'
  BY <1>1, <1>2, <1>3, <1>4, <1>5
<1> QED
  BY <1>6, <1>7, <1>8, <1>9 DEF RxInv, Cells

LEMMA RxStep == SerialInv /\ [Next]_vars => RxInv'
<1> SUFFICES ASSUME SerialInv, [Next]_vars PROVE RxInv'
  OBVIOUS
<1>0. RxInv
  BY DEF SerialInv
<1>1. CASE UsartRxByte
  BY <1>1, RxByteStep
<1>2. CASE CopyByte
  BY <1>2, CopyStep
<1>3. CASE CountBytes
  <2>1. Used \in 0 .. gSerialMgrRxBufSize_c /\ Used' = Used
    BY <1>3, UsedFits DEF SerialInv, CountBytes, rx, Used, Serial_RxBufferByteCount
  <2>2. Used # 0 => 1 <= bytes' /\ bytes' <= Used'
    BY <1>3, <2>1, SerialAssumption DEF CountBytes, Used
  <2>3. pc' = "copy" => Used # 0
    BY <1>3 DEF CountBytes, AfterRx, Used
  <2>4. \A i : RxRel(i)' = RxRel(i)
    BY <1>3 DEF CountBytes, rx, RxRel
  <2> QED
    BY <1>0, <1>3, <2>1, <2>2, <2>3, <2>4 DEF RxInv, CountBytes, rx
<1>4. ASSUME UNCHANGED rx, pc' = "copy" => pc = "copy" /\ bytes' = bytes PROVE RxInv'
  BY <1>0, <1>4, RxFrame
<1>5. CASE \/ \E f \in Writers : Call(f)
           \/ TakeSlot \/ RingIsFull \/ WaitForState \/ SyncWriteReturns \/ Start
           \/ NothingToSend \/ Send \/ EnableTxLevel
  BY <1>4, <1>5 DEF Call, TakeSlot, RingIsFull, WaitForState, SyncWriteReturns, Start,
              NothingToSend, Send, EnableTxLevel, AfterWrite
<1>6. CASE ReleaseSlot \/ NothingToRelease \/ TakeEvents \/ Restart \/ RunTask
  BY <1>4, <1>6 DEF ReleaseSlot, NothingToRelease, TakeEvents, Restart, RunTask, AfterRx,
              AfterMaintenance
<1>7. CASE UsartShifts \/ UsartTxByte \/ UsartTxEnds \/ UNCHANGED vars
  BY <1>4, <1>7 DEF UsartShifts, UsartTxByte, UsartTxEnds, vars, locals
<1> QED
  BY <1>1, <1>2, <1>3, <1>5, <1>6, <1>7 DEF Next, Thread, Interrupt
-----------------------------------------------------------------------------
(* The transmit ring.                                                      *)

LEMMA TxTypes ==
    ASSUME SerialInv
    PROVE  /\ N \in Nat \ {0} /\ Slots = 0 .. N - 1
           /\ txIn \in 0 .. N - 1 /\ txOut \in 0 .. N - 1 /\ txCurrent \in 0 .. N - 1
           /\ txNo \in 0 .. N
           /\ writes \in 0 .. MaxWrites /\ Taken \in 0 .. MaxWrites
           /\ Freed \in Nat /\ Done \in Nat /\ sent.block \in Nat
           /\ Done - Freed \in 0 .. txNo
<1>1. writes \in 0 .. MaxWrites /\ txNo \in 0 .. N /\ sent.block \in Nat
  BY SerialAssumption DEF SerialInv, TypeOK, N
<1>2. Taken \in 0 .. MaxWrites
  BY <1>1, SerialAssumption DEF SerialInv, FlowInv, Taken, Putting
<1>3. txNo <= Taken /\ Freed <= Done /\ Done <= Taken /\ (InBlock => sent.block >= 1)
  BY DEF SerialInv, RingInv, DriverInv
<1>4. Freed \in Nat /\ Freed = Taken - txNo
  BY <1>1, <1>2, <1>3, SerialAssumption DEF Freed
<1>5. Done \in Nat
  BY <1>1, <1>3 DEF Done
<1>6. Done - Freed \in 0 .. txNo
  BY <1>1, <1>2, <1>3, <1>4, <1>5, SerialAssumption
<1> QED
  BY <1>1, <1>2, <1>4, <1>5, <1>6, SerialAssumption DEF SerialInv, TypeOK, N, Slots

\* The position d slots from the oldest.
LEMMA RelOfPos ==
    ASSUME SerialInv, NEW d \in 0 .. N
    PROVE  /\ Pos(d) \in Slots
           /\ Rel(Pos(d)) = IF d = N THEN 0 ELSE d
           /\ d < N => Inc(Pos(d), N) = Pos(d + 1)
<1>1. N \in Nat \ {0} /\ txOut \in 0 .. N - 1 /\ Slots = 0 .. N - 1
  BY TxTypes
<1> QED
  BY <1>1 DEF Pos, Rel, Inc

\* What is next to be sent is where txCurrent points.
LEMMA CurrentBlock ==
    ASSUME SerialInv
    PROVE  /\ dataSize[txCurrent] > 0 => /\ pData[txCurrent] = Done + 1
                                        /\ dataSize[txCurrent] = Length[Done + 1]
                                        /\ Done < Taken
           /\ dataSize[txCurrent] = 0 => Done = Taken
<1> DEFINE d == Done - Freed
<1>1. /\ txCurrent = Pos(d) /\ txCurrent \in Slots
      /\ \A i \in Slots : Rel(i) < txNo => pData[i] = Freed + 1 + Rel(i)
      /\ \A i \in Slots : dataSize[i] = IF Rel(i) < txNo /\ d <= Rel(i)
                                           THEN Length[Freed + 1 + Rel(i)] ELSE 0
      /\ Freed = Taken - txNo
  BY DEF SerialInv, RingInv, TypeOK, Freed
<1>2. d \in 0 .. txNo /\ txNo \in 0 .. N
  BY TxTypes
<1>3. Rel(txCurrent) = IF d = N THEN 0 ELSE d
  <2>1. N \in Nat /\ d \in 0 .. N
    BY <1>2, TxTypes
  <2> QED
    BY <1>1, <2>1, RelOfPos
<1>4. Taken \in 0 .. MaxWrites /\ Freed \in Nat /\ Done \in Nat
  BY TxTypes
<1>5. \A w \in 1 .. MaxWrites : Length[w] > 0
  BY SerialAssumption
<1>6. CASE Done < Taken
  <2>1. d < txNo /\ Rel(txCurrent) = d
    BY <1>1, <1>2, <1>3, <1>4, <1>6, TxTypes
  <2>2. dataSize[txCurrent] = Length[Freed + 1 + d] /\ pData[txCurrent] = Freed + 1 + d
    BY <1>1, <1>2, <2>1
  <2>3. Freed + 1 + d = Done + 1 /\ Done + 1 \in 1 .. MaxWrites
    BY <1>4, <1>6, SerialAssumption
  <2> QED
    BY <2>2, <2>3, <1>5, <1>6, SerialAssumption
<1>7. CASE Done = Taken
  <2>1. d = txNo
    BY <1>1, <1>2, <1>4, <1>7
  <2>2. dataSize[txCurrent] = 0
    <3>1. dataSize[txCurrent] = IF Rel(txCurrent) < txNo /\ d <= Rel(txCurrent)
                                   THEN Length[Freed + 1 + Rel(txCurrent)] ELSE 0
      BY <1>1
    <3>2. N \in Nat \ {0}
      BY TxTypes
    <3> HIDE DEF d
    <3> QED
      BY <3>1, <3>2, <1>2, <1>3, <2>1
  <2> QED
    BY <2>2, <1>7
<1> QED
  BY <1>4, <1>6, <1>7 DEF SerialInv, RingInv

LEMMA TakenStep == SerialInv /\ [Next]_vars /\ ~TakeSlot => Taken' = Taken
<1> SUFFICES ASSUME SerialInv, [Next]_vars, ~TakeSlot PROVE Taken' = Taken
  OBVIOUS
<1> USE DEF SerialInv, FlowInv, Taken, Putting, Writers
<1>1. ASSUME NEW f \in Writers, Call(f) PROVE Taken' = Taken
  BY <1>1 DEF Call, TypeOK
<1>2. CASE \/ RingIsFull \/ WaitForState \/ SyncWriteReturns \/ Start
           \/ NothingToSend \/ Send \/ EnableTxLevel
  BY <1>2 DEF RingIsFull, WaitForState, SyncWriteReturns, Start, NothingToSend,
              Send, EnableTxLevel, AfterWrite, locals
<1>3. CASE ReleaseSlot \/ NothingToRelease
  BY <1>3 DEF ReleaseSlot, NothingToRelease, AfterMaintenance, locals, TypeOK
<1>4. CASE TakeEvents \/ Restart \/ CountBytes \/ CopyByte \/ RunTask
  BY <1>4 DEF TakeEvents, Restart, CountBytes, CopyByte, RunTask, AfterRx, locals
<1>5. CASE UsartShifts \/ UsartTxByte \/ UsartTxEnds \/ UsartRxByte \/ UNCHANGED vars
  BY <1>5 DEF UsartShifts, UsartTxByte, UsartTxEnds, UsartRxByte, vars, locals
<1> QED
  BY <1>1, <1>2, <1>3, <1>4, <1>5 DEF Next, Thread, Interrupt

\* USART_SendData is never called while the driver is busy.
LEMMA SendStep ==
    ASSUME SerialInv, Send
    PROVE  /\ txSize = 0 /\ ~InBlock /\ InBlock' /\ pc' = "enable" /\ ~txLevel'
           /\ sent' = [block |-> sent.block + 1, bytes |-> 1]
           /\ txData' = sent.block + 1
           /\ txSize' = Length[sent.block + 1] - 1
           /\ sent.block < Taken /\ Done = sent.block
           /\ UNCHANGED <<state, releases, writes, ring, caller>>
<1>1. ~InBlock /\ txSize = 0 /\ Done = sent.block /\ ~txLevel
  BY DEF Send, SerialInv, DriverInv, InBlock, Done
<1>2. pData[txCurrent] = Done + 1 /\ dataSize[txCurrent] = Length[Done + 1] /\ Done < Taken
  BY CurrentBlock DEF Send
<1>3. /\ USART_SendData(txCurrent) /\ pc' = "enable"
      /\ UNCHANGED <<state, txLevel, releases, writes, ring, caller>>
  BY <1>1 DEF Send, locals
<1>4. sent' = [block |-> sent.block + 1, bytes |-> 1]
  <2>1. sent.block \in Nat
    BY TxTypes
  <2> QED
    BY <2>1, <1>1, <1>2, <1>3 DEF USART_SendData, Fetch
<1> QED
  BY <1>1, <1>2, <1>3, <1>4 DEF USART_SendData, InBlock

\* A byte of a block under way follows the last one of the same block.
LEMMA TxByteStep ==
    ASSUME SerialInv, UsartTxByte
    PROVE  /\ InBlock /\ txLevel' = txLevel /\ pc' = pc
           /\ sent' = [sent EXCEPT !.bytes = @ + 1]
           /\ sent.block >= 1 /\ sent.bytes < Length[sent.block]
           /\ txSize' = txSize - 1 /\ UNCHANGED <<txData, state, releases, writes, ring, caller>>
<1>1. /\ InBlock /\ txData = sent.block /\ sent.block >= 1 /\ txSize > 0
      /\ sent.bytes + txSize = Length[sent.block]
  BY DEF UsartTxByte, FifoInterrupt, InBlock, SerialInv, DriverInv
<1>2. sent \in [block : 0 .. MaxWrites, bytes : Nat] /\ txSize \in Nat
  BY DEF SerialInv, TypeOK
<1>3. sent' = [sent EXCEPT !.bytes = @ + 1]
  BY <1>1, <1>2 DEF UsartTxByte, Fetch
<1> QED
  BY <1>1, <1>2, <1>3 DEF UsartTxByte, locals

\* The end of a block: the next is started, or there is none.
LEMMA TxEndStep ==
    ASSUME SerialInv, UsartTxEnds
    PROVE  /\ InBlock /\ state = 1 /\ pc \notin {"send", "enable"} /\ pc' = pc
           /\ sent.block >= 1 /\ sent.bytes = Length[sent.block] /\ Done = sent.block - 1
           /\ Done < Taken
           /\ Done' = Done + 1
           /\ \/ /\ InBlock' /\ state' = 1
                 /\ sent' = [block |-> sent.block + 1, bytes |-> 1]
                 /\ txData' = sent.block + 1 /\ sent.block < Taken
                 /\ txSize' = Length[sent.block + 1] - 1
              \/ /\ ~InBlock' /\ state' = 0 /\ sent' = sent /\ txSize' = 0
                 /\ Done' = Taken
           /\ txCurrent' = Inc(txCurrent, N)
           /\ dataSize' = [dataSize EXCEPT ![txCurrent] = 0]
           /\ UNCHANGED <<txCallback, pData, txIn, txOut, txNo, releases, writes, caller>>
<1> DEFINE next == Inc(txCurrent, N)
           d == Done - Freed
<1>1. /\ InBlock /\ txLevel /\ txSize = 0
      /\ sent.block >= 1 /\ sent.block <= Taken /\ sent.bytes + txSize = Length[sent.block]
      /\ Done = sent.block - 1 /\ state = 1 /\ pc \notin {"send", "enable"}
  BY DEF UsartTxEnds, FifoInterrupt, InBlock, SerialInv, DriverInv, Done
<1>2. /\ txCurrent' = next /\ dataSize' = [dataSize EXCEPT ![txCurrent] = 0]
      /\ UNCHANGED <<pc, txCallback, pData, txIn, txOut, txNo, releases, writes, caller>>
  BY DEF UsartTxEnds, N, locals
<1>3. sent.bytes = Length[sent.block] /\ sent.block \in Nat
  <2>1. sent \in [block : 0 .. MaxWrites, bytes : Nat]
    BY DEF SerialInv, TypeOK
  <2> QED
    BY <2>1, <1>1
<1>4. /\ d \in 0 .. txNo - 1 /\ Done < Taken /\ Freed = Taken - txNo
      /\ Done \in Nat /\ Freed \in Nat /\ Taken \in 0 .. MaxWrites /\ txNo \in 0 .. N
      /\ N \in Nat \ {0} /\ d + 1 \in 0 .. N
  <2>1. /\ d \in 0 .. txNo /\ Freed \in Nat /\ Done \in Nat /\ txNo \in 0 .. N
        /\ N \in Nat \ {0} /\ Taken \in 0 .. MaxWrites
    BY TxTypes
  <2>2. Freed = Taken - txNo
    BY DEF Freed
  <2> QED
    <3>1. Done < Taken
      BY <1>1, <1>3, <2>1
    <3>2. d < txNo
      BY <2>1, <2>2, <3>1
    <3> HIDE DEF d
    <3> QED
      BY <2>1, <2>2, <3>1, <3>2
<1>5. /\ txCurrent = Pos(d) /\ next \in Slots
      /\ next = Pos(d + 1)
  <2>1. txCurrent = Pos(d)
    BY DEF SerialInv, RingInv
  <2> QED
    BY <2>1, <1>4, RelOfPos
<1>6. CASE dataSize'[next] > 0
  <2>1. next # txCurrent /\ dataSize[next] > 0
    BY <1>2, <1>5, <1>6 DEF SerialInv, TypeOK
  <2>2. Rel(next) = IF d + 1 = N THEN 0 ELSE d + 1
    BY <1>4, <1>5, RelOfPos
  <2>3. dataSize[next] = IF Rel(next) < txNo /\ d <= Rel(next)
                            THEN Length[Freed + 1 + Rel(next)] ELSE 0
    BY <1>5 DEF SerialInv, RingInv
  <2>4. Rel(next) < txNo /\ d <= Rel(next)
    BY <2>1, <2>3
  <2>5. Rel(next) = d + 1
    <3>1. CASE d + 1 = N
      <4>1. N = 1
        BY <3>1, <2>2, <2>4, <1>4, TxTypes
      <4> QED
        BY <4>1, <2>1, <1>5, TxTypes
    <3> QED
      BY <3>1, <2>2
  <2>6. Freed + 1 + Rel(next) = sent.block + 1 /\ sent.block < Taken
    BY <2>4, <2>5, <1>1, <1>3, <1>4
  <2>7. pData[next] = sent.block + 1 /\ dataSize[next] = Length[sent.block + 1]
    BY <1>5, <2>1, <2>3, <2>4, <2>6 DEF SerialInv, RingInv
  <2>8. USART_SendData(next) /\ txLevel' = txLevel /\ state' = 1
    BY <1>2, <1>6 DEF UsartTxEnds
  <2>9. sent' = [block |-> sent.block + 1, bytes |-> 1] /\ txData' = sent.block + 1
        /\ txSize' = Length[sent.block + 1] - 1
    BY <2>7, <2>8, <1>3 DEF USART_SendData, Fetch
  <2>10. InBlock' /\ Done' = Done + 1
    BY <2>8, <2>9, <1>1, <1>3 DEF InBlock, Done
  <2> QED
    BY <1>1, <1>2, <1>3, <1>4, <2>6, <2>8, <2>9, <2>10
<1>7. CASE ~(dataSize'[next] > 0)
  <2>1. state' = 0 /\ ~txLevel' /\ UNCHANGED <<sent, txSize>>
    BY <1>2, <1>7 DEF UsartTxEnds
  <2>2. ~InBlock' /\ Done' = Done + 1
    BY <2>1, <1>1, <1>2, <1>3 DEF InBlock, Done
  <2>3. Done + 1 = Taken
    <3> SUFFICES ASSUME Done + 1 < Taken PROVE FALSE
      BY <1>4, TxTypes
    <3>1. d + 1 < txNo
      BY <1>4, TxTypes
    <3>2. Rel(next) = d + 1 /\ next # txCurrent
      <4>1. Rel(next) = d + 1 /\ Rel(txCurrent) = d
        BY <3>1, <1>4, <1>5, RelOfPos
      <4> QED
        BY <4>1, <1>4
    <3>3. dataSize[next] = Length[Freed + 1 + Rel(next)]
      <4>1. dataSize[next] = IF Rel(next) < txNo /\ d <= Rel(next)
                                THEN Length[Freed + 1 + Rel(next)] ELSE 0
        BY <1>5 DEF SerialInv, RingInv
      <4> QED
        BY <3>1, <3>2, <4>1, <1>4
    <3>4. Freed + 1 + Rel(next) = Done + 2 /\ Done + 2 \in 1 .. MaxWrites
      BY <3>2, <1>4, SerialAssumption
    <3>5. dataSize[next] > 0
      BY <3>3, <3>4, SerialAssumption
    <3>6. dataSize'[next] = dataSize[next]
      BY <3>2, <1>2, <1>5 DEF SerialInv, TypeOK
    <3> QED
      BY <3>5, <3>6, <1>7
  <2> QED
    BY <1>1, <1>2, <1>3, <1>4, <2>1, <2>2, <2>3
<1> QED
  BY <1>6, <1>7
\* Only the interrupt ends a block; InBlock changes when one starts.
LEMMA DoneStep ==
    SerialInv /\ [Next]_vars /\ ~UsartTxEnds =>
        /\ Done' = Done
        /\ ~Send => InBlock' = InBlock /\ (InBlock => sent'.block = sent.block)
<1> SUFFICES ASSUME SerialInv, [Next]_vars, ~UsartTxEnds
             PROVE  /\ Done' = Done
                    /\ ~Send => InBlock' = InBlock /\ (InBlock => sent'.block = sent.block)
  OBVIOUS
<1> USE DEF Done, InBlock
<1>1. CASE Send
  BY <1>1, SendStep, TxTypes
<1>2. CASE UsartTxByte
  BY <1>2, TxByteStep DEF SerialInv, TypeOK
<1>3. CASE (\E f \in Writers : Call(f)) \/ TakeSlot \/ RingIsFull \/ WaitForState
           \/ SyncWriteReturns
  BY <1>3 DEF Call, TakeSlot, RingIsFull, WaitForState, SyncWriteReturns, driver
<1>6. CASE Start \/ NothingToSend
  BY <1>6 DEF Start, NothingToSend, AfterWrite, driver
<1>7. CASE EnableTxLevel
  <2>1. txLevel' = TRUE /\ sent' = sent /\ pc = "enable"
    BY <1>7 DEF EnableTxLevel
  <2> QED
    BY <2>1
<1>4. CASE ReleaseSlot \/ NothingToRelease \/ TakeEvents \/ Restart \/ CountBytes
           \/ CopyByte \/ RunTask
  BY <1>4 DEF ReleaseSlot, NothingToRelease, TakeEvents, Restart, CountBytes, CopyByte,
              RunTask, AfterMaintenance, AfterRx, driver
<1>5. CASE UsartShifts \/ UsartRxByte \/ UNCHANGED vars
  BY <1>5 DEF UsartShifts, UsartRxByte, vars, driver
<1> QED
  BY <1>1, <1>2, <1>3, <1>4, <1>5, <1>6, <1>7 DEF Next, Thread, Interrupt

LEMMA RingFrame ==
    ASSUME RingInv, UNCHANGED ring, Taken' = Taken, Done' = Done
    PROVE  RingInv'
  BY DEF RingInv, ring, Freed, Rel, Pos

LEMMA RelDistinct ==
    ASSUME SerialInv, NEW i \in Slots, NEW j \in Slots
    PROVE  Rel(i) \in 0 .. N - 1 /\ (Rel(i) = Rel(j) => i = j)
<1>1. N \in Nat \ {0} /\ txOut \in 0 .. N - 1 /\ Slots = 0 .. N - 1
  BY TxTypes
<1> QED
  BY <1>1 DEF Rel

\* A block is put behind the last.
LEMMA RingTakeSlot == SerialInv /\ TakeSlot => RingInv'
<1> SUFFICES ASSUME SerialInv, TakeSlot PROVE RingInv'
  OBVIOUS
<1>1. /\ txNo < N /\ txNo' = txNo + 1 /\ txIn' = Inc(txIn, N)
      /\ dataSize' = [dataSize EXCEPT ![txIn] = Length[writes]]
      /\ pData' = [pData EXCEPT ![txIn] = writes]
      /\ txCallback' = [txCallback EXCEPT ![txIn] = caller = "Serial_Print"]
      /\ UNCHANGED <<txOut, txCurrent>>
  BY DEF TakeSlot, SlotIsFree, N
<1>2. /\ N \in Nat \ {0} /\ txNo \in 0 .. N /\ Freed \in Nat /\ Done \in Nat
      /\ Taken \in 0 .. MaxWrites /\ writes \in 0 .. MaxWrites /\ Done - Freed \in 0 .. txNo
      /\ Freed = Taken - txNo
  BY TxTypes DEF Freed
<1>3. Taken = writes - 1 /\ Taken' = writes
  BY DEF TakeSlot, Taken, Putting, SerialInv, FlowInv, locals
<1>4. Done' = Done
  BY DoneStep, TxEndStep DEF TakeSlot, Next, Thread, Done, InBlock, driver
<1>5. Freed' = Freed
  BY <1>1, <1>2, <1>3 DEF Freed
<1>6. \A i : Rel(i)' = Rel(i) /\ Pos(i)' = Pos(i)
  BY <1>1 DEF Rel, Pos
<1>7. txIn \in Slots /\ Rel(txIn) = txNo /\ Inc(txIn, N) = Pos(txNo + 1)
  <2>1. txIn = Pos(txNo)
    BY DEF SerialInv, RingInv
  <2> QED
    BY <2>1, <1>1, <1>2, RelOfPos
<1>8. ASSUME NEW i \in Slots
      PROVE  /\ Rel(i)' < txNo' => pData'[i] = Freed' + 1 + Rel(i)'
             /\ dataSize'[i] = IF Rel(i)' < txNo' /\ Done' - Freed' <= Rel(i)'
                                   THEN Length[Freed' + 1 + Rel(i)'] ELSE 0
             /\ txNo' <= Rel(i)' => ~txCallback'[i]
  <2>1. Rel(i) \in 0 .. N - 1 /\ (i # txIn => Rel(i) # txNo)
    BY <1>7, RelDistinct
  <2>2. CASE i = txIn
    <3>1. pData'[i] = writes /\ dataSize'[i] = Length[writes]
      BY <2>2, <1>1, <1>7 DEF SerialInv, TypeOK
    <3>2. Rel(i)' = txNo /\ Freed' + 1 + Rel(i)' = writes
      BY <2>2, <1>2, <1>3, <1>5, <1>6, <1>7
    <3> QED
      BY <3>1, <3>2, <1>1, <1>2, <1>4, <1>5
  <2>3. CASE i # txIn
    <3>1. pData'[i] = pData[i] /\ dataSize'[i] = dataSize[i] /\ txCallback'[i] = txCallback[i]
      BY <2>3, <1>1 DEF SerialInv, TypeOK
    <3>2. /\ Rel(i) < txNo => pData[i] = Freed + 1 + Rel(i)
          /\ dataSize[i] = IF Rel(i) < txNo /\ Done - Freed <= Rel(i)
                               THEN Length[Freed + 1 + Rel(i)] ELSE 0
          /\ txNo <= Rel(i) => ~txCallback[i]
      BY DEF SerialInv, RingInv
    <3>3. (Rel(i) < txNo + 1) <=> (Rel(i) < txNo)
      BY <2>1, <2>3, <1>2
    <3>4. Rel(i)' = Rel(i) /\ Done' = Done /\ Freed' = Freed /\ txNo' = txNo + 1
      BY <1>1, <1>4, <1>5, <1>6
    <3> QED
      BY <3>1, <3>2, <3>3, <3>4, <2>1, <1>2
  <2> QED
    BY <2>2, <2>3
<1>9. /\ txNo' <= Taken' /\ Freed' <= Done' /\ Done' <= Taken'
      /\ txIn' = Pos(txNo)'
      /\ txCurrent' = Pos(Done - Freed)'
  <2>1. txNo <= Taken /\ Freed <= Done /\ Done <= Taken /\ txCurrent = Pos(Done - Freed)
    BY DEF SerialInv, RingInv
  <2>2. txNo' <= Taken' /\ Freed' <= Done' /\ Done' <= Taken'
    BY <2>1, <1>1, <1>2, <1>3, <1>4, <1>5
  <2>3. txIn' = Pos(txNo)'
    BY <1>1, <1>7 DEF Pos
  <2>4. txCurrent' = Pos(Done - Freed)'
    BY <2>1, <1>1, <1>4, <1>5 DEF Pos
  <2> QED
    BY <2>2, <2>3, <2>4
<1> QED
  BY <1>8, <1>9 DEF RingInv, Slots

\* The oldest slot, which is sent, is taken out.
LEMMA RingReleaseSlot == SerialInv /\ ReleaseSlot => RingInv' /\ Freed < Done
                                                   /\ pData[txOut] = Freed + 1
<1> SUFFICES ASSUME SerialInv, ReleaseSlot
             PROVE  RingInv' /\ Freed < Done /\ pData[txOut] = Freed + 1
  OBVIOUS
<1>1. /\ txNo > 0 /\ dataSize[txOut] = 0 /\ txNo' = txNo - 1 /\ txOut' = Inc(txOut, N)
      /\ txCallback' = [txCallback EXCEPT ![txOut] = FALSE]
      /\ UNCHANGED <<dataSize, pData, txIn, txCurrent>>
  BY DEF ReleaseSlot, N
<1>2. /\ N \in Nat \ {0} /\ txNo \in 0 .. N /\ Freed \in Nat /\ Done \in Nat
      /\ Taken \in 0 .. MaxWrites /\ Done - Freed \in 0 .. txNo
      /\ txOut \in 0 .. N - 1 /\ Slots = 0 .. N - 1
      /\ Freed = Taken - txNo
  BY TxTypes DEF Freed
<1>3. Taken' = Taken /\ Done' = Done
  BY TakenStep, DoneStep DEF ReleaseSlot, TakeSlot, Next, Thread, Taken, Putting, Done, InBlock,
     driver, locals, AfterMaintenance, SerialInv, FlowInv, Writers
<1>4. Freed' = Freed + 1
  BY <1>1, <1>2, <1>3 DEF Freed
<1>5. Rel(txOut) = 0
  BY <1>2 DEF Rel
<1>6. Freed < Done /\ pData[txOut] = Freed + 1
  <2>1. /\ pData[txOut] = Freed + 1 + Rel(txOut)
        /\ dataSize[txOut] = IF Rel(txOut) < txNo /\ Done - Freed <= Rel(txOut)
                                 THEN Length[Freed + 1 + Rel(txOut)] ELSE 0
    BY <1>1, <1>2, <1>5 DEF SerialInv, RingInv
  <2>2. Length[Freed + 1] > 0
    <3>1. Freed + 1 \in 1 .. MaxWrites
      BY <1>1, <1>2, SerialAssumption
    <3> QED
      BY <3>1, SerialAssumption
  <2> QED
    BY <2>1, <2>2, <1>1, <1>2, <1>5
<1>7. \A i \in Slots : Rel(i)' = IF i = txOut THEN N - 1 ELSE Rel(i) - 1
  BY <1>1, <1>2 DEF Rel, Inc
<1>8. ASSUME NEW i \in Slots
      PROVE  /\ Rel(i)' < txNo' => pData'[i] = Freed' + 1 + Rel(i)'
             /\ dataSize'[i] = IF Rel(i)' < txNo' /\ Done' - Freed' <= Rel(i)'
                                   THEN Length[Freed' + 1 + Rel(i)'] ELSE 0
             /\ txNo' <= Rel(i)' => ~txCallback'[i]
  <2>1. CASE i = txOut
    <3>1. Rel(i)' = N - 1 /\ dataSize'[i] = 0 /\ ~txCallback'[i]
      BY <2>1, <1>1, <1>7 DEF SerialInv, TypeOK
    <3>2. ~(Rel(i)' < txNo')
      BY <3>1, <1>1, <1>2
    <3> QED
      BY <3>1, <3>2
  <2>2. CASE i # txOut
    <3>1. pData'[i] = pData[i] /\ dataSize'[i] = dataSize[i] /\ txCallback'[i] = txCallback[i]
      BY <2>2, <1>1 DEF SerialInv, TypeOK
    <3>2. /\ Rel(i) < txNo => pData[i] = Freed + 1 + Rel(i)
          /\ dataSize[i] = IF Rel(i) < txNo /\ Done - Freed <= Rel(i)
                               THEN Length[Freed + 1 + Rel(i)] ELSE 0
          /\ txNo <= Rel(i) => ~txCallback[i]
      BY DEF SerialInv, RingInv
    <3>3. Rel(i)' = Rel(i) - 1 /\ Rel(i) \in 0 .. N - 1
      BY <2>2, <1>7, RelDistinct
    <3>4. /\ (Rel(i)' < txNo') <=> (Rel(i) < txNo)
          /\ (Done' - Freed' <= Rel(i)') <=> (Done - Freed <= Rel(i))
          /\ Freed' + 1 + Rel(i)' = Freed + 1 + Rel(i)
          /\ (txNo' <= Rel(i)') <=> (txNo <= Rel(i))
      <4>1. /\ Rel(i)' = Rel(i) - 1 /\ txNo' = txNo - 1 /\ Done' = Done /\ Freed' = Freed + 1
        BY <3>3, <1>1, <1>3, <1>4
      <4>2. Rel(i) \in Nat /\ txNo \in Nat /\ Done \in Nat /\ Freed \in Nat
        BY <3>3, <1>2
      <4> QED
        BY <4>1, <4>2
    <3> QED
      BY <3>1, <3>2, <3>4
  <2> QED
    BY <2>1, <2>2
<1>9. /\ txNo' <= Taken' /\ Freed' <= Done' /\ Done' <= Taken'
      /\ txIn' = Pos(txNo)
      /\ txCurrent' = Pos(Done - Freed)
  BY <1>1, <1>2, <1>3, <1>4, <1>6 DEF SerialInv, RingInv
<1>10. \A d \in 1 .. N : Pos(d) = IF txOut' + (d - 1) >= N THEN txOut' + (d - 1) - N
                                                        ELSE txOut' + (d - 1)
  BY <1>1, <1>2 DEF Pos, Inc
<1>11. txNo \in 1 .. N /\ Done - Freed \in 1 .. N /\ Done' - Freed' = Done - Freed - 1
  BY <1>1, <1>2, <1>3, <1>4, <1>6
<1>12. txIn' = Pos(txNo)' /\ txCurrent' = Pos(Done - Freed)'
  BY <1>1, <1>9, <1>10, <1>11 DEF Pos
<1> QED
  BY <1>6, <1>8, <1>9, <1>12 DEF RingInv, Slots

\* The current block is done, and stays in the ring.
LEMMA RingTxEnds == SerialInv /\ UsartTxEnds => RingInv'
<1> SUFFICES ASSUME SerialInv, UsartTxEnds PROVE RingInv'
  OBVIOUS
<1> DEFINE d == Done - Freed
<1>1. /\ Done < Taken /\ Done' = Done + 1
      /\ txCurrent' = Inc(txCurrent, N)
      /\ dataSize' = [dataSize EXCEPT ![txCurrent] = 0]
      /\ UNCHANGED <<txCallback, pData, txIn, txOut, txNo>>
  BY TxEndStep
<1>2. Taken' = Taken /\ Freed' = Freed
  BY <1>1, TxEndStep DEF Taken, Putting, Freed
<1>3. /\ N \in Nat \ {0} /\ txNo \in 0 .. N /\ Freed \in Nat /\ Done \in Nat
      /\ Taken \in 0 .. MaxWrites /\ d \in 0 .. txNo /\ Freed = Taken - txNo
  BY TxTypes DEF Freed
<1>4. d < txNo
  BY <1>1, <1>3
<1>5. txCurrent \in Slots /\ Rel(txCurrent) = d /\ txCurrent' = Pos(d + 1)
  <2>1. txCurrent = Pos(d)
    BY DEF SerialInv, RingInv
  <2>2. d \in 0 .. N /\ d < N
    BY <1>3, <1>4
  <2> HIDE DEF d
  <2> QED
    BY <2>1, <2>2, <1>1, RelOfPos
<1>6. \A i : Rel(i)' = Rel(i) /\ Pos(i)' = Pos(i)
  BY <1>1 DEF Rel, Pos
<1>7. ASSUME NEW i \in Slots
      PROVE  /\ Rel(i)' < txNo' => pData'[i] = Freed' + 1 + Rel(i)'
             /\ dataSize'[i] = IF Rel(i)' < txNo' /\ Done' - Freed' <= Rel(i)'
                                   THEN Length[Freed' + 1 + Rel(i)'] ELSE 0
             /\ txNo' <= Rel(i)' => ~txCallback'[i]
  <2>1. /\ Rel(i) < txNo => pData[i] = Freed + 1 + Rel(i)
        /\ dataSize[i] = IF Rel(i) < txNo /\ Done - Freed <= Rel(i)
                             THEN Length[Freed + 1 + Rel(i)] ELSE 0
        /\ txNo <= Rel(i) => ~txCallback[i]
    BY DEF SerialInv, RingInv
  <2>2. Rel(i) \in 0 .. N - 1 /\ (i # txCurrent => Rel(i) # d)
    BY <1>5, RelDistinct
  <2>3. dataSize'[i] = IF i = txCurrent THEN 0 ELSE dataSize[i]
    BY <1>1 DEF SerialInv, TypeOK
  <2>4. Done' - Freed' = d + 1 /\ Freed' = Freed /\ Rel(i)' = Rel(i)
    BY <1>1, <1>2, <1>3, <1>6
  <2> QED
    BY <2>1, <2>2, <2>3, <2>4, <1>1, <1>3, <1>5
<1>8. /\ txNo' <= Taken' /\ Freed' <= Done' /\ Done' <= Taken'
      /\ txIn' = Pos(txNo)' /\ Done' - Freed' = d + 1
  BY <1>1, <1>2, <1>3, <1>6 DEF SerialInv, RingInv
<1>9. txCurrent' = Pos(Done - Freed)'
  <2>1. Pos(Done - Freed)' = IF txOut + (d + 1) >= N THEN txOut + (d + 1) - N
                                                      ELSE txOut + (d + 1)
    BY <1>1, <1>8 DEF Pos
  <2> QED
    BY <2>1, <1>5 DEF Pos
<1> QED
  BY <1>7, <1>8, <1>9 DEF RingInv, Slots

LEMMA RingStep == SerialInv /\ [Next]_vars => RingInv'
<1> SUFFICES ASSUME SerialInv, [Next]_vars PROVE RingInv'
  OBVIOUS
<1>1. CASE TakeSlot \/ ReleaseSlot \/ UsartTxEnds
  BY <1>1, RingTakeSlot, RingReleaseSlot, RingTxEnds
<1>2. CASE ~(TakeSlot \/ ReleaseSlot \/ UsartTxEnds)
  <2>1. Taken' = Taken /\ Done' = Done
    BY <1>2, TakenStep, DoneStep
  <2>2. UNCHANGED ring
    BY <1>2 DEF Next, Thread, Interrupt, Call, RingIsFull, WaitForState, SyncWriteReturns,
       Start, NothingToSend, Send, EnableTxLevel, NothingToRelease, TakeEvents, Restart,
       CountBytes, CopyByte, RunTask, UsartShifts, UsartTxByte, UsartRxByte, vars
  <2> QED
    BY <2>1, <2>2, RingFrame DEF SerialInv
<1> QED
  BY <1>1, <1>2
-----------------------------------------------------------------------------
(* The driver.                                                             *)

LEMMA DriverFrame ==
    ASSUME DriverInv, UNCHANGED <<state, txSize, txData, txLevel, sent>>, Taken' = Taken,
           \/ pc' = pc
           \/ /\ pc \notin {"start", "send", "enable"}
              /\ pc' \notin {"send", "enable", "drain"}
    PROVE  DriverInv'
  BY DEF DriverInv, InBlock, Done

LEMMA DriverStep == SerialInv /\ [Next]_vars => DriverInv'
<1> SUFFICES ASSUME SerialInv, [Next]_vars PROVE DriverInv'
  OBVIOUS
<1>0. DriverInv /\ Taken \in 0 .. MaxWrites /\ sent.block \in Nat
  BY TxTypes DEF SerialInv
<1>1. CASE Send
  <2>1. Taken' = Taken
    BY <1>1, TakenStep DEF Send, TakeSlot
  <2>2. state = 1 /\ pc = "send"
    BY <1>0, <1>1 DEF Send, DriverInv
  <2>3. Length[sent.block + 1] \in Nat
    <3>1. sent.block + 1 \in 1 .. MaxWrites
      <4>1. sent.block < Taken
        BY <1>1, SendStep
      <4> QED
        BY <4>1, <1>0, SerialAssumption
    <3> QED
      BY <3>1, SerialAssumption
  <2>4. sent'.block = sent.block + 1 /\ sent'.bytes = 1
    BY <1>1, SendStep
  <2> QED
    BY <2>1, <2>2, <2>3, <2>4, <1>0, <1>1, SendStep DEF DriverInv
<1>2. CASE EnableTxLevel
  <2>1. Taken' = Taken
    BY <1>2, TakenStep DEF EnableTxLevel, TakeSlot
  <2>2. /\ pc = "enable" /\ txLevel' /\ pc' \in {"wait", "idle"}
        /\ UNCHANGED <<state, txSize, txData, sent>>
    BY <1>2 DEF EnableTxLevel, AfterWrite
  <2> QED
    BY <1>0, <2>1, <2>2 DEF DriverInv, InBlock
<1>3. CASE Start
  <2>1. Taken' = Taken
    BY <1>3, TakenStep DEF Start, TakeSlot
  <2>2. /\ pc = "start" /\ UNCHANGED <<txSize, txData, txLevel, sent>>
        /\ \/ state = 0 /\ state' = 1 /\ pc' = "send"
           \/ state # 0 /\ state' = state /\ pc' \in {"wait", "idle"}
    BY <1>3 DEF Start, AfterWrite, driver
  <2>3. state \in {0, 1}
    BY DEF SerialInv, TypeOK
  <2> QED
    BY <1>0, <2>1, <2>2, <2>3 DEF DriverInv, InBlock, Done
<1>4. CASE NothingToSend
  <2>1. Taken' = Taken
    BY <1>4, TakenStep DEF NothingToSend, TakeSlot
  <2>2. /\ pc = "send" /\ UNCHANGED <<txSize, txData, txLevel, sent>>
        /\ state' = 0 /\ pc' \in {"wait", "idle"}
    BY <1>4 DEF NothingToSend, AfterWrite, driver
  <2>3. Done = Taken
    BY <1>4, CurrentBlock DEF NothingToSend
  <2> QED
    BY <1>0, <2>1, <2>2, <2>3 DEF DriverInv, InBlock, Done
<1>5. CASE TakeSlot
  <2>1. Taken' = Taken + 1
    BY <1>5 DEF TakeSlot, Taken, Putting, SerialInv, FlowInv, TypeOK
  <2>2. /\ pc = "take" /\ pc' = "start"
        /\ UNCHANGED <<state, txSize, txData, txLevel, sent>>
    BY <1>5 DEF TakeSlot, driver
  <2> QED
    BY <1>0, <2>1, <2>2 DEF DriverInv, InBlock
<1>6. CASE WaitForState
  <2>1. Taken' = Taken
    BY <1>6, TakenStep DEF WaitForState, TakeSlot
  <2>2. /\ pc = "wait" /\ state = 0 /\ pc' = "drain"
        /\ UNCHANGED <<state, txSize, txData, txLevel, sent>>
    BY <1>6 DEF WaitForState, driver
  <2> QED
    BY <1>0, <2>1, <2>2 DEF DriverInv, InBlock, Done
<1>7. CASE UsartTxByte
  <2>1. Taken' = Taken
    BY <1>7, TakenStep, TxByteStep DEF Taken, Putting
  <2>2. sent \in [block : 0 .. MaxWrites, bytes : Nat] /\ txSize \in Nat
    BY DEF SerialInv, TypeOK
  <2>3. sent'.block = sent.block /\ sent'.bytes = sent.bytes + 1
    BY <1>7, <2>2, TxByteStep
  <2>4. sent.bytes + txSize = Length[sent.block] /\ txData = sent.block /\ sent.block <= Taken
    BY <1>0, <1>7, TxByteStep DEF DriverInv
  <2> QED
    BY <2>1, <2>2, <2>3, <2>4, <1>0, <1>7, TxByteStep DEF DriverInv, InBlock
<1>8. CASE UsartTxEnds
  <2>1. Taken' = Taken /\ pc' = pc /\ pc \notin {"send", "enable", "drain"}
    BY <1>0, <1>8, TxEndStep DEF Taken, Putting, DriverInv
  <2>2. Length[sent.block + 1] \in Nat \/ ~(sent.block < Taken)
    <3>1. sent.block < Taken => sent.block + 1 \in 1 .. MaxWrites
      BY <1>0, SerialAssumption
    <3> QED
      BY <3>1, SerialAssumption
  <2>3. CASE /\ InBlock' /\ state' = 1
             /\ sent' = [block |-> sent.block + 1, bytes |-> 1]
             /\ txData' = sent.block + 1 /\ sent.block < Taken
             /\ txSize' = Length[sent.block + 1] - 1
    <3>1. sent'.block = sent.block + 1 /\ sent'.bytes = 1
      BY <2>3
    <3> QED
      BY <1>0, <2>1, <2>2, <2>3, <3>1 DEF DriverInv, InBlock
  <2>4. CASE ~InBlock' /\ state' = 0 /\ sent' = sent /\ txSize' = 0 /\ Done' = Taken
    <3>1. sent'.bytes = Length[sent'.block]
      BY <1>8, <2>4, TxEndStep
    <3> QED
      BY <1>0, <2>1, <2>4, <3>1 DEF DriverInv, InBlock
  <2> QED
    BY <1>8, <2>3, <2>4, TxEndStep
<1>9. ASSUME UNCHANGED <<state, txSize, txData, txLevel, sent>>, ~TakeSlot,
             \/ pc' = pc
             \/ /\ pc \notin {"start", "send", "enable"}
                /\ pc' \notin {"send", "enable", "drain"}
      PROVE  DriverInv'
  <2>1. Taken' = Taken
    BY <1>9, TakenStep
  <2> QED
    BY <1>0, <1>9, <2>1, DriverFrame
<1>10. CASE (\E f \in Writers : Call(f)) \/ RingIsFull \/ SyncWriteReturns
  BY <1>9, <1>10 DEF Call, RingIsFull, SyncWriteReturns, TakeSlot, driver
<1>11. CASE ReleaseSlot \/ NothingToRelease
  BY <1>9, <1>11 DEF ReleaseSlot, NothingToRelease, AfterMaintenance, TakeSlot, driver
<1>12. CASE TakeEvents \/ Restart \/ CountBytes \/ CopyByte \/ RunTask
  BY <1>9, <1>12 DEF TakeEvents, Restart, CountBytes, CopyByte, RunTask, AfterRx, TakeSlot,
     driver
<1>13. CASE UsartShifts \/ UsartRxByte \/ UNCHANGED vars
  <2>1. ~TakeSlot
    BY <1>13 DEF UsartShifts, UsartRxByte, TakeSlot, vars
  <2> QED
    BY <1>9, <1>13, <2>1 DEF UsartShifts, UsartRxByte, vars, driver
<1> QED
  BY <1>1, <1>2, <1>3, <1>4, <1>5, <1>6, <1>7, <1>8, <1>10, <1>11, <1>12, <1>13
     DEF Next, Thread, Interrupt

-----------------------------------------------------------------------------
(* Releasing.                                                              *)

LEMMA ReleaseFrame ==
    ASSUME ReleaseInv, UNCHANGED <<releases, ring, writes>>,
           Taken' = Taken, Done' = Done, Lending' => Lending
    PROVE  ReleaseInv'
  BY DEF ReleaseInv, ring, Rel

LEMMA ReleaseTake == SerialInv /\ TakeSlot => ReleaseInv'
<1> SUFFICES ASSUME SerialInv, TakeSlot PROVE ReleaseInv'
  OBVIOUS
<1>1. /\ txNo < N /\ txNo' = txNo + 1
      /\ pData' = [pData EXCEPT ![txIn] = writes]
      /\ txCallback' = [txCallback EXCEPT ![txIn] = caller = "Serial_Print"]
      /\ UNCHANGED <<txOut, releases, writes, caller>>
  BY DEF TakeSlot, SlotIsFree, N, locals
<1>2. Done' = Done
  BY DoneStep, TxEndStep DEF TakeSlot, Next, Thread, Done, InBlock, driver
<1>3. /\ N \in Nat \ {0} /\ txNo \in 0 .. N /\ Done \in Nat /\ Freed \in Nat
      /\ writes \in 0 .. MaxWrites /\ Taken = writes - 1 /\ Freed = Taken - txNo
      /\ Taken \in 0 .. MaxWrites
  BY TxTypes DEF Freed, TakeSlot, Taken, Putting, SerialInv, FlowInv
<1>4. releases[writes] = 0 /\ writes > Done /\ writes \in 1 .. MaxWrites
  <2>1. Done <= Taken
    BY DEF SerialInv, RingInv
  <2>2. writes > Done /\ writes \in 1 .. MaxWrites
    BY <2>1, <1>3, SerialAssumption
  <2> QED
    BY <2>2 DEF SerialInv, ReleaseInv
<1>5. txIn \in Slots /\ Rel(txIn) = txNo
  <2>1. txIn = Pos(txNo)
    BY DEF SerialInv, RingInv
  <2> QED
    BY <2>1, <1>1, <1>3, RelOfPos
<1>6. \A i : Rel(i)' = Rel(i)
  BY <1>1 DEF Rel
<1>7. ASSUME NEW i \in Slots, i # txIn, Rel(i)' < txNo'
      PROVE  /\ pData'[i] = pData[i] /\ txCallback'[i] = txCallback[i]
             /\ Rel(i) < txNo /\ pData[i] # writes
  <2>1. pData'[i] = pData[i] /\ txCallback'[i] = txCallback[i]
    BY <1>1, <1>7 DEF SerialInv, TypeOK
  <2>2. Rel(i) < txNo /\ Rel(i) \in 0 .. N - 1
    BY <1>1, <1>3, <1>5, <1>6, <1>7, RelDistinct
  <2>3. pData[i] = Freed + 1 + Rel(i)
    BY <2>2 DEF SerialInv, RingInv
  <2> QED
    BY <2>1, <2>2, <2>3, <1>3
<1>8. pData'[txIn] = writes /\ (txCallback'[txIn] => caller = "Serial_Print")
  BY <1>1, <1>5 DEF SerialInv, TypeOK
<1>9. ASSUME NEW i \in Slots, Rel(i)' < txNo', txCallback'[i] PROVE releases'[pData'[i]] = 0
  <2>1. CASE i = txIn
    BY <2>1, <1>1, <1>4, <1>8
  <2>2. CASE i # txIn
    <3>1. /\ pData'[i] = pData[i] /\ txCallback[i] /\ Rel(i) < txNo
      BY <2>2, <1>7, <1>9
    <3>2. releases[pData[i]] = 0
      BY <3>1 DEF SerialInv, ReleaseInv
    <3> QED
      BY <3>1, <3>2, <1>1
  <2> QED
    BY <2>1, <2>2
<1>10. ASSUME Lending', NEW i \in Slots, Rel(i)' < txNo', pData'[i] = writes'
       PROVE  ~txCallback'[i]
  <2>1. i = txIn
    BY <1>1, <1>7, <1>10
  <2> QED
    BY <2>1, <1>1, <1>8, <1>10 DEF Lending
<1> QED
  BY <1>1, <1>2, <1>4, <1>9, <1>10 DEF ReleaseInv, Slots, SerialInv

\* Maintenance runs the callback of a block that is done, and of no other.
LEMMA ReleaseRelease == SerialInv /\ ReleaseSlot => ReleaseInv'
<1> SUFFICES ASSUME SerialInv, ReleaseSlot PROVE ReleaseInv'
  OBVIOUS
<1>1. /\ txNo > 0 /\ txNo' = txNo - 1 /\ txOut' = Inc(txOut, N)
      /\ IF txCallback[txOut] THEN Release(pData[txOut]) ELSE UNCHANGED releases
      /\ txCallback' = [txCallback EXCEPT ![txOut] = FALSE]
      /\ pc' \in {"maintain", "restart", "take"}
      /\ UNCHANGED <<pData, writes>>
  BY DEF ReleaseSlot, N, AfterMaintenance
<1>2. /\ N \in Nat \ {0} /\ txNo \in 0 .. N /\ Freed \in Nat /\ Done \in Nat
      /\ txOut \in 0 .. N - 1 /\ Slots = 0 .. N - 1 /\ Taken \in 0 .. MaxWrites
      /\ Done <= Taken
  BY TxTypes DEF SerialInv, RingInv
<1>3. Done' = Done
  BY DoneStep DEF ReleaseSlot, Next, Thread, Done, InBlock, driver, AfterMaintenance
<1>4. Freed < Done /\ pData[txOut] = Freed + 1 /\ pData[txOut] \in 1 .. MaxWrites
  <2>1. Freed < Done /\ pData[txOut] = Freed + 1
    BY RingReleaseSlot
  <2> QED
    BY <2>1, <1>2, SerialAssumption
<1>5. \A w \in 1 .. MaxWrites :
         releases'[w] = IF txCallback[txOut] /\ w = pData[txOut] THEN releases[w] + 1
                                                               ELSE releases[w]
  BY <1>1 DEF Release, SerialInv, TypeOK
<1>6. Rel(txOut) = 0 /\ (txCallback[txOut] => releases[pData[txOut]] = 0)
  <2>1. Rel(txOut) = 0
    BY <1>2 DEF Rel
  <2> QED
    BY <2>1, <1>1, <1>2 DEF SerialInv, ReleaseInv
<1>7. \A w \in 1 .. MaxWrites : releases'[w] <= 1
  BY <1>5, <1>6 DEF SerialInv, ReleaseInv
<1>8. \A w \in 1 .. MaxWrites : w > Done' => releases'[w] = 0
  BY <1>2, <1>3, <1>4, <1>5 DEF SerialInv, ReleaseInv
<1>9. ASSUME NEW i \in Slots, Rel(i)' < txNo', txCallback'[i] PROVE releases'[pData'[i]] = 0
  <2>1. i # txOut /\ txCallback[i]
    BY <1>1, <1>9 DEF SerialInv, TypeOK
  <2>2. Rel(i)' = Rel(i) - 1 /\ Rel(i) \in 1 .. N - 1
    BY <2>1, <1>1, <1>2 DEF Rel, Inc
  <2>3. Rel(i) < txNo
    BY <2>2, <1>1, <1>2, <1>9
  <2>4. pData[i] = Freed + 1 + Rel(i) /\ releases[pData[i]] = 0
    BY <2>1, <2>3 DEF SerialInv, RingInv, ReleaseInv
  <2>5. pData[i] # pData[txOut] /\ pData[i] \in 1 .. MaxWrites
    <3>1. Freed = Taken - txNo
      BY DEF Freed
    <3> QED
      BY <3>1, <2>2, <2>3, <2>4, <1>2, <1>4, SerialAssumption
  <2> QED
    BY <2>4, <2>5, <1>1, <1>5
<1>10. ~Lending'
  BY <1>1 DEF Lending
<1> QED
  BY <1>7, <1>8, <1>9, <1>10 DEF ReleaseInv, Slots

\* A lent buffer goes back to its caller when everything has been sent.
LEMMA ReleaseReturn == SerialInv /\ SyncWriteReturns => ReleaseInv'
<1> SUFFICES ASSUME SerialInv, SyncWriteReturns PROVE ReleaseInv'
  OBVIOUS
<1>1. /\ pc = "drain" /\ pc' = "idle" /\ Release(writes)
      /\ UNCHANGED <<ring, writes, driver, caller>>
  BY DEF SyncWriteReturns, locals
<1>2. caller = "Serial_SyncWrite" /\ writes \in 1 .. MaxWrites
  BY <1>1, SerialAssumption DEF SerialInv, FlowInv, TypeOK, Writers
<1>3. Done = writes /\ Done' = Done
  <2>1. ~InBlock
    BY <1>1 DEF SerialInv, DriverInv
  <2>2. Done = Taken /\ Taken = writes
    BY <2>1, <1>1 DEF SerialInv, DriverInv, Taken, Putting
  <2>3. Done' = Done
    BY <1>1, <2>1 DEF driver, Done, InBlock
  <2> QED
    BY <2>2, <2>3
<1>4. /\ releases[writes] = 0
      /\ \A i \in Slots : Rel(i) < txNo /\ pData[i] = writes => ~txCallback[i]
  BY <1>1, <1>2 DEF SerialInv, ReleaseInv, Lending
<1>5. \A w \in 1 .. MaxWrites :
         releases'[w] = IF w = writes THEN releases[w] + 1 ELSE releases[w]
  BY <1>1 DEF Release, SerialInv, TypeOK
<1>6. \A i \in Slots : Rel(i)' = Rel(i)
  BY <1>1 DEF ring, Rel
<1>7. ASSUME NEW i \in Slots, Rel(i) < txNo, txCallback[i] PROVE releases'[pData[i]] = 0
  <2>1. pData[i] # writes /\ releases[pData[i]] = 0
    BY <1>4, <1>7 DEF SerialInv, ReleaseInv
  <2> QED
    BY <2>1, <1>1 DEF Release, SerialInv, TypeOK
<1>8. ~Lending'
  BY <1>1 DEF Lending
<1>9. /\ \A w \in 1 .. MaxWrites : releases'[w] <= 1
      /\ \A w \in 1 .. MaxWrites : w > Done' => releases'[w] = 0
  BY <1>2, <1>3, <1>4, <1>5 DEF SerialInv, ReleaseInv
<1> QED
  BY <1>1, <1>6, <1>7, <1>8, <1>9 DEF ReleaseInv, ring

LEMMA ReleaseStep == SerialInv /\ [Next]_vars => ReleaseInv'
<1> SUFFICES ASSUME SerialInv, [Next]_vars PROVE ReleaseInv'
  OBVIOUS
<1>0. ReleaseInv /\ Done \in Nat
  BY TxTypes DEF SerialInv
<1>1. CASE TakeSlot \/ ReleaseSlot \/ SyncWriteReturns
  BY <1>1, ReleaseTake, ReleaseRelease, ReleaseReturn
<1>2. CASE UsartTxEnds
  <2>1. /\ Done' = Done + 1 /\ UNCHANGED <<releases, writes, pc, caller>>
        /\ UNCHANGED <<txCallback, pData, txOut, txNo>>
    BY <1>2, TxEndStep
  <2> QED
    BY <1>0, <2>1 DEF ReleaseInv, Lending, Rel
<1>3. ASSUME NEW f \in Writers, Call(f) PROVE ReleaseInv'
  <2>1. ~Lending' /\ UNCHANGED <<ring, releases>> /\ Done' = Done
    BY <1>3 DEF Call, Lending, Done, InBlock, driver
  <2> QED
    BY <1>0, <2>1 DEF ReleaseInv, ring, Rel
<1>4. CASE Send
  <2>1. Taken' = Taken /\ Done' = Done
    <3>1. Taken' = Taken
      BY <1>4, TakenStep DEF Send, TakeSlot
    <3>2. sent.block \in Nat
      BY TxTypes
    <3> QED
      BY <3>1, <3>2, <1>4, SendStep DEF Done
  <2>2. Lending' => Lending
    BY <1>4, SendStep DEF Send, Lending
  <2> QED
    BY <1>0, <1>4, <2>1, <2>2, SendStep, ReleaseFrame
<1>5. CASE \/ RingIsFull \/ WaitForState \/ Start \/ NothingToSend \/ EnableTxLevel
           \/ NothingToRelease \/ TakeEvents \/ Restart \/ CountBytes \/ CopyByte
           \/ RunTask \/ UsartShifts \/ UsartTxByte \/ UsartRxByte \/ UNCHANGED vars
  <2>1. CASE TakeSlot \/ UsartTxEnds
    BY <2>1, <1>1, <1>2
  <2>2. CASE ~(TakeSlot \/ UsartTxEnds)
    <3>1. Taken' = Taken /\ Done' = Done
      BY <2>2, TakenStep, DoneStep
    <3>2. UNCHANGED <<releases, ring, writes>>
      BY <1>5 DEF RingIsFull, WaitForState, Start, NothingToSend, EnableTxLevel,
         NothingToRelease, TakeEvents, Restart, CountBytes, CopyByte, RunTask, UsartShifts,
         UsartTxByte, UsartRxByte, vars
    <3>3. Lending' => Lending
      BY <1>5 DEF RingIsFull, WaitForState, Start, NothingToSend, EnableTxLevel,
         NothingToRelease, TakeEvents, Restart, CountBytes, CopyByte, RunTask, UsartShifts,
         UsartTxByte, UsartRxByte, vars, AfterWrite, AfterMaintenance, AfterRx, Lending,
         locals, SerialInv, FlowInv
    <3> QED
      BY <1>0, <3>1, <3>2, <3>3, ReleaseFrame
  <2> QED
    BY <2>1, <2>2
<1> QED
  BY <1>1, <1>2, <1>3, <1>4, <1>5 DEF Next, Thread, Interrupt
-----------------------------------------------------------------------------
(* The theorems.                                                           *)

LEMMA SerialInvariant == Spec => []SerialInv
<1>1. Init => SerialInv
  BY SerialInit
<1>2. SerialInv /\ [Next]_vars => SerialInv'
  <2> SUFFICES ASSUME SerialInv, [Next]_vars PROVE SerialInv'
    OBVIOUS
  <2> QED
    BY TypeStep, FlowStep, RingStep, DriverStep, ReleaseStep, RxStep DEF SerialInv
<1> QED
  BY <1>1, <1>2, PTL DEF Spec

\* The state of the serial manager and the driver stays well typed: indices
\* stay in their rings, counts never go below zero.
THEOREM SerialTypeCorrect == Spec => []TypeOK
<1>1. SerialInv => TypeOK
  BY DEF SerialInv
<1> QED
  BY <1>1, SerialInvariant, PTL

\* Bytes go out in the order they were written, whatever the length of the
\* blocks and of the ring, and wherever the interrupt falls.
THEOREM BytesInOrder == Spec => SendsInOrder
<1> DEFINE InOrder ==
      sent' # sent =>
          \/ /\ sent.block > 0 /\ sent.bytes < Length[sent.block]
             /\ sent' = [sent EXCEPT !.bytes = @ + 1]
          \/ /\ sent.block > 0 => sent.bytes = Length[sent.block]
             /\ sent' = [block |-> sent.block + 1, bytes |-> 1]
<1>1. SerialInv /\ [Next]_vars => [InOrder]_vars
  <2> SUFFICES ASSUME SerialInv, [Next]_vars, sent' # sent PROVE InOrder
    OBVIOUS
  <2>0. sent.block \in Nat
    BY TxTypes
  <2>1. CASE Send
    <3>1. ~InBlock
      BY <2>1, SendStep
    <3>2. sent.block > 0 => sent.bytes = Length[sent.block]
      BY <3>1, <2>0 DEF SerialInv, DriverInv
    <3> QED
      BY <2>1, <3>2, SendStep
  <2>2. CASE UsartTxByte
    BY <2>0, <2>2, TxByteStep
  <2>3. CASE UsartTxEnds
    BY <2>0, <2>3, TxEndStep
  <2>4. Send \/ UsartTxByte \/ UsartTxEnds
    BY DEF Next, Thread, Interrupt, Call, TakeSlot, RingIsFull, WaitForState, SyncWriteReturns,
       Start, NothingToSend, EnableTxLevel, ReleaseSlot, NothingToRelease, TakeEvents,
       Restart, CountBytes, CopyByte, RunTask, UsartShifts, UsartRxByte, vars, driver
  <2> QED
    BY <2>1, <2>2, <2>3, <2>4
<1> QED
  BY <1>1, SerialInvariant, PTL DEF Spec, SendsInOrder

\* A buffer is released at most once, and only after its last byte was read by
\* the driver: the callbacks of maintenance and the return of a synchronous
\* write come after the end of their block.
THEOREM BuffersReleasedOnce == Spec => []BuffersAreHeld
<1>1. SerialInv => BuffersAreHeld
  <2> SUFFICES ASSUME SerialInv, NEW w \in 1 .. MaxWrites
               PROVE  releases[w] <= IF HasBeenSent(w) THEN 1 ELSE 0
    BY DEF BuffersAreHeld
  <2>1. releases[w] <= 1 /\ (w > Done => releases[w] = 0)
    BY DEF SerialInv, ReleaseInv
  <2>2. ~(w > Done) => HasBeenSent(w)
    <3>1. sent.block \in Nat /\ w \in Nat /\ w >= 1
      BY TxTypes, SerialAssumption
    <3>2. CASE InBlock
      BY <3>1, <3>2 DEF Done, HasBeenSent
    <3>3. CASE ~InBlock
      BY <3>1, <3>3 DEF Done, HasBeenSent, SerialInv, DriverInv
    <3> QED
      BY <3>2, <3>3
  <2> QED
    BY <2>1, <2>2
<1> QED
  BY <1>1, SerialInvariant, PTL

\* Whatever the reader asks for and whenever the interrupt adds a byte, what
\* is read is the oldest byte the ring still holds.
THEOREM OldestByteFirst == Spec => ReadsInOrder
<1> DEFINE Oldest ==
      read' # read =>
          read' = IF received > read + gSerialMgrRxBufSize_c
                     THEN received - gSerialMgrRxBufSize_c + 1
                     ELSE read + 1
<1>1. SerialInv /\ [Next]_vars => [Oldest]_vars
  <2> SUFFICES ASSUME SerialInv, [Next]_vars, read' # read PROVE Oldest
    OBVIOUS
  <2>1. CopyByte
    BY DEF Next, Thread, Interrupt, Call, TakeSlot, RingIsFull, WaitForState, SyncWriteReturns,
       Start, NothingToSend, Send, EnableTxLevel, ReleaseSlot, NothingToRelease, TakeEvents,
       Restart, CountBytes, RunTask, UsartShifts, UsartTxByte, UsartTxEnds, UsartRxByte, vars, rx
  <2>2. read' = received - Used + 1
    BY <2>1, CopyStep
  <2>3. received - Used = IF received > read + gSerialMgrRxBufSize_c
                             THEN received - gSerialMgrRxBufSize_c ELSE read
    BY DEF SerialInv, RxInv
  <2> QED
    BY <2>2, <2>3
<1> QED
  BY <1>1, SerialInvariant, PTL DEF Spec, ReadsInOrder
=============================================================================
