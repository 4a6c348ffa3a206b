---------------------------- MODULE UsartProofs ----------------------------
(***************************************************************************)
(* The safety properties of UsartStream hold for buffers of every size and *)
(* any number of bytes.  SendInv and ReceiveInv are about the tokens: no   *)
(* wake-up is lost, and the interrupt storm takes a refused, overtaken or  *)
(* timed-out reception.  TxInv and RxInv are about the bytes, and need the *)
(* former.  The handler is the only step that touches both directions.     *)
(***************************************************************************)
EXTENDS UsartStream, SequenceTheorems, TLAPS

-----------------------------------------------------------------------------
(* Time *)

\* usart_cfg.c:26 with projdefs.h:40: a timeout of portMAX_DELAY milliseconds is
\* 4294966 ticks on a 32-bit tick counter of 1 kHz, 71 minutes, not "for ever".
THEOREM PortTimeoutIsFinite ==
  ASSUME TickRange = 4294967296, tx_rx_timeout = portMAX_DELAY
  PROVE  pdMS_TO_TICKS(tx_rx_timeout) = 4294966 /\ MayTimeOut
  <1>1. portMAX_DELAY = 4294967295
    BY DEF portMAX_DELAY
  <1>2. (4294967295 * 1000) % 4294967296 = 4294966296
    OBVIOUS
  <1>3. pdMS_TO_TICKS(tx_rx_timeout) = 4294966
    BY <1>1, <1>2 DEF pdMS_TO_TICKS
  <1> QED  BY <1>1, <1>3 DEF MayTimeOut

-----------------------------------------------------------------------------
(* The invariants *)

Sending == {"claim", "start", "wait", "free"}
Loaded == {"token", "state", "claim", "start"}
Receiving == {"idle", "start", "errors", "requests", "wait", "free"}
Begun == {"start", "errors", "requests", "wait"}
Outside == {"free", "put", "token", "state", "idle"}
Upset == Slipped({"early_idle", "refused_rx", "timeout"})

\* A transmission that has been claimed is followed by one end of transmission,
\* which finds tx_state as the task set it.
SendInv ==
  /\ gState \in {"READY", "BUSY"} /\ txlen \in Nat
  /\ tx_sem \in BOOLEAN /\ TCIE \in BOOLEAN
  /\ write_buf \in Seq(Nat) /\ written \in Nat
  /\ gState = "READY" => txlen = 0 /\ ~TCIE
  /\ TCIE => txlen = 0
  /\ wpc \in Loaded => length \in Nat \ {0}
  /\ wpc \in Sending => tx_state = "TRANSMIT"
  /\ wpc = "start" => gState = "BUSY" /\ txlen = 0 /\ ~TCIE
  /\ wpc = "wait" /\ ~tx_sem => gState = "BUSY" /\ (txlen > 0 \/ TCIE)

\* The idle interrupt is enabled from the start of a reception until it comes; when
\* nothing goes wrong it comes inside the call.
ReceiveInv ==
  /\ rpc \in Receiving \cup {"put", "token", "state"}
  /\ rx_state = IF rpc \in Receiving THEN "RECEIVE" ELSE "FREE"
  /\ rx_sem \in BOOLEAN /\ IDLEIE \in BOOLEAN
  /\ rpc \in Begun /\ ~rx_sem => IDLEIE
  /\ ~Upset => /\ rpc \in Outside => ~IDLEIE
               /\ rpc \in {"state", "idle", "start", "errors", "requests"} => ~rx_sem
               /\ rpc = "wait" /\ rx_sem => ~IDLEIE

IInv == SendInv /\ ReceiveInv

\* The variables of one direction.
sendvars == <<gState, txlen, TCIE, tx_state, tx_sem, write_buf, written, wpc, length>>
receivevars == <<rx_state, rx_sem, IDLEIE, rpc, slips>>

LEMMA SendKept ==
  ASSUME SendInv, UNCHANGED sendvars
  PROVE  SendInv'
  BY DEF SendInv, sendvars, Loaded, Sending

\* slips only grows, and a reception that was upset has no more to keep.
LEMMA ReceiveKept ==
  ASSUME ReceiveInv, UNCHANGED <<rx_state, rx_sem, IDLEIE, rpc>>, slips \subseteq slips'
  PROVE  ReceiveInv'
  BY DEF ReceiveInv, Upset, Slipped, Receiving, Begun, Outside

-----------------------------------------------------------------------------
(* Each step keeps them *)

LEMMA WriteTaskStep ==
  ASSUME IInv, usart_write_task
  PROVE  IInv'
  <1> USE DEF WStep
  <1>1. ReceiveInv'
    <2>1. UNCHANGED <<rx_state, rx_sem, IDLEIE, rpc>> /\ slips \subseteq slips'
      BY DEF usart_write_task, WRead, WToken, WState, WClaim, WRefused, WStart, WWait, WFree,
             rxdrv, idleirq
    <2> QED  BY <2>1, ReceiveKept DEF IInv
  <1>2. SendInv'
    <2> USE DEF IInv, SendInv, Loaded, Sending, txhal, txdrv
    <2>1. CASE WRead
      <3>1. PICK n \in 1 .. Len(write_buf) :
              /\ write_buf' = SubSeq(write_buf, n + 1, Len(write_buf))
              /\ length' = n
        BY <2>1 DEF WRead
      <3>2. write_buf' \in Seq(Nat) /\ length' \in Nat \ {0}
        BY <3>1
      <3> QED  BY <2>1, <3>2 DEF WRead
    <2>2. CASE WToken   BY <2>2 DEF WToken
    <2>3. CASE WState   BY <2>3 DEF WState
    <2>4. CASE WClaim   BY <2>4 DEF WClaim, TransmitClaim, TransmitRefused
    <2>5. CASE WRefused BY <2>5 DEF WRefused
    <2>6. CASE WStart   BY <2>6 DEF WStart, TransmitStart
    <2>7. CASE WWait    BY <2>7 DEF WWait
    <2>8. CASE WFree    BY <2>8 DEF WFree
    <2> QED
      BY <2>1, <2>2, <2>3, <2>4, <2>5, <2>6, <2>7, <2>8 DEF usart_write_task
  <1> QED  BY <1>1, <1>2 DEF IInv

LEMMA ReadTaskStep ==
  ASSUME IInv, usart_read_task \/ RTimeout
  PROVE  IInv'
  <1> USE DEF At
  <1>1. SendInv'
    <2>1. UNCHANGED sendvars
      BY DEF usart_read_task, RTimeout, RToken, RState, RIdle, RStart, RRefused, RErrors,
             RRequests, RWait, RFree, RPut, TakeStaleToken, EnableIdle, ReceiveStart,
             ReceiveErrors, ReceiveRequests, sendvars, txhal, txdrv, writer
    <2> QED  BY <2>1, SendKept DEF IInv
  <1>2. ReceiveInv'
    <2> USE DEF IInv, ReceiveInv, Upset, Slipped, Receiving, Begun, Outside, idleirq, rxdrv
    <2>1. CASE RToken    BY <2>1 DEF RToken, TakeStaleToken
    <2>2. CASE RState    BY <2>2 DEF RState
    <2>3. CASE RIdle     BY <2>3 DEF RIdle, EnableIdle
    <2>4. CASE RStart    BY <2>4 DEF RStart, ReceiveStart
    <2>5. CASE RRefused  BY <2>5 DEF RRefused
    <2>6. CASE RErrors   BY <2>6 DEF RErrors, ReceiveErrors
    <2>7. CASE RRequests BY <2>7 DEF RRequests, ReceiveRequests
    <2>8. CASE RWait     BY <2>8 DEF RWait
    <2>9. CASE RFree     BY <2>9 DEF RFree
    <2>10. CASE RPut     BY <2>10 DEF RPut
    <2>11. CASE RTimeout BY <2>11 DEF RTimeout
    <2> QED
      BY <2>1, <2>2, <2>3, <2>4, <2>5, <2>6, <2>7, <2>8, <2>9, <2>10, <2>11
      DEF usart_read_task
  <1> QED  BY <1>1, <1>2 DEF IInv

\* The end of a transmission gives the token to the task that waits for it, and
\* silence the other; a silence that comes too early is recorded.
LEMMA HandlerStep ==
  ASSUME IInv, Handle
  PROVE  IInv'
  <1>0. HandleTransmission /\ HandleReception /\ UNCHANGED <<rpc, write_buf, written, wpc, length>>
    BY DEF Handle, usart_handler, writer
  <1>1. SendInv'
    <2>1. CASE Completed
      <3>1. gState' = "READY" /\ ~TCIE' /\ tx_sem' = (tx_sem \/ tx_state = "TRANSMIT")
        BY <1>0, <2>1 DEF HandleTransmission, Transmitted, IInv, SendInv, Completed
      <3> QED
        BY <1>0, <2>1, <3>1
        DEF HandleTransmission, Completed, IInv, SendInv, Loaded, Sending
    <2>2. CASE ~Completed
      <3>1. UNCHANGED <<gState, TCIE>> /\ tx_sem' \in BOOLEAN /\ (tx_sem => tx_sem')
        BY <1>0, <2>2 DEF HandleTransmission, IInv, SendInv
      <3> QED
        BY <1>0, <3>1 DEF HandleTransmission, IInv, SendInv, Loaded, Sending
    <2> QED  BY <2>1, <2>2
  <1>2. ReceiveInv'
    <2>1. slips \subseteq slips'
      BY DEF Handle
    <2>2. CASE Received
      <3>1. ~IDLEIE' /\ rx_sem' /\ rx_sem' \in BOOLEAN /\ IDLEIE' \in BOOLEAN
            /\ UNCHANGED <<rx_state, rpc>>
        BY <1>0, <2>2 DEF HandleReception
      <3>2. rpc \in {"idle", "start", "errors", "requests"} => Upset'
        BY <2>2 DEF Handle, Starting, Upset, Slipped
      <3> QED
        BY <2>1, <2>2, <3>1, <3>2 DEF Received, IInv, ReceiveInv, Receiving, Begun, Outside
    <2>3. CASE ~Received
      <3>1. UNCHANGED <<rx_state, rx_sem, IDLEIE, rpc>>
        BY <1>0, <2>3 DEF HandleReception, idleirq
      <3> QED  BY <2>1, <3>1, ReceiveKept DEF IInv
    <2> QED  BY <2>2, <2>3
  <1> QED  BY <1>1, <1>2 DEF IInv

LEMMA PortStep ==
  ASSUME IInv, Arrive \/ Line \/ Transmission \/ usart_write
  PROVE  IInv'
  <1>1. UNCHANGED <<rx_state, rx_sem, IDLEIE, rpc, slips>>
    BY DEF Arrive, Line, Transmission, usart_write, ReceiveByte, Silence, TransmitByte,
           usart_dma_tx_handler, uvars, idleirq, rxdrv
  <1>2. ReceiveInv'
    BY <1>1, ReceiveKept DEF IInv
  <1>3. CASE Arrive \/ Line
    <2>1. UNCHANGED sendvars
      BY <1>3 DEF Arrive, Line, ReceiveByte, Silence, sendvars, txhal, txdrv, writer
    <2> QED  BY <2>1, <1>2, SendKept DEF IInv
  <1>4. CASE TransmitByte /\ UNCHANGED writer
    <2>1. UNCHANGED sendvars
      BY <1>4 DEF TransmitByte, sendvars, txdrv, writer
    <2> QED  BY <2>1, <1>2, SendKept DEF IInv
  <1>5. CASE usart_dma_tx_handler /\ UNCHANGED writer
    BY <1>2, <1>5 DEF usart_dma_tx_handler, txdrv, writer, IInv, SendInv, Loaded, Sending
  <1>6. CASE usart_write
    <2>1. UNCHANGED <<gState, txlen, TCIE, tx_state, tx_sem, wpc, length>>
      BY <1>6 DEF usart_write, uvars, txhal, txdrv
    <2>2. write_buf' \in Seq(Nat) /\ written' \in Nat
      BY <1>6 DEF usart_write, IInv, SendInv
    <2> QED  BY <1>2, <2>1, <2>2 DEF IInv, SendInv, Loaded, Sending
  <1> QED  BY <1>3, <1>4, <1>5, <1>6 DEF Transmission

-----------------------------------------------------------------------------
(* Types *)

SendType ==
  /\ gState \in {"READY", "BUSY"} /\ tx_state \in {"FREE", "TRANSMIT"}
  /\ TCIE \in BOOLEAN /\ tx_sem \in BOOLEAN
  /\ txbuf \in [1 .. BufSize -> 0 .. MaxWritten] /\ wire \in Seq(0 .. MaxWritten)
  /\ txpos \in 0 .. txlen /\ txlen \in 0 .. BufSize /\ length \in 0 .. BufSize
  /\ wpc \in {"read", "wait", "free"} \cup Loaded
  /\ written \in 0 .. MaxWritten
  /\ write_buf \in Seq(1 .. MaxWritten) /\ Len(write_buf) <= BufSize

ReceiveType ==
  /\ RxState \in {"READY", "BUSY"} /\ rx_state \in {"FREE", "RECEIVE"}
  /\ dma \in BOOLEAN /\ EIE \in BOOLEAN /\ DMAR \in BOOLEAN /\ ORE \in BOOLEAN /\ NE \in BOOLEAN
  /\ active \in BOOLEAN /\ IDLE \in BOOLEAN /\ IDLEIE \in BOOLEAN /\ rx_sem \in BOOLEAN
  /\ rxbuf \in [1 .. BufSize -> 0 .. MaxArrived]
  /\ got \in 0 .. BufSize /\ rx_count \in 0 .. BufSize /\ (dma => got < BufSize)
  /\ arrived \in 0 .. MaxArrived /\ rdr \in 1 .. arrived \cup {None}
  /\ delivered \in Seq(0 .. MaxArrived)
  /\ rpc \in Receiving \cup {"put", "token", "state"}

TypeInv == SendType /\ ReceiveType /\ Lock \in BOOLEAN

\* Everything of one direction.
sendall == <<txhal, txdrv, writer>>
receiveall == <<rxhal, rxbuf, rxline, idleirq, rxdrv, rpc, arrived, delivered>>

LEMMA SendOnly ==
  ASSUME usart_write_task \/ usart_write \/ Transmission
  PROVE  UNCHANGED receiveall /\ slips \subseteq slips' /\ Lock' \in {Lock, TRUE, FALSE}
  <1>1. CASE usart_write_task
    BY <1>1 DEF usart_write_task, WRead, WToken, WState, WClaim, WRefused, WStart, WWait, WFree,
          WStep, TransmitClaim, TransmitStart, receiveall
  <1>2. CASE usart_write \/ Transmission
    BY <1>2 DEF usart_write, Transmission, TransmitByte, usart_dma_tx_handler, uvars, receiveall
  <1> QED  BY <1>1, <1>2

LEMMA ReceiveOnly ==
  ASSUME usart_read_task \/ RTimeout \/ Arrive \/ Line
  PROVE  UNCHANGED sendall /\ slips \subseteq slips' /\ Lock' \in {Lock, TRUE, FALSE}
  <1>1. CASE usart_read_task \/ RTimeout
    BY <1>1 DEF usart_read_task, RTimeout, RToken, RState, RIdle, RStart, RRefused, RErrors,
          RRequests, RWait, RFree, RPut, TakeStaleToken, EnableIdle, ReceiveStart,
          ReceiveErrors, ReceiveRequests, sendall
  <1>2. CASE Arrive \/ Line
    BY <1>2 DEF Arrive, Line, ReceiveByte, Silence, sendall
  <1> QED  BY <1>1, <1>2

LEMMA SendTypeKept ==
  ASSUME SendType, UNCHANGED sendall
  PROVE  SendType'
  BY DEF SendType, sendall, txhal, txdrv, writer

LEMMA ReceiveTypeKept ==
  ASSUME ReceiveType, UNCHANGED receiveall
  PROVE  ReceiveType'
  BY DEF ReceiveType, receiveall, rxhal, rxline, idleirq, rxdrv

LEMMA NextSendType ==
  ASSUME SendType, usart_write_task \/ usart_write \/ Transmission
  PROVE  SendType'
  <1> USE UsartAssumption, StreamAssumption
  <1>1. CASE usart_write
    <2>1. UNCHANGED <<txhal, txdrv, wpc, length>>
      BY <1>1 DEF usart_write, uvars
    <2>2. /\ written' = written + 1 /\ written < MaxWritten
          /\ write_buf' = Append(write_buf, written') /\ Len(write_buf) < BufSize
      BY <1>1 DEF usart_write
    <2>3. written' \in 1 .. MaxWritten
      BY <2>2 DEF SendType
    <2>4. write_buf' \in Seq(1 .. MaxWritten) /\ Len(write_buf') = Len(write_buf) + 1
      BY <2>2, <2>3 DEF SendType
    <2> QED  BY <2>1, <2>2, <2>3, <2>4 DEF SendType, txhal, txdrv
  <1>2. CASE TransmitByte /\ UNCHANGED writer
    <2>1. /\ txpos < txlen /\ txpos' = txpos + 1 /\ wire' = Append(wire, txbuf[txpos + 1])
          /\ UNCHANGED <<gState, txbuf, txlen, TCIE, tx_state, tx_sem>> /\ UNCHANGED writer
      BY <1>2 DEF TransmitByte, txdrv
    <2>2. txpos + 1 \in 1 .. BufSize /\ txpos' \in 0 .. txlen
      BY <2>1 DEF SendType
    <2>3. txbuf[txpos + 1] \in 0 .. MaxWritten
      BY <2>2 DEF SendType
    <2>4. wire' \in Seq(0 .. MaxWritten)
      BY <2>1, <2>3 DEF SendType
    <2> QED  BY <2>1, <2>2, <2>4 DEF SendType, writer
  <1>3. CASE usart_dma_tx_handler /\ UNCHANGED writer
    BY <1>3 DEF usart_dma_tx_handler, SendType, txdrv, writer
  <1>4. CASE WRead
    <2>1. PICK n \in 1 .. Len(write_buf) :
            /\ txbuf' = [i \in 1 .. BufSize |-> IF i <= n THEN write_buf[i] ELSE txbuf[i]]
            /\ write_buf' = SubSeq(write_buf, n + 1, Len(write_buf))
            /\ length' = n
      BY <1>4 DEF WRead
    <2>2. \A i \in 1 .. n : write_buf[i] \in 1 .. MaxWritten
      BY DEF SendType
    <2>3. txbuf' \in [1 .. BufSize -> 0 .. MaxWritten]
      BY <2>1, <2>2 DEF SendType
    <2>4. /\ write_buf' \in Seq(1 .. MaxWritten) /\ Len(write_buf') <= BufSize
          /\ length' \in 0 .. BufSize
      <3>1. PICK s : s = write_buf
        OBVIOUS
      <3>2. s \in Seq(1 .. MaxWritten) /\ Len(s) \in Nat /\ Len(s) <= BufSize /\ n \in 1 .. Len(s)
        BY <3>1 DEF SendType
      <3>3. /\ SubSeq(s, n + 1, Len(s)) \in Seq(1 .. MaxWritten)
            /\ Len(SubSeq(s, n + 1, Len(s))) = Len(s) - n
        BY <3>2
      <3> QED  BY <2>1, <3>1, <3>2, <3>3
    <2>5. wpc' = "token" /\ UNCHANGED <<gState, txpos, txlen, TCIE, wire, tx_state, tx_sem, written>>
      BY <1>4 DEF WRead, WStep, txdrv
    <2> QED  BY <2>3, <2>4, <2>5 DEF SendType, Loaded
  <1>5. CASE WStart
    BY <1>5 DEF WStart, WStep, TransmitStart, SendType, txdrv
  <1>6. CASE WClaim
    BY <1>6 DEF WClaim, WStep, TransmitClaim, SendType, txdrv, Loaded
  <1>7. CASE WToken \/ WState \/ WRefused \/ WWait \/ WFree
    BY <1>7 DEF WToken, WState, WRefused, WWait, WFree, WStep, SendType, txhal, txdrv, Loaded
  <1> QED
    BY <1>1, <1>2, <1>3, <1>4, <1>5, <1>6, <1>7 DEF usart_write_task, Transmission

\* A byte that goes to memory, and the end of a reception with the last one.
LEMMA MoveType ==
  ASSUME ReceiveType, dma, NEW b \in 0 .. MaxArrived, Move(b)
  PROVE  /\ got' = got + 1 /\ got' \in 0 .. BufSize /\ (dma' => got' < BufSize)
         /\ dma' \in BOOLEAN /\ DMAR' = dma'
         /\ EIE' \in BOOLEAN /\ RxState' \in {"READY", "BUSY"}
         /\ rxbuf' \in [1 .. BufSize -> 0 .. MaxArrived]
         /\ \A i \in 1 .. BufSize : rxbuf'[i] = IF i = got + 1 THEN b ELSE rxbuf[i]
  <1>1. got + 1 \in 1 .. BufSize
    BY UsartAssumption DEF ReceiveType
  <1>2. rxbuf' = [rxbuf EXCEPT ![got + 1] = b] /\ got' = got + 1 /\ dma' = ~(got + 1 = BufSize)
        /\ DMAR' = ~(got + 1 = BufSize)
    BY DEF Move
  <1>3. EIE' \in BOOLEAN /\ RxState' \in {"READY", "BUSY"}
    BY DEF Move, ReceiveType
  <1>4. dma' \in BOOLEAN /\ DMAR' = dma' /\ (dma' => got' < BufSize)
    <2>1. CASE got + 1 = BufSize
      BY <1>2, <2>1, Zenon
    <2>2. CASE got + 1 # BufSize
      <3>1. dma' = TRUE /\ DMAR' = TRUE
        BY <1>2, <2>2, Zenon
      <3> QED  BY <1>1, <1>2, <2>2, <3>1, UsartAssumption
    <2> QED  BY <2>1, <2>2
  <1> QED  BY <1>1, <1>2, <1>3, <1>4 DEF ReceiveType

LEMMA NextReceiveType ==
  ASSUME ReceiveType, usart_read_task \/ RTimeout \/ Arrive \/ Line
  PROVE  ReceiveType'
  <1> USE UsartAssumption, StreamAssumption DEF ReceiveType, Receiving, At
  <1>1. CASE RToken
    <2>1. /\ rx_sem' \in BOOLEAN /\ rpc' = "state" /\ UNCHANGED <<rx_state, rx_count, arrived, delivered>>
          /\ UNCHANGED <<RxState, dma, got, EIE, DMAR, rxbuf, rdr, ORE, NE, active, IDLE, IDLEIE>>
      BY <1>1 DEF RToken, TakeStaleToken, rxhal, rxline, idleirq
    <2> QED  BY <2>1
  <1>2. CASE RState  BY <1>2 DEF RState, rxhal, rxline, idleirq
  <1>3. CASE RIdle   BY <1>3 DEF RIdle, EnableIdle, rxhal, rxline, rxdrv
  <1>4. CASE RStart  BY <1>4 DEF RStart, ReceiveStart, rxline, idleirq, rxdrv
  <1>5. CASE RRefused \/ RTimeout
    BY <1>5 DEF RRefused, RTimeout, rxhal, rxline, idleirq, rxdrv
  <1>6. CASE RErrors BY <1>6 DEF RErrors, ReceiveErrors, rxline, idleirq, rxdrv
  <1>7. CASE RRequests
    <2>1. rpc' = "wait" /\ UNCHANGED <<ORE, NE, active, idleirq, rxdrv, arrived, delivered>>
      BY <1>7 DEF RRequests, ReceiveRequests
    <2>2. CASE dma /\ rdr # None
      <3>1. Move(rdr) /\ rdr' = None
        BY <1>7, <2>2 DEF RRequests, ReceiveRequests
      <3>2. rdr \in 0 .. MaxArrived
        BY <2>2
      <3> HIDE DEF ReceiveType
      <3>3. /\ got' \in 0 .. BufSize /\ (dma' => got' < BufSize)
            /\ dma' \in BOOLEAN /\ DMAR' \in BOOLEAN
            /\ EIE' \in BOOLEAN /\ RxState' \in {"READY", "BUSY"}
            /\ rxbuf' \in [1 .. BufSize -> 0 .. MaxArrived]
        BY <2>2, <3>1, <3>2, MoveType
      <3> QED  BY <2>1, <3>1, <3>3 DEF ReceiveType, idleirq, rxdrv
    <2>3. CASE ~(dma /\ rdr # None)
      <3>1. DMAR' = TRUE /\ UNCHANGED <<RxState, dma, got, EIE, rxbuf, rdr>>
        BY <1>7, <2>3 DEF RRequests, ReceiveRequests
      <3> QED  BY <2>1, <3>1 DEF idleirq, rxdrv
    <2> QED  BY <2>2, <2>3
  <1>8. CASE RWait
    <2>1. /\ rx_sem' \in BOOLEAN /\ rpc' = "free" /\ UNCHANGED <<rx_state, rx_count, arrived, delivered>>
          /\ UNCHANGED <<RxState, dma, got, EIE, DMAR, rxbuf, rdr, ORE, NE, active, IDLE, IDLEIE>>
      BY <1>8 DEF RWait, rxhal, rxline, idleirq
    <2> QED  BY <2>1
  <1>9. CASE RFree   BY <1>9 DEF RFree, rxhal, rxline, idleirq
  <1>10. CASE RPut
    <2>1. /\ delivered' = delivered \o SubSeq(rxbuf, 1, rx_count) /\ rpc' = "token"
          /\ UNCHANGED <<rxhal, rxbuf, rxline, idleirq, rxdrv, arrived>>
      BY <1>10 DEF RPut
    <2>2. SubSeq(rxbuf, 1, rx_count) \in Seq(0 .. MaxArrived)
      OBVIOUS
    <2>3. delivered' \in Seq(0 .. MaxArrived)
      BY <2>1, <2>2
    <2> QED  BY <2>1, <2>3 DEF rxhal, rxline, idleirq, rxdrv
  <1>11. CASE Arrive
    <2>1. /\ arrived' = arrived + 1 /\ arrived' \in 1 .. MaxArrived
          /\ UNCHANGED <<idleirq, rxdrv, rpc, delivered>>
      BY <1>11 DEF Arrive, ReceiveByte
    <2>2. /\ active' = TRUE /\ NE' \in BOOLEAN
          /\ \/ DMAR /\ dma /\ Move(arrived') /\ UNCHANGED <<rdr, ORE>>
             \/ /\ rdr' = (IF rdr = None THEN arrived' ELSE rdr)
                /\ ORE' \in BOOLEAN
                /\ UNCHANGED <<rxhal, rxbuf>>
      BY <1>11 DEF Arrive, ReceiveByte
    <2>3. CASE DMAR /\ dma /\ Move(arrived') /\ UNCHANGED <<rdr, ORE>>
      <3> HIDE DEF ReceiveType
      <3>1. arrived' \in 0 .. MaxArrived
        BY <2>1
      <3>2. PICK b \in 0 .. MaxArrived : b = arrived'
        BY <3>1
      <3>3. /\ got' \in 0 .. BufSize /\ (dma' => got' < BufSize)
            /\ dma' \in BOOLEAN /\ DMAR' \in BOOLEAN
            /\ EIE' \in BOOLEAN /\ RxState' \in {"READY", "BUSY"}
            /\ rxbuf' \in [1 .. BufSize -> 0 .. MaxArrived]
        BY <2>3, <3>2, MoveType
      <3> QED  BY <2>1, <2>2, <2>3, <3>3 DEF ReceiveType, idleirq, rxdrv
    <2>4. CASE /\ rdr' = (IF rdr = None THEN arrived' ELSE rdr)
               /\ ORE' \in BOOLEAN
               /\ UNCHANGED <<rxhal, rxbuf>>
      <3>1. rdr' \in 1 .. arrived' \cup {None}
        BY <2>1, <2>4
      <3> QED  BY <2>1, <2>2, <2>4, <3>1 DEF idleirq, rxdrv, rxhal
    <2> QED  BY <2>2, <2>3, <2>4
  <1>12. CASE Line
    <2>1. /\ active' = FALSE /\ IDLE' = TRUE
          /\ UNCHANGED <<rxhal, rxbuf, rdr, ORE, NE, IDLEIE, rxdrv, rpc, arrived, delivered>>
      BY <1>12 DEF Line, Silence
    <2>2. active' \in BOOLEAN /\ IDLE' \in BOOLEAN
      BY <2>1
    <2>3. UNCHANGED <<RxState, dma, got, EIE, DMAR, rx_state, rx_sem, rx_count>>
      BY <2>1 DEF rxhal, rxdrv
    <2> QED  BY <2>1, <2>2, <2>3
  <1> QED
    BY <1>1, <1>2, <1>3, <1>4, <1>5, <1>6, <1>7, <1>8, <1>9, <1>10, <1>11, <1>12
    DEF usart_read_task

LEMMA NextTypeInv ==
  ASSUME TypeInv, [Next]_vars
  PROVE  TypeInv'
  <1> USE DEF TypeInv
  <1>1. CASE usart_write_task \/ usart_write \/ Transmission
    BY <1>1, SendOnly, NextSendType, ReceiveTypeKept
  <1>2. CASE usart_read_task \/ RTimeout \/ Arrive \/ Line
    BY <1>2, ReceiveOnly, NextReceiveType, SendTypeKept
  <1>3. CASE Handle
    <2>1. /\ HandleTransmission /\ HandleReception
          /\ UNCHANGED <<rxbuf, Lock, rpc, writer, arrived, delivered>>
      BY <1>3 DEF Handle, usart_handler
    <2>2. SendType'
      BY <2>1 DEF HandleTransmission, SendType, writer
    <2>3. /\ UNCHANGED <<got, active, rx_state>>
          /\ RxState' \in {"READY", "BUSY"} /\ dma' \in BOOLEAN /\ (dma' => dma)
          /\ EIE' \in BOOLEAN /\ DMAR' \in BOOLEAN /\ ORE' \in BOOLEAN /\ NE' \in BOOLEAN
          /\ IDLE' \in BOOLEAN /\ IDLEIE' \in BOOLEAN /\ rx_sem' \in BOOLEAN
          /\ rx_count' \in {rx_count, got} /\ rdr' \in {rdr, None}
      BY <2>1 DEF HandleReception, ReceiveType, idleirq
    <2>4. ReceiveType'
      BY <2>1, <2>3 DEF ReceiveType
    <2> QED  BY <2>1, <2>2, <2>4
  <1>4. CASE UNCHANGED vars
    <2>1. UNCHANGED sendall /\ UNCHANGED receiveall /\ UNCHANGED Lock
      BY <1>4 DEF vars, uvars, sendall, receiveall
    <2> QED  BY <2>1, SendTypeKept, ReceiveTypeKept
  <1> QED  BY <1>1, <1>2, <1>3, <1>4 DEF Next

-----------------------------------------------------------------------------
(* Bytes sent *)

TxUpset == Slipped({"early_tx", "refused_tx"})

\* Unless the task is overtaken or refused, the token comes when the transmission
\* has ended, and the task finds HAL ready.
TxPhase ==
  /\ wpc \in {"read", "token", "state"} => tx_state = "FREE"
  /\ ~TxUpset => /\ wpc \in {"state", "claim", "start"} => ~tx_sem
                 /\ wpc \in {"free", "read", "token", "state", "claim"} => gState = "READY"
                 /\ wpc = "wait" /\ tx_sem => gState = "READY"

\* The part of txbuf that is still to be sent lies between these two.
From == IF wpc \in Loaded THEN 0 ELSE txpos
Upto == IF wpc \in Loaded THEN length ELSE txlen

\* TxIntact, byte by byte.
Numbered ==
  /\ Len(wire) + (Upto - From) + Len(write_buf) = written
  /\ \A i \in 1 .. Len(wire) : wire[i] = i
  /\ \A i \in 1 .. Upto - From : txbuf[From + i] = Len(wire) + i
  /\ \A i \in 1 .. Len(write_buf) : write_buf[i] = Len(wire) + (Upto - From) + i

TxInv == TxPhase /\ (~TxUpset => Numbered)

LEMMA Lengths ==
  ASSUME SendType
  PROVE  /\ Len(wire) \in Nat /\ Len(write_buf) \in Nat /\ written \in Nat /\ BufSize \in Nat \ {0}
         /\ From \in Nat /\ Upto \in Nat /\ From <= Upto /\ Upto <= BufSize
  <1>1. txlen \in Nat /\ length \in Nat /\ txpos \in Nat /\ txpos <= txlen
    BY UsartAssumption DEF SendType
  <1> QED  BY <1>1, UsartAssumption, StreamAssumption DEF SendType, From, Upto

LEMMA NumberedKept ==
  ASSUME Numbered, UNCHANGED <<wire, txbuf, write_buf, written>>, From' = From, Upto' = Upto
  PROVE  Numbered'
  BY DEF Numbered

LEMMA HandleTx ==
  ASSUME TypeInv, SendInv, TxInv, Handle
  PROVE  TxInv'
  <1>1. /\ gState' = (IF Completed THEN "READY" ELSE gState) /\ tx_sem' = (tx_sem \/ Transmitted)
        /\ UNCHANGED <<txbuf, txpos, txlen, wire, tx_state, write_buf, written, wpc, length>>
    BY DEF Handle, usart_handler, HandleTransmission, writer
  <1>2. slips \subseteq slips' /\ (Transmitted /\ wpc = "claim" => TxUpset')
    BY DEF Handle, TxUpset, Slipped
  <1>3. ~TxUpset' => ~TxUpset
    BY <1>2 DEF TxUpset, Slipped
  <1>4. TxPhase'
    <2> USE <1>1 DEF TxInv, TxPhase
    <2>1. wpc \in {"read", "token", "state"} => tx_state = "FREE"
      OBVIOUS
    <2>2. ~TxUpset' /\ wpc \in {"state", "claim", "start"} => ~Transmitted
      BY <1>2 DEF Transmitted, Completed, SendInv
    <2>3. gState = "READY" => gState' = "READY"
      OBVIOUS
    <2>4. Transmitted => gState' = "READY"
      BY DEF Transmitted
    <2> QED  BY <1>3, <2>1, <2>2, <2>3, <2>4
  <1>5. From' = From /\ Upto' = Upto
    BY <1>1 DEF From, Upto
  <1> QED  BY <1>1, <1>3, <1>4, <1>5, NumberedKept DEF TxInv

LEMMA SendTx ==
  ASSUME TypeInv, SendInv, TxInv, usart_write_task \/ usart_write \/ Transmission
  PROVE  TxInv'
  <1> USE DEF TypeInv, TxInv
  <1>0. ~TxUpset' => ~TxUpset
    BY SendOnly DEF TxUpset, Slipped
  <1>1. CASE usart_write
    <2>1. /\ UNCHANGED <<gState, tx_state, tx_sem, txbuf, txpos, txlen, wire, wpc, length, slips>>
          /\ written' = written + 1 /\ write_buf' = Append(write_buf, written + 1)
      BY <1>1 DEF usart_write, uvars, txhal, txdrv
    <2>2. TxPhase' /\ From' = From /\ Upto' = Upto
      BY <2>1 DEF TxPhase, TxUpset, Slipped, From, Upto
    <2>3. ASSUME Numbered PROVE Numbered'
      <3>1. /\ Len(write_buf') = Len(write_buf) + 1 /\ write_buf'[Len(write_buf) + 1] = written + 1
            /\ \A i \in 1 .. Len(write_buf) : write_buf'[i] = write_buf[i]
        BY <2>1 DEF SendType
      <3>2. Len(wire) + (Upto - From) + Len(write_buf) = written
        BY <2>3 DEF Numbered
      <3>3. /\ Len(wire) + (Upto - From) + Len(write_buf') = written'
            /\ write_buf'[Len(write_buf) + 1] = Len(wire) + (Upto - From) + (Len(write_buf) + 1)
        <4>1. PICK w, f, u, b : w = Len(wire) /\ f = From /\ u = Upto /\ b = Len(write_buf)
          OBVIOUS
        <4>2. w \in Nat /\ f \in Nat /\ u \in Nat /\ b \in Nat /\ w + (u - f) + b = written
          BY <3>2, <4>1, Lengths
        <4>3. w + (u - f) + (b + 1) = written + 1
          BY <4>2
        <4> QED  BY <2>1, <3>1, <4>1, <4>3
      <3>4. \A i \in 1 .. Len(write_buf') :
              i = Len(write_buf) + 1 \/ i \in 1 .. Len(write_buf)
        BY <3>1, Lengths
      <3>5. \A i \in 1 .. Len(write_buf') : write_buf'[i] = Len(wire) + (Upto - From) + i
        BY <2>3, <3>1, <3>3, <3>4 DEF Numbered
      <3> QED  BY <2>1, <2>2, <2>3, <3>3, <3>5 DEF Numbered
    <2> QED  BY <1>0, <2>2, <2>3
  <1>2. CASE TransmitByte /\ UNCHANGED writer
    <2>1. /\ txpos < txlen /\ txpos' = txpos + 1 /\ wire' = Append(wire, txbuf[txpos + 1])
          /\ UNCHANGED <<gState, txbuf, txlen, TCIE, tx_state, tx_sem, wpc, length, write_buf, written>>
      BY <1>2 DEF TransmitByte, txdrv, writer
    <2>2. TxPhase'
      BY <1>0, <2>1 DEF TxPhase
    <2>3. txpos \in Nat /\ txlen \in Nat
      BY UsartAssumption DEF SendType
    <2>4. ASSUME ~TxUpset PROVE Numbered'
      <3>1. wpc \notin Loaded
        BY <2>1, <2>3, <2>4 DEF TxPhase, SendInv, Loaded
      <3>2. From = txpos /\ Upto = txlen /\ From' = From + 1 /\ Upto' = Upto
        BY <2>1, <3>1 DEF From, Upto
      <3>3. /\ Len(wire') = Len(wire) + 1 /\ wire'[Len(wire) + 1] = txbuf[txpos + 1]
            /\ \A i \in 1 .. Len(wire) : wire'[i] = wire[i]
        BY <2>1 DEF SendType
      <3>4. txbuf[txpos + 1] = Len(wire) + 1
        BY <2>1, <2>3, <2>4, <3>2 DEF Numbered
      <3>5. \A i \in 1 .. Len(wire') : wire'[i] = i
        <4>1. \A i \in 1 .. Len(wire) : wire'[i] = i
          BY <2>4, <3>3 DEF Numbered
        <4>2. Len(wire) \in Nat /\ wire'[Len(wire) + 1] = Len(wire) + 1
          BY <3>3, <3>4, Lengths
        <4> QED  BY <3>3, <4>1, <4>2
      <3>6. \A i \in 1 .. Upto - (From + 1) : txbuf[(From + 1) + i] = Len(wire) + 1 + i
        <4> TAKE i \in 1 .. Upto - (From + 1)
        <4>1. i + 1 \in 1 .. Upto - From /\ (From + 1) + i = From + (i + 1)
          BY Lengths
        <4>2. txbuf[From + (i + 1)] = Len(wire) + (i + 1)
          BY <2>4, <4>1 DEF Numbered
        <4> QED  BY <4>1, <4>2, Lengths
      <3>7. Len(wire) + 1 + (Upto - (From + 1)) = Len(wire) + (Upto - From)
        BY Lengths
      <3> QED  BY <2>1, <2>4, <3>2, <3>3, <3>5, <3>6, <3>7 DEF Numbered
    <2> QED  BY <1>0, <2>2, <2>4
  <1>3. CASE usart_dma_tx_handler /\ UNCHANGED writer
    <2>1. /\ txlen > 0 /\ txpos = txlen /\ txpos' = 0 /\ txlen' = 0
          /\ UNCHANGED <<gState, txbuf, wire, tx_state, tx_sem, wpc, length, write_buf, written>>
      BY <1>3 DEF usart_dma_tx_handler, txdrv, writer
    <2>2. TxPhase'
      BY <1>0, <2>1 DEF TxPhase
    <2>3. txpos \in Nat /\ txlen \in Nat
      BY UsartAssumption DEF SendType
    <2>4. ASSUME ~TxUpset PROVE Numbered'
      <3>1. wpc \notin Loaded
        BY <2>1, <2>3, <2>4 DEF TxPhase, SendInv, Loaded
      <3>2. Upto - From = 0 /\ Upto' - From' = 0
        BY <2>1, <2>3, <3>1 DEF From, Upto
      <3> QED  BY <2>1, <2>4, <3>2 DEF Numbered
    <2> QED  BY <1>0, <2>2, <2>4
  <1>4. CASE WRead
    <2>1. PICK n \in 1 .. Len(write_buf) :
            /\ txbuf' = [i \in 1 .. BufSize |-> IF i <= n THEN write_buf[i] ELSE txbuf[i]]
            /\ write_buf' = SubSeq(write_buf, n + 1, Len(write_buf))
            /\ length' = n
      BY <1>4 DEF WRead
    <2>2. /\ wpc = "read" /\ wpc' = "token"
          /\ UNCHANGED <<gState, txpos, txlen, wire, tx_state, tx_sem, written>>
      BY <1>4 DEF WRead, WStep, txdrv
    <2>3. TxPhase'
      BY <1>0, <2>2 DEF TxPhase
    <2>4. ASSUME ~TxUpset PROVE Numbered'
      <3>1. txlen = 0 /\ txpos = 0
        BY <2>2, <2>4 DEF TxPhase, SendInv, SendType
      <3>2. From = 0 /\ Upto = 0 /\ From' = 0 /\ Upto' = n
        BY <2>1, <2>2, <3>1 DEF From, Upto, Loaded
      <3>3. n <= BufSize /\ n \in Nat \ {0} /\ n <= Len(write_buf)
        BY Lengths DEF SendType
      <3>4. /\ Len(write_buf') = Len(write_buf) - n
            /\ \A i \in 1 .. Len(write_buf) - n : write_buf'[i] = write_buf[n + i]
        <4>1. PICK s : s = write_buf
          OBVIOUS
        <4>2. s \in Seq(1 .. MaxWritten) /\ Len(s) \in Nat /\ n \in 1 .. Len(s)
          BY <4>1 DEF SendType
        <4>3. /\ Len(SubSeq(s, n + 1, Len(s))) = Len(s) - n
              /\ \A i \in 1 .. Len(s) - n : SubSeq(s, n + 1, Len(s))[i] = s[n + i]
          BY <4>2
        <4> QED  BY <2>1, <4>1, <4>3
      <3>5. \A i \in 1 .. n : txbuf'[i] = write_buf[i]
        BY <2>1, <3>3, Lengths
      <3>6. Len(wire) + Len(write_buf) = written
            /\ \A i \in 1 .. Len(write_buf) : write_buf[i] = Len(wire) + i
        BY <2>4, <3>2, Lengths DEF Numbered
      <3> QED  BY <2>2, <2>4, <3>2, <3>3, <3>4, <3>5, <3>6, Lengths DEF Numbered
    <2> QED  BY <1>0, <2>3, <2>4
  <1>5. CASE WStart
    <2>1. /\ wpc = "start" /\ wpc' = "wait" /\ txpos' = 0 /\ txlen' = length
          /\ UNCHANGED <<gState, txbuf, wire, tx_state, tx_sem, length, write_buf, written>>
      BY <1>5 DEF WStart, WStep, TransmitStart, txdrv
    <2>2. TxPhase'
      BY <1>0, <2>1 DEF TxPhase
    <2>3. From' = From /\ Upto' = Upto
      BY <2>1 DEF From, Upto, Loaded
    <2> QED  BY <1>0, <2>1, <2>2, <2>3, NumberedKept
  <1>6. CASE WToken \/ WState \/ WClaim
    <2>1. /\ wpc \in Loaded /\ wpc' \in Loaded
          /\ UNCHANGED <<txbuf, txpos, txlen, wire, length, write_buf, written>>
      BY <1>6 DEF WToken, WState, WClaim, WStep, TransmitClaim, txhal, Loaded
    <2>2. From' = From /\ Upto' = Upto
      BY <2>1 DEF From, Upto
    <2>3. TxPhase'
      BY <1>0, <1>6 DEF TxPhase, WToken, WState, WClaim, WStep, TransmitClaim, txhal, txdrv
    <2> QED  BY <1>0, <2>1, <2>2, <2>3, NumberedKept
  <1>7. CASE WWait \/ WFree
    <2>1. /\ wpc \notin Loaded /\ wpc' \notin Loaded
          /\ UNCHANGED <<gState, txbuf, txpos, txlen, wire, length, write_buf, written>>
      BY <1>7 DEF WWait, WFree, WStep, txhal, Loaded
    <2>2. From' = From /\ Upto' = Upto
      BY <2>1 DEF From, Upto
    <2>3. TxPhase'
      BY <1>0, <1>7 DEF TxPhase, WWait, WFree, WStep, txhal, txdrv
    <2> QED  BY <1>0, <2>1, <2>2, <2>3, NumberedKept
  <1>8. CASE WRefused
    <2>1. TxUpset' /\ wpc' = "free"
      BY <1>8 DEF WRefused, WStep, TxUpset, Slipped
    <2> QED  BY <2>1 DEF TxPhase
  <1> QED
    BY <1>1, <1>2, <1>3, <1>4, <1>5, <1>6, <1>7, <1>8 DEF usart_write_task, Transmission

LEMMA NextTxInv ==
  ASSUME TypeInv, SendInv, TxInv, [Next]_vars
  PROVE  TxInv'
  <1>1. CASE usart_read_task \/ RTimeout \/ Arrive \/ Line \/ UNCHANGED vars
    <2>1. UNCHANGED sendall /\ slips \subseteq slips'
      BY <1>1, ReceiveOnly DEF vars, uvars, sendall
    <2>2. ~TxUpset' => ~TxUpset
      BY <2>1 DEF TxUpset, Slipped
    <2>3. UNCHANGED <<gState, tx_state, tx_sem, txbuf, txpos, txlen, wire, wpc, length, write_buf, written>>
      BY <2>1 DEF sendall, txhal, txdrv, writer
    <2>4. From' = From /\ Upto' = Upto /\ TxPhase'
      BY <2>2, <2>3 DEF From, Upto, TxInv, TxPhase
    <2> QED  BY <2>2, <2>3, <2>4, NumberedKept DEF TxInv
  <1> QED  BY <1>1, HandleTx, SendTx DEF Next

LEMMA WiderSeq ==
  ASSUME NEW S, NEW T, S \subseteq T, NEW s \in Seq(S)
  PROVE  s \in Seq(T) /\ Len(s) \in Nat /\ \A i \in 1 .. Len(s) : s[i] \in S
  OBVIOUS

\* Numbers that continue those before them.
LEMMA Counted ==
  ASSUME NEW s \in Seq(Nat), NEW t \in Seq(Nat),
         \A i \in 1 .. Len(s) : s[i] = i,
         \A i \in 1 .. Len(t) : t[i] = Len(s) + i
  PROVE  /\ s \o t \in Seq(Nat) /\ Len(s \o t) = Len(s) + Len(t)
         /\ \A i \in 1 .. Len(s) + Len(t) : (s \o t)[i] = i
  <1>1. Len(s) \in Nat /\ Len(t) \in Nat
    OBVIOUS
  <1>2. /\ s \o t \in Seq(Nat) /\ Len(s \o t) = Len(s) + Len(t)
        /\ \A i \in 1 .. Len(s) + Len(t) :
             (s \o t)[i] = IF i <= Len(s) THEN s[i] ELSE t[i - Len(s)]
    BY ConcatProperties
  <1>3. \A i \in 1 .. Len(s) + Len(t) : (s \o t)[i] = i
    <2> TAKE i \in 1 .. Len(s) + Len(t)
    <2>1. CASE i <= Len(s)
      BY <1>1, <1>2, <2>1
    <2>2. CASE i > Len(s)
      <3>1. i - Len(s) \in 1 .. Len(t)
        BY <1>1, <2>2
      <3>2. (s \o t)[i] = t[i - Len(s)]
        BY <1>1, <1>2, <2>2
      <3>3. t[i - Len(s)] = Len(s) + (i - Len(s))
        BY <3>1
      <3> QED  BY <1>1, <3>2, <3>3
    <2> QED  BY <1>1, <2>1, <2>2
  <1> QED  BY <1>2, <1>3

\* Byte by byte is the same as TxIntact.
LEMMA InOrder ==
  ASSUME SendType, Numbered
  PROVE  wire \o InFlight \o write_buf = [i \in 1 .. written |-> i]
  <1>1. InFlight = SubSeq(txbuf, From + 1, Upto)
    <2>1. CASE wpc \in Loaded
      <3>1. From + 1 = 1 /\ Upto = length
        BY <2>1 DEF From, Upto
      <3>2. InFlight = SubSeq(txbuf, 1, length)
        BY <2>1, Zenon DEF InFlight, Loaded
      <3> QED  BY <3>1, <3>2
    <2>2. CASE wpc \notin Loaded
      <3>1. From = txpos /\ Upto = txlen
        BY <2>2, Zenon DEF From, Upto
      <3>2. InFlight = SubSeq(txbuf, txpos + 1, txlen)
        BY <2>2, Zenon DEF InFlight, Loaded
      <3> QED  BY <3>1, <3>2, Zenon
    <2> QED  BY <2>1, <2>2
  <1>2. PICK a, b, c : a = wire /\ b = InFlight /\ c = write_buf
    OBVIOUS
  <1>3. /\ b \in Seq(Nat) /\ Len(b) = Upto - From
        /\ \A i \in 1 .. Upto - From : b[i] = txbuf[From + i]
    <2>1. PICK t, m, n : t = txbuf /\ m = From + 1 /\ n = Upto
      OBVIOUS
    <2>2. m \in Nat \ {0} /\ n \in Nat /\ n <= BufSize /\ BufSize \in Nat /\ m <= n + 1
      BY <2>1, Lengths
    <2>3. \A i \in m .. n : t[i] \in Nat
      <3>1. t \in [1 .. BufSize -> 0 .. MaxWritten]
        BY <2>1 DEF SendType
      <3> QED  BY <2>2, <3>1
    <2>4. /\ SubSeq(t, m, n) \in Seq(Nat)
          /\ Len(SubSeq(t, m, n)) = IF m <= n THEN n - m + 1 ELSE 0
          /\ \A i \in 1 .. n - m + 1 : SubSeq(t, m, n)[i] = t[m + i - 1]
      BY <2>2, <2>3, SubSeqProperties
    <2>5. Len(SubSeq(t, m, n)) = n - m + 1 /\ n - m + 1 = Upto - From
      BY <2>1, <2>2, <2>4, Lengths
    <2>6. \A i \in 1 .. Upto - From : m + i - 1 = From + i
      BY <2>1, Lengths
    <2> QED  BY <1>1, <1>2, <2>1, <2>4, <2>5, <2>6
  <1>4. a \in Seq(Nat) /\ c \in Seq(Nat) /\ Len(a) \in Nat /\ Len(b) \in Nat /\ Len(c) \in Nat
    <2>1. a \in Seq(0 .. MaxWritten) /\ c \in Seq(1 .. MaxWritten)
      BY <1>2 DEF SendType
    <2>2. 0 .. MaxWritten \subseteq Nat /\ 1 .. MaxWritten \subseteq Nat
      BY StreamAssumption
    <2> QED  BY <1>3, <2>1, <2>2, WiderSeq
  <1>5. /\ Len(a) + Len(b) + Len(c) = written
        /\ \A i \in 1 .. Len(a) : a[i] = i
        /\ \A i \in 1 .. Len(b) : b[i] = Len(a) + i
        /\ \A i \in 1 .. Len(c) : c[i] = Len(a) + Len(b) + i
    BY <1>2, <1>3 DEF Numbered
  <1>6. PICK d : d = a \o b
    OBVIOUS
  <1>7. d \in Seq(Nat) /\ Len(d) = Len(a) + Len(b) /\ \A i \in 1 .. Len(d) : d[i] = i
    BY <1>3, <1>4, <1>5, <1>6, Counted
  <1>8. d \o c \in Seq(Nat) /\ Len(d \o c) = written /\ \A i \in 1 .. written : (d \o c)[i] = i
    <2>1. Len(d) \in Nat /\ \A i \in 1 .. Len(c) : c[i] = Len(d) + i
      BY <1>4, <1>5, <1>7
    <2>2. /\ d \o c \in Seq(Nat) /\ Len(d \o c) = Len(d) + Len(c)
          /\ \A i \in 1 .. Len(d) + Len(c) : (d \o c)[i] = i
      BY <1>4, <1>7, <2>1, Counted
    <2>3. Len(d) + Len(c) = written
      BY <1>5, <1>7
    <2> QED  BY <2>2, <2>3
  <1>9. d \o c = [i \in 1 .. written |-> i]
    <2>1. PICK e : e = d \o c
      OBVIOUS
    <2>2. e \in Seq(Nat) /\ Len(e) = written /\ \A i \in 1 .. written : e[i] = i
      BY <1>8, <2>1
    <2>3. e = [i \in 1 .. written |-> e[i]]
      BY <2>2
    <2>4. e = [i \in 1 .. written |-> i]
      BY <2>2, <2>3
    <2> QED  BY <2>1, <2>4
  <1> QED  BY <1>2, <1>6, <1>9

-----------------------------------------------------------------------------
(* Bytes received *)

RxUpset == Slipped({"early_idle", "refused_rx"})

Armed == {"errors", "requests"}
Counting == {"errors", "requests", "wait", "free", "put"}

\* A call begins with a stream that is off, and counts only what its own stream
\* has moved; a stream that runs leaves no byte behind in the data register.
Stream ==
  /\ IF rpc \in Armed THEN dma /\ ~DMAR /\ got = 0 ELSE dma <=> DMAR
  /\ dma /\ DMAR => rdr = None
  /\ rpc \in {"idle", "start"} \cup Armed => rx_count = 0
  /\ rpc \in {"wait", "free", "put"} => rx_count <= got

\* Delivered bytes, then those in memory, then the one in the data register, then
\* those to come.
Rising ==
  /\ \A i, j \in 1 .. got : i < j => rxbuf[i] < rxbuf[j]
  /\ \A i \in 1 .. got : rxbuf[i] <= arrived /\ (rdr # None => rxbuf[i] < rdr)
  /\ \A i, j \in 1 .. Len(delivered) : i < j => delivered[i] < delivered[j]
  /\ \A i \in 1 .. Len(delivered) : delivered[i] <= arrived /\ (rdr # None => delivered[i] < rdr)
  /\ rpc \in Counting => \A i \in 1 .. Len(delivered), j \in 1 .. got : delivered[i] < rxbuf[j]

RxInv == ~RxUpset => Stream /\ Rising

LEMMA Bytes ==
  ASSUME ReceiveType
  PROVE  /\ got \in Nat /\ rx_count \in Nat /\ arrived \in Nat /\ BufSize \in Nat \ {0}
         /\ Len(delivered) \in Nat /\ \A i \in 1 .. Len(delivered) : delivered[i] \in Nat
         /\ \A i \in 1 .. BufSize : rxbuf[i] \in Nat
         /\ rdr = None \/ (rdr \in Nat /\ 1 <= rdr /\ rdr <= arrived)
  <1>1. 0 .. MaxArrived \subseteq Nat /\ delivered \in Seq(0 .. MaxArrived)
    BY StreamAssumption DEF ReceiveType
  <1>2. Len(delivered) \in Nat /\ \A i \in 1 .. Len(delivered) : delivered[i] \in 0 .. MaxArrived
    <2>1. PICK s : s = delivered
      OBVIOUS
    <2>2. s \in Seq(0 .. MaxArrived)
      BY <1>1, <2>1
    <2>3. Len(s) \in Nat /\ \A i \in 1 .. Len(s) : s[i] \in 0 .. MaxArrived
      BY <2>2, WiderSeq
    <2> QED  BY <2>1, <2>3
  <1> QED  BY <1>1, <1>2, UsartAssumption, StreamAssumption DEF ReceiveType

LEMMA RisingKept ==
  ASSUME Rising, UNCHANGED <<got, rxbuf, delivered, arrived>>, rdr' \in {rdr, None},
         rpc' \in Counting => rpc \in Counting
  PROVE  Rising'
  BY DEF Rising

\* A byte later than all the others goes to memory.
LEMMA MoveRising ==
  ASSUME ReceiveType, Rising, dma, NEW b \in 0 .. MaxArrived, Move(b), b <= arrived',
         arrived' \in Nat, arrived <= arrived',
         \A i \in 1 .. got : rxbuf[i] < b,
         \A i \in 1 .. Len(delivered) : delivered[i] < b,
         rdr' = None, delivered' = delivered,
         rpc' \in Counting => rpc \in Counting \/ got = 0
  PROVE  Rising'
  <1>1. /\ got' = got + 1
        /\ \A i \in 1 .. BufSize : rxbuf'[i] = IF i = got + 1 THEN b ELSE rxbuf[i]
    BY MoveType
  <1>2. got < BufSize /\ b \in Nat
    BY StreamAssumption DEF ReceiveType
  <1>0. got \in Nat /\ BufSize \in Nat
    BY Bytes
  <1>3. rxbuf'[got + 1] = b /\ \A i \in 1 .. got : rxbuf'[i] = rxbuf[i]
    <2>1. got + 1 \in 1 .. BufSize /\ \A i \in 1 .. got : i \in 1 .. BufSize /\ i # got + 1
      BY <1>0, <1>2
    <2> QED  BY <1>1, <2>1
  <1>4. \A i, j \in 1 .. got + 1 : i < j => rxbuf'[i] < rxbuf'[j]
    <2> TAKE i, j \in 1 .. got + 1
    <2> HAVE i < j
    <2>1. i \in 1 .. got
      BY Bytes
    <2>2. CASE j \in 1 .. got
      BY <1>3, <2>1, <2>2 DEF Rising
    <2>3. CASE j = got + 1
      BY <1>3, <2>1, <2>3
    <2>4. j = got + 1 \/ j \in 1 .. got
      BY <1>0
    <2> QED  BY <2>2, <2>3, <2>4
  <1>5. \A i \in 1 .. got + 1 : rxbuf'[i] <= arrived'
    <2> TAKE i \in 1 .. got + 1
    <2>1. CASE i = got + 1
      BY <1>3, <2>1
    <2>2. CASE i \in 1 .. got
      <3>1. rxbuf'[i] = rxbuf[i] /\ rxbuf[i] <= arrived /\ rxbuf[i] \in Nat
        BY <1>2, <1>3, <2>2, Bytes DEF Rising
      <3> QED  BY <3>1, Bytes
    <2> QED  BY <2>1, <2>2, Bytes
  <1>6. \A i \in 1 .. Len(delivered) : delivered[i] <= arrived'
    BY Bytes DEF Rising
  <1>7. ASSUME rpc' \in Counting, NEW i \in 1 .. Len(delivered), NEW j \in 1 .. got + 1
        PROVE  delivered[i] < rxbuf'[j]
    <2>1. CASE j = got + 1
      BY <1>3, <2>1
    <2>2. CASE j \in 1 .. got
      BY <1>3, <1>7, <2>2, Bytes DEF Rising
    <2>3. j = got + 1 \/ j \in 1 .. got
      BY <1>0
    <2> QED  BY <2>1, <2>2, <2>3
  <1> QED  BY <1>1, <1>4, <1>5, <1>6, <1>7 DEF Rising

LEMMA HandleRx ==
  ASSUME TypeInv, ReceiveInv, RxInv, Handle
  PROVE  RxInv'
  <1>1. /\ HandleReception /\ UNCHANGED <<got, rxbuf, rpc, arrived, delivered>>
        /\ slips \subseteq slips' /\ (Received /\ Starting => RxUpset')
    BY DEF Handle, usart_handler, HandleReception, RxUpset, Slipped
  <1> SUFFICES ASSUME ~RxUpset' PROVE Stream' /\ Rising'
    BY DEF RxInv
  <1>2. Stream /\ Rising
    BY <1>1 DEF RxInv, RxUpset, Slipped
  <1>3. Received => rpc \in {"wait", "free"}
    BY <1>1 DEF Received, Starting, ReceiveInv, Receiving
  <1>4. rdr' \in {rdr, None} /\ (rx_count' = rx_count \/ (Received /\ rx_count' = got))
    BY <1>1 DEF HandleReception
  <1>5. \/ DMAR' = FALSE /\ dma' = (dma /\ ~DMAR)
        \/ ~Received /\ UNCHANGED <<DMAR, dma, rdr>>
    BY <1>1 DEF HandleReception
  <1>6. Rising'
    BY <1>1, <1>2, <1>4, RisingKept
  <1>7. Stream'
    <2>1. IF rpc' \in Armed THEN dma' /\ ~DMAR' /\ got' = 0 ELSE dma' <=> DMAR'
      <3>1. dma \in BOOLEAN /\ DMAR \in BOOLEAN
        BY DEF TypeInv, ReceiveType
      <3>2. CASE rpc \in Armed
        <4>1. dma = TRUE /\ DMAR = FALSE /\ got = 0
          BY <1>2, <3>1, <3>2 DEF Stream
        <4>2. dma' = TRUE /\ DMAR' = FALSE
          BY <1>5, <4>1
        <4> QED  BY <1>1, <3>2, <4>1, <4>2
      <3>3. CASE rpc \notin Armed
        <4>1. dma = DMAR
          BY <1>2, <3>1, <3>3 DEF Stream
        <4>2. \/ dma' = FALSE /\ DMAR' = FALSE
              \/ dma' = dma /\ DMAR' = DMAR
          BY <1>5, <4>1
        <4> QED  BY <1>1, <3>1, <3>3, <4>1, <4>2
      <3> QED  BY <3>2, <3>3
    <2>2. dma' /\ DMAR' => rdr' = None
      BY <1>2, <1>5 DEF Stream
    <2>3. rpc' \in {"idle", "start"} \cup Armed => rx_count' = 0
      BY <1>1, <1>2, <1>3, <1>4 DEF Stream, Armed
    <2>4. rpc' \in {"wait", "free", "put"} => rx_count' <= got'
      BY <1>1, <1>2, <1>4, Bytes DEF Stream, TypeInv
    <2> QED  BY <2>1, <2>2, <2>3, <2>4 DEF Stream
  <1> QED  BY <1>6, <1>7

LEMMA ArriveRx ==
  ASSUME TypeInv, RxInv, Arrive
  PROVE  RxInv'
  <1> USE DEF TypeInv
  <1>1. /\ arrived' = arrived + 1 /\ arrived' \in 0 .. MaxArrived
        /\ UNCHANGED <<rx_count, rpc, delivered, slips>>
        /\ \/ DMAR /\ dma /\ Move(arrived') /\ UNCHANGED rdr
           \/ /\ ~(DMAR /\ dma) /\ rdr' = (IF rdr = None THEN arrived' ELSE rdr)
              /\ UNCHANGED <<dma, DMAR, got, rxbuf>>
    <2>1. arrived \in 0 .. MaxArrived /\ MaxArrived \in Nat
      BY StreamAssumption DEF ReceiveType
    <2> QED  BY <2>1 DEF Arrive, ReceiveByte, rxhal, rxdrv
  <1> SUFFICES ASSUME ~RxUpset' PROVE Stream' /\ Rising'
    BY DEF RxInv
  <1>2. Stream /\ Rising
    BY <1>1 DEF RxInv, RxUpset, Slipped
  <1>3. PICK b : b = arrived'
    OBVIOUS
  <1>4. /\ b \in 0 .. MaxArrived /\ b \in Nat /\ b = arrived + 1
        /\ \A i \in 1 .. got : rxbuf[i] < b /\ rxbuf[i] \in Nat
        /\ \A i \in 1 .. Len(delivered) : delivered[i] < b
    <2>1. got <= BufSize
      BY UsartAssumption DEF ReceiveType
    <2> QED  BY <1>1, <1>2, <1>3, <2>1, Bytes DEF Rising
  <1>5. CASE DMAR /\ dma /\ Move(arrived') /\ UNCHANGED rdr
    <2>1. Move(b) /\ rdr = None /\ rpc \notin Armed
      BY <1>2, <1>3, <1>5 DEF Stream
    <2>2. got' = got + 1 /\ DMAR' = dma'
      BY <1>4, <1>5, <2>1, MoveType
    <2>3. Rising'
      BY <1>1, <1>2, <1>3, <1>4, <1>5, <2>1, Bytes, MoveRising
    <2>4. Stream'
      BY <1>1, <1>2, <1>5, <2>1, <2>2, Bytes DEF Stream
    <2> QED  BY <2>3, <2>4
  <1>6. CASE /\ ~(DMAR /\ dma) /\ rdr' = (IF rdr = None THEN arrived' ELSE rdr)
             /\ UNCHANGED <<dma, DMAR, got, rxbuf>>
    <2>1. Stream'
      BY <1>1, <1>2, <1>6 DEF Stream
    <2>2. rdr' = b \/ (rdr' = rdr /\ rdr # None)
      BY <1>3, <1>6
    <2>3. \A i \in 1 .. got : rxbuf[i] <= b /\ (rdr' # None => rxbuf[i] < rdr')
      BY <1>2, <1>4, <2>2 DEF Rising
    <2>4. \A i \in 1 .. Len(delivered) : delivered[i] <= b /\ (rdr' # None => delivered[i] < rdr')
      BY <1>2, <1>4, <2>2, Bytes DEF Rising
    <2>5. Rising'
      BY <1>1, <1>2, <1>3, <1>6, <2>3, <2>4 DEF Rising
    <2> QED  BY <2>1, <2>5
  <1> QED  BY <1>1, <1>5, <1>6

\* What the read task puts into read_buf comes after what it put there before.
LEMMA PutRx ==
  ASSUME ReceiveType, Rising, rpc = "put", rx_count <= got,
         delivered' = delivered \o SubSeq(rxbuf, 1, rx_count),
         UNCHANGED <<got, rxbuf, arrived, rdr>>, rpc' = "token"
  PROVE  Rising'
  <1>1. PICK s, t : s = delivered /\ t = SubSeq(rxbuf, 1, rx_count)
    OBVIOUS
  <1>2. got <= BufSize
    BY UsartAssumption DEF ReceiveType
  <1>3. t \in Seq(Nat) /\ Len(t) = rx_count /\ \A i \in 1 .. rx_count : t[i] = rxbuf[i]
    <2>1. PICK f, m, n : f = rxbuf /\ m = 1 /\ n = rx_count
      OBVIOUS
    <2>2. m = 1 /\ n \in Nat /\ \A i \in m .. n : f[i] \in Nat
      BY <1>2, <2>1, Bytes
    <2>3. /\ SubSeq(f, m, n) \in Seq(Nat)
          /\ Len(SubSeq(f, m, n)) = IF m <= n THEN n - m + 1 ELSE 0
          /\ \A i \in 1 .. n - m + 1 : SubSeq(f, m, n)[i] = f[m + i - 1]
      BY <2>2, SubSeqProperties
    <2>4. Len(SubSeq(f, m, n)) = n /\ \A i \in 1 .. n : SubSeq(f, m, n)[i] = f[i]
      BY <2>2, <2>3
    <2> QED  BY <1>1, <2>1, <2>3, <2>4
  <1>4. s \in Seq(Nat)
    <2>1. s \in Seq(0 .. MaxArrived) /\ 0 .. MaxArrived \subseteq Nat
      BY <1>1, StreamAssumption DEF ReceiveType
    <2> QED  BY <2>1, WiderSeq
  <1>5. /\ Len(s \o t) = Len(s) + rx_count
        /\ \A i \in 1 .. Len(s) + rx_count :
             (s \o t)[i] = IF i <= Len(s) THEN s[i] ELSE t[i - Len(s)]
    BY <1>3, <1>4, ConcatProperties
  <1>6. PICK d : d = s \o t
    OBVIOUS
  <1>7. /\ Len(d) = Len(s) + rx_count /\ Len(s) \in Nat /\ rx_count \in Nat
        /\ \A i \in 1 .. Len(s) : d[i] = s[i]
        /\ \A i \in Len(s) + 1 .. Len(d) : /\ d[i] = rxbuf[i - Len(s)]
                                          /\ i - Len(s) \in 1 .. got
    <2>1. Len(s) \in Nat /\ rx_count \in Nat /\ got \in Nat
      BY <1>1, Bytes
    <2>2. \A i \in Len(s) + 1 .. Len(s) + rx_count :
            i - Len(s) \in 1 .. rx_count /\ ~(i <= Len(s)) /\ i \in 1 .. Len(s) + rx_count
      BY <2>1
    <2>3. \A i \in 1 .. Len(s) : i \in 1 .. Len(s) + rx_count
      BY <2>1
    <2> QED  BY <1>3, <1>5, <1>6, <2>1, <2>2, <2>3
  <1>8. \A i, j \in 1 .. Len(d) : i < j => d[i] < d[j]
    <2> TAKE i, j \in 1 .. Len(d)
    <2> HAVE i < j
    <2>1. CASE j <= Len(s)
      BY <1>1, <1>7, <2>1 DEF Rising
    <2>2. CASE i <= Len(s) /\ j > Len(s)
      BY <1>1, <1>7, <2>2 DEF Rising, Counting
    <2>3. CASE i > Len(s)
      <3>1. /\ d[i] = rxbuf[i - Len(s)] /\ d[j] = rxbuf[j - Len(s)]
            /\ i - Len(s) \in 1 .. got /\ j - Len(s) \in 1 .. got /\ i - Len(s) < j - Len(s)
        <4>1. i \in Len(s) + 1 .. Len(d) /\ j \in Len(s) + 1 .. Len(d)
          BY <1>7, <2>3
        <4>2. i - Len(s) < j - Len(s)
          BY <1>7
        <4> QED  BY <1>7, <4>1, <4>2
      <3> QED  BY <3>1 DEF Rising
    <2> QED  BY <1>7, <2>1, <2>2, <2>3
  <1>9. \A i \in 1 .. Len(d) : d[i] <= arrived /\ (rdr # None => d[i] < rdr)
    <2> TAKE i \in 1 .. Len(d)
    <2>1. CASE i <= Len(s)
      BY <1>1, <1>7, <2>1 DEF Rising
    <2>2. CASE i > Len(s)
      BY <1>7, <2>2 DEF Rising
    <2> QED  BY <1>7, <2>1, <2>2
  <1>10. delivered' = d /\ rpc' \notin Counting
    BY <1>1, <1>6 DEF Counting
  <1> QED  BY <1>8, <1>9, <1>10 DEF Rising

LEMMA ReadTaskRx ==
  ASSUME TypeInv, RxInv, usart_read_task \/ RTimeout
  PROVE  RxInv'
  <1> USE DEF TypeInv, At
  <1> SUFFICES ASSUME ~RxUpset' PROVE Stream' /\ Rising'
    BY DEF RxInv
  <1>1. Stream /\ Rising
    BY ReceiveOnly DEF RxInv, RxUpset, Slipped
  <1>2. CASE RToken \/ RState \/ RIdle
    <2>1. /\ rpc \in {"token", "state", "idle"} /\ rpc' \in {"state", "idle", "start"}
          /\ UNCHANGED <<dma, DMAR, got, rxbuf, rdr, arrived, delivered>>
          /\ rpc' = "state" \/ rx_count' = 0
      BY <1>1, <1>2 DEF RToken, RState, RIdle, TakeStaleToken, EnableIdle, rxhal, rxline, rxdrv,
            Stream
    <2> QED  BY <1>1, <2>1, RisingKept DEF Stream, Armed, Counting
  <1>3. CASE RStart
    <2>1. /\ rpc = "start" /\ rpc' = "errors" /\ ~dma /\ dma' = TRUE /\ got' = 0
          /\ UNCHANGED <<DMAR, rxbuf, rdr, arrived, delivered, rx_count>>
      BY <1>3 DEF RStart, ReceiveStart, ReceiveRefused, rxline, rxdrv
    <2>2. Stream'
      BY <1>1, <2>1 DEF Stream, Armed
    <2>3. Rising'
      BY <1>1, <2>1 DEF Rising
    <2> QED  BY <2>2, <2>3
  <1>4. CASE RRefused
    BY <1>4 DEF RRefused, RxUpset, Slipped
  <1>5. CASE RErrors
    <2>1. /\ rpc = "errors" /\ rpc' = "requests"
          /\ UNCHANGED <<dma, DMAR, got, rxbuf, rdr, arrived, delivered, rx_count>>
      BY <1>5 DEF RErrors, ReceiveErrors, rxline, rxdrv
    <2> QED  BY <1>1, <2>1, RisingKept DEF Stream, Armed, Counting
  <1>6. CASE RRequests
    <2>1. rpc = "requests" /\ rpc' = "wait" /\ UNCHANGED <<arrived, delivered, rx_count>>
      BY <1>6 DEF RRequests, ReceiveRequests, rxdrv
    <2>2. dma /\ ~DMAR /\ got = 0 /\ rx_count = 0
      BY <1>1, <2>1 DEF Stream, Armed
    <2>3. CASE rdr # None
      <3>1. PICK b : b = rdr
        OBVIOUS
      <3>2. Move(b) /\ rdr' = None
        BY <1>6, <2>2, <2>3, <3>1 DEF RRequests, ReceiveRequests
      <3>3. b \in 0 .. MaxArrived /\ b <= arrived
        BY <2>3, <3>1, Bytes, StreamAssumption DEF ReceiveType
      <3>4. got' = got + 1 /\ DMAR' = dma'
        BY <2>2, <3>2, <3>3, MoveType
      <3>5. Rising'
        BY <1>1, <2>1, <2>2, <2>3, <3>1, <3>2, <3>3, Bytes, MoveRising DEF Rising
      <3>6. Stream'
        BY <2>1, <2>2, <3>2, <3>4 DEF Stream, Armed
      <3> QED  BY <3>5, <3>6
    <2>4. CASE rdr = None
      <3>1. DMAR' = TRUE /\ UNCHANGED <<dma, got, rxbuf, rdr>>
        BY <1>6, <2>4 DEF RRequests, ReceiveRequests
      <3> QED  BY <1>1, <2>1, <2>2, <2>4, <3>1, RisingKept DEF Stream, Armed, Counting
    <2> QED  BY <2>3, <2>4
  <1>7. CASE RWait \/ RTimeout \/ RFree
    <2>1. /\ rpc \in {"wait", "free"} /\ rpc' \in {"free", "put"}
          /\ UNCHANGED <<dma, DMAR, got, rxbuf, rdr, arrived, delivered, rx_count>>
      BY <1>7 DEF RWait, RTimeout, RFree, rxhal, rxline, rxdrv
    <2> QED  BY <1>1, <2>1, RisingKept DEF Stream, Armed, Counting
  <1>8. CASE RPut
    <2>1. /\ rpc = "put" /\ rpc' = "token"
          /\ delivered' = delivered \o SubSeq(rxbuf, 1, rx_count)
          /\ UNCHANGED <<dma, DMAR, got, rxbuf, rdr, arrived, rx_count>>
      BY <1>8 DEF RPut, rxhal, rxline, rxdrv
    <2>2. Rising'
      BY <1>1, <2>1, PutRx DEF Stream
    <2>3. Stream'
      BY <1>1, <2>1 DEF Stream, Armed
    <2> QED  BY <2>2, <2>3
  <1> QED
    BY <1>2, <1>3, <1>4, <1>5, <1>6, <1>7, <1>8 DEF usart_read_task

LEMMA NextRxInv ==
  ASSUME TypeInv, ReceiveInv, RxInv, [Next]_vars
  PROVE  RxInv'
  <1>1. CASE usart_write_task \/ usart_write \/ Transmission \/ Line \/ UNCHANGED vars
    <2>1. /\ UNCHANGED <<dma, DMAR, got, rxbuf, rdr, rx_count, rpc, arrived, delivered>>
          /\ slips \subseteq slips'
      <3>1. CASE usart_write_task \/ usart_write \/ Transmission
        BY <3>1, SendOnly DEF receiveall, rxhal, rxline, rxdrv
      <3>2. CASE Line \/ UNCHANGED vars
        BY <3>2 DEF Line, Silence, vars, uvars, rxhal, rxline, rxdrv
      <3> QED  BY <1>1, <3>1, <3>2
    <2>2. ~RxUpset' => ~RxUpset
      BY <2>1 DEF RxUpset, Slipped
    <2> QED  BY <2>1, <2>2, RisingKept DEF RxInv, Stream
  <1> QED  BY <1>1, HandleRx, ArriveRx, ReadTaskRx DEF Next

-----------------------------------------------------------------------------
(* Theorems *)

\* The invariants of both directions hold in every state of every run.
THEOREM Invariance == Spec => []IInv
  <1>1. Init => IInv
    <2> SUFFICES ASSUME Init PROVE IInv
      OBVIOUS
    <2>1. /\ gState = "READY" /\ txlen = 0 /\ tx_sem = FALSE /\ TCIE = FALSE
          /\ write_buf = << >> /\ written = 0 /\ wpc = "read"
          /\ rpc = "token" /\ rx_state = "FREE" /\ rx_sem = FALSE /\ IDLEIE = FALSE
      BY DEF Init, UInit
    <2>2. SendInv
      <3>1. write_buf \in Seq(Nat) /\ written \in Nat
        <4>1. << >> \in Seq(Nat)
          OBVIOUS
        <4> QED  BY <2>1, <4>1
      <3>2. wpc \notin Loaded /\ wpc \notin Sending /\ wpc \notin {"start", "wait"}
        BY <2>1 DEF Loaded, Sending
      <3> QED  BY <2>1, <3>1, <3>2 DEF SendInv
    <2>3. ReceiveInv
      BY <2>1 DEF ReceiveInv, Receiving, Begun, Outside
    <2> QED  BY <2>2, <2>3 DEF IInv
  <1>2. IInv /\ [Next]_vars => IInv'
    <2> SUFFICES ASSUME IInv, [Next]_vars PROVE IInv'
      OBVIOUS
    <2>1. CASE UNCHANGED vars
      <3>1. UNCHANGED sendvars /\ UNCHANGED receivevars
        BY <2>1 DEF vars, uvars, writer, txhal, txdrv, idleirq, rxdrv, sendvars, receivevars
      <3> QED  BY <3>1, SendKept, ReceiveKept DEF IInv, receivevars
    <2>2. CASE Next
      BY <2>2, WriteTaskStep, ReadTaskStep, HandlerStep, PortStep DEF Next
    <2> QED  BY <2>1, <2>2
  <1> QED  BY <1>1, <1>2, PTL DEF Spec

\* usart.c:127-128, 164-165: a task that waits for a token which is not there has
\* the interrupt that brings it still ahead, for buffers of every size and however
\* receptions are refused, cut short by errors, overtaken or timed out.
THEOREM WakeupsKept == Spec => []Awaited
  <1>1. IInv => Awaited
    BY DEF IInv, SendInv, ReceiveInv, Awaited, Receiving, Begun
  <1> QED  BY Invariance, <1>1, PTL

\* usart.c:402-413: the processor locks up in usart_handler only after a reception
\* was refused, overtaken or timed out, for buffers of every size.
THEOREM StormNeedsUpset == Spec => []NoStorm
  <1>1. IInv => NoStorm
    <2> SUFFICES ASSUME IInv, ~Upset, Storm PROVE FALSE
      BY DEF NoStorm, Upset
    <2>1. rpc \in {"put", "token", "state"}
      BY DEF Storm, IInv, ReceiveInv, Receiving
    <2> QED  BY <2>1 DEF Storm, IInv, ReceiveInv, Outside
  <1> QED  BY Invariance, <1>1, PTL

\* Where the bytes are, in either direction.
BytesInv == TypeInv /\ TxInv /\ RxInv

LEMMA BytesKept == Spec => []BytesInv
  <1>1. Init => BytesInv
    <2> SUFFICES ASSUME Init PROVE BytesInv
      OBVIOUS
    <2>1. SendType
      <3>1. wire \in Seq(0 .. MaxWritten) /\ write_buf \in Seq(1 .. MaxWritten)
            /\ Len(write_buf) = 0
        <4>1. wire = << >> /\ write_buf = << >>
          BY DEF Init, UInit
        <4> QED  BY <4>1
      <3>2. txbuf \in [1 .. BufSize -> 0 .. MaxWritten]
        BY StreamAssumption DEF Init, UInit
      <3>3. 0 \in 0 .. 0 /\ 0 \in 0 .. BufSize /\ 0 \in 0 .. MaxWritten /\ 0 <= BufSize
        BY UsartAssumption, StreamAssumption
      <3> QED
        BY <3>1, <3>2, <3>3 DEF Init, UInit, SendType, Loaded
    <2>2. ReceiveType
      <3>1. delivered \in Seq(0 .. MaxArrived)
        BY DEF Init
      <3>2. rxbuf \in [1 .. BufSize -> 0 .. MaxArrived]
        BY StreamAssumption DEF Init, UInit
      <3>3. 0 \in 0 .. BufSize /\ 0 \in 0 .. MaxArrived /\ 0 < BufSize
        BY UsartAssumption, StreamAssumption
      <3> QED
        BY <3>1, <3>2, <3>3 DEF Init, UInit, ReceiveType, Receiving
    <2>3. Lock \in BOOLEAN
      BY DEF Init, UInit
    <2>4. TxInv
      <3>1. /\ wire = << >> /\ write_buf = << >> /\ txpos = 0 /\ txlen = 0 /\ written = 0
            /\ wpc = "read" /\ gState = "READY" /\ tx_state = "FREE"
        BY DEF Init, UInit
      <3>2. From = 0 /\ Upto = 0 /\ Len(wire) = 0 /\ Len(write_buf) = 0
        BY <3>1 DEF From, Upto, Loaded
      <3> QED  BY <3>1, <3>2 DEF TxInv, TxPhase, Numbered
    <2>5. RxInv
      <3>1. /\ delivered = << >> /\ got = 0 /\ dma = FALSE /\ DMAR = FALSE /\ rpc = "token"
        BY DEF Init, UInit
      <3>2. Len(delivered) = 0
        BY <3>1
      <3> QED  BY <3>1, <3>2 DEF RxInv, Stream, Rising, Armed, Counting
    <2> QED  BY <2>1, <2>2, <2>3, <2>4, <2>5 DEF BytesInv, TypeInv
  <1>2. IInv /\ BytesInv /\ [Next]_vars => BytesInv'
    BY NextTypeInv, NextTxInv, NextRxInv DEF IInv, BytesInv
  <1> QED  BY <1>1, <1>2, Invariance, PTL DEF Spec

\* usart.c: for buffers of every size, the positions in dma_tx_buf and dma_rx_buf
\* and the counts stay within the buffers, and an armed stream has room left.
THEOREM TypeCorrect == Spec => []TypeOK
  <1>1. BytesInv => TypeOK
    <2> SUFFICES ASSUME BytesInv PROVE TypeOK
      OBVIOUS
    <2>1. rdr \in 1 .. MaxArrived \cup {None}
      BY StreamAssumption DEF BytesInv, TypeInv, ReceiveType
    <2>2. {TCIE, tx_sem, rx_sem, dma, EIE, DMAR, ORE, NE, IDLE, IDLEIE, active, Lock} \subseteq BOOLEAN
      BY DEF BytesInv, TypeInv, SendType, ReceiveType
    <2> QED
      BY <2>1, <2>2 DEF BytesInv, TypeInv, SendType, ReceiveType, TypeOK, Loaded, Receiving
  <1> QED  BY <1>1, BytesKept, PTL

\* usart_write_task: what has left the port, what is in dma_tx_buf and what waits
\* in write_buf are together the bytes written, in their order, for buffers of
\* every size - unless the handler gave tx_sem before the transmission began
\* (usart.c:376-383 between 118 and 122) or HAL refused it.
THEOREM BytesSentInOrder == Spec => []TxIntact
  <1>1. BytesInv => TxIntact
    BY InOrder DEF BytesInv, TypeInv, TxInv, TxUpset, TxIntact
  <1> QED  BY <1>1, BytesKept, PTL

\* usart_read_task: no byte is delivered twice or before an earlier one, whatever
\* errors cut receptions short and whatever waits time out - unless the handler
\* counted the bytes of an earlier reception (usart.c:402-413), because that of
\* this call had not begun (usart.c:156) or was refused.
THEOREM BytesDeliveredInOrder == Spec => []RxIntact
  <1>1. BytesInv => RxIntact
    <2> SUFFICES ASSUME BytesInv, ~RxUpset PROVE RxIntact
      BY DEF RxIntact, RxUpset
    <2>1. DOMAIN delivered = 1 .. Len(delivered)
      BY DEF BytesInv, TypeInv, ReceiveType
    <2>2. \A i, j \in 1 .. Len(delivered) : i < j => delivered[i] < delivered[j]
      BY DEF BytesInv, RxInv, Rising
    <2> QED  BY <2>1, <2>2 DEF RxIntact
  <1> QED  BY <1>1, BytesKept, PTL
=============================================================================
