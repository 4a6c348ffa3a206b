---------------------------- MODULE UsartStream ----------------------------
(***************************************************************************)
(* A serial port as a file: usart_read_task hands what usart_receive       *)
(* brings to the application, usart_write_task passes what usart_write     *)
(* left in write_buf to usart_transmit.  The tasks share the HAL handle    *)
(* and its lock, and both wait for the one interrupt handler.              *)
(*                                                                         *)
(* Bytes are numbered in the order in which they are written, or come in.  *)
(* A ring buffer is the queue ByteQueue promises; the application reads    *)
(* whatever is put into read_buf.  slips records that one of the tasks has *)
(* been overtaken; what still holds then, and what does not, is what the   *)
(* properties tell.                                                        *)
(***************************************************************************)
EXTENDS Usart

CONSTANTS
  MaxWritten,     \* bound: bytes the application writes
  MaxArrived      \* bound: bytes that come in

ASSUME StreamAssumption == MaxWritten \in Nat /\ MaxArrived \in Nat

VARIABLES
  write_buf, written,   \* the ring buffer; number of the latest byte written
  wpc, length,          \* the write task; the number of bytes it has read
  arrived,              \* number of the latest byte that came in
  delivered,            \* the bytes put into read_buf
  slips

writer == <<write_buf, written, wpc, length>>
vars == <<uvars, writer, arrived, delivered, slips>>

\* usart_open creates the two tasks.
Init ==
  /\ UInit
  /\ rpc = "token"
  /\ write_buf = << >> /\ written = 0 /\ wpc = "read" /\ length = 0
  /\ arrived = 0 /\ delivered = << >>
  /\ slips = {}

-----------------------------------------------------------------------------
(* The application *)

\* One byte of ring_buf_write at a time.
usart_write ==
  /\ ~Pending
  /\ written < MaxWritten
  /\ Len(write_buf) < BufSize
  /\ written' = written + 1
  /\ write_buf' = Append(write_buf, written')
  /\ UNCHANGED <<uvars, wpc, length, arrived, delivered, slips>>

-----------------------------------------------------------------------------
(* usart_write_task *)

\* usart_transmit and what it calls leave the reception alone.
WStep(place, next) ==
  /\ ~Pending
  /\ wpc = place
  /\ wpc' = next
  /\ UNCHANGED <<rxhal, rxbuf, rxline, idleirq, rxdrv, rpc, written, arrived, delivered>>

\* ring_buf_read waits for bytes and copies them over what dma_tx_buf held.
WRead ==
  /\ write_buf # << >>
  /\ \E n \in 1 .. Len(write_buf) :
       /\ txbuf' = [i \in 1 .. BufSize |-> IF i <= n THEN write_buf[i] ELSE txbuf[i]]
       /\ write_buf' = SubSeq(write_buf, n + 1, Len(write_buf))
       /\ length' = n
  /\ WStep("read", "token")
  /\ UNCHANGED <<gState, txpos, txlen, TCIE, wire, txdrv, Lock, slips>>

WToken ==
  /\ WStep("token", "state")
  /\ tx_sem' = FALSE
  /\ UNCHANGED <<txhal, tx_state, Lock, write_buf, length, slips>>

WState ==
  /\ WStep("state", "claim")
  /\ tx_state' = "TRANSMIT"
  /\ UNCHANGED <<txhal, tx_sem, Lock, write_buf, length, slips>>

WClaim ==
  /\ WStep("claim", "start")
  /\ TransmitClaim
  /\ UNCHANGED <<txdrv, write_buf, length, slips>>

\* HAL_BUSY: the bytes are lost.
WRefused ==
  /\ TransmitRefused
  /\ WStep("claim", "free")
  /\ slips' = slips \cup {"refused_tx"}
  /\ UNCHANGED <<txhal, txdrv, Lock, write_buf, length>>

WStart ==
  /\ WStep("start", "wait")
  /\ TransmitStart(length)
  /\ UNCHANGED <<txdrv, write_buf, length, slips>>

\* Mutant: the task does not wait for the end of the transmission.
WWaitNever ==
  /\ WStep("wait", "free")
  /\ UNCHANGED <<txhal, txdrv, Lock, write_buf, length, slips>>

\* A transmission ends within milliseconds: the wait does not time out.
WWait ==
  /\ tx_sem
  /\ WStep("wait", "free")
  /\ tx_sem' = FALSE
  /\ UNCHANGED <<txhal, tx_state, Lock, write_buf, length, slips>>

WFree ==
  /\ WStep("free", "read")
  /\ tx_state' = "FREE"
  /\ UNCHANGED <<txhal, tx_sem, Lock, write_buf, length, slips>>

usart_write_task ==
  WRead \/ WToken \/ WState \/ WClaim \/ WRefused \/ WStart \/ WWait \/ WFree

-----------------------------------------------------------------------------
(* usart_read_task *)

RToken == At("token") /\ TakeStaleToken("state") /\ UNCHANGED <<writer, arrived, delivered, slips>>

\* Mutant: rx_count keeps the count of the call before.
RStateKeepsCount ==
  /\ At("state")
  /\ rx_state' = "RECEIVE"
  /\ rpc' = "idle"
  /\ UNCHANGED <<txhal, txdrv, rxhal, rxbuf, rxline, idleirq, rx_sem, rx_count, Lock>>
  /\ UNCHANGED <<writer, arrived, delivered, slips>>

RState ==
  /\ At("state")
  /\ rx_state' = "RECEIVE" /\ rx_count' = 0
  /\ rpc' = "idle"
  /\ UNCHANGED <<txhal, txdrv, rxhal, rxbuf, rxline, idleirq, rx_sem, Lock>>
  /\ UNCHANGED <<writer, arrived, delivered, slips>>

RIdle == At("idle") /\ EnableIdle("start") /\ UNCHANGED <<writer, arrived, delivered, slips>>

RStart == At("start") /\ ReceiveStart("errors") /\ UNCHANGED <<writer, arrived, delivered, slips>>

\* HAL_BUSY: usart_receive returns and leaves the idle interrupt enabled.
RRefused ==
  /\ At("start")
  /\ ReceiveRefused
  /\ rpc' = "free"
  /\ slips' = slips \cup {"refused_rx"}
  /\ UNCHANGED <<txhal, txdrv, rxhal, rxbuf, rxline, idleirq, rxdrv, Lock>>
  /\ UNCHANGED <<writer, arrived, delivered>>

RErrors ==
  At("errors") /\ ReceiveErrors("requests") /\ UNCHANGED <<writer, arrived, delivered, slips>>

RRequests ==
  At("requests") /\ ReceiveRequests("wait") /\ UNCHANGED <<writer, arrived, delivered, slips>>

RWait ==
  /\ At("wait")
  /\ rx_sem
  /\ rx_sem' = FALSE
  /\ rpc' = "free"
  /\ UNCHANGED <<txhal, txdrv, rxhal, rxbuf, rxline, idleirq, rx_state, rx_count, Lock>>
  /\ UNCHANGED <<writer, arrived, delivered, slips>>

\* usart_receive gives up, and leaves the reception and the interrupt as they are.
RTimeout ==
  /\ At("wait")
  /\ MayTimeOut /\ ~rx_sem
  /\ rpc' = "free"
  /\ slips' = slips \cup {"timeout"}
  /\ UNCHANGED <<txhal, txdrv, rxhal, rxbuf, rxline, idleirq, rxdrv, Lock>>
  /\ UNCHANGED <<writer, arrived, delivered>>

RFree ==
  /\ At("free")
  /\ rx_state' = "FREE"
  /\ rpc' = "put"
  /\ UNCHANGED <<txhal, txdrv, rxhal, rxbuf, rxline, idleirq, rx_sem, rx_count, Lock>>
  /\ UNCHANGED <<writer, arrived, delivered, slips>>

\* ring_buf_write, whether usart_receive failed or not.
RPut ==
  /\ At("put")
  /\ delivered' = delivered \o SubSeq(rxbuf, 1, rx_count)
  /\ rpc' = "token"
  /\ UNCHANGED <<txhal, txdrv, rxhal, rxbuf, rxline, idleirq, rxdrv, Lock>>
  /\ UNCHANGED <<writer, arrived, slips>>

usart_read_task ==
  \/ RToken \/ RState \/ RIdle \/ RStart \/ RRefused \/ RErrors \/ RRequests
  \/ RWait \/ RFree \/ RPut

-----------------------------------------------------------------------------
(* The port *)

\* The handler overtakes a task that has announced a transfer and not begun it.
Handle ==
  /\ usart_handler
  /\ slips' = slips \cup (IF Transmitted /\ wpc = "claim" THEN {"early_tx"} ELSE {})
                    \cup (IF Received /\ Starting THEN {"early_idle"} ELSE {})
  /\ UNCHANGED <<writer, arrived, delivered>>

Arrive ==
  /\ arrived < MaxArrived
  /\ arrived' = arrived + 1
  /\ \E noisy \in BOOLEAN : ReceiveByte(arrived', noisy)
  /\ UNCHANGED <<writer, delivered, slips>>

Line == Silence /\ UNCHANGED <<writer, arrived, delivered, slips>>

Transmission ==
  (TransmitByte \/ usart_dma_tx_handler) /\ UNCHANGED <<writer, arrived, delivered, slips>>

Next ==
  \/ usart_write \/ usart_write_task \/ usart_read_task \/ RTimeout
  \/ Handle \/ Arrive \/ Line \/ Transmission

\* The two tasks run when they can and the port goes on by itself; a line does
\* not stay busy for ever.  Nothing makes the application write, a byte come in
\* or a wait time out.
Fairness ==
  /\ WF_vars(usart_write_task) /\ WF_vars(usart_read_task)
  /\ WF_vars(Handle) /\ WF_vars(Transmission) /\ WF_vars(Line)

Spec == Init /\ [][Next]_vars /\ Fairness
-----------------------------------------------------------------------------
(* Properties *)

Slipped(what) == what \cap slips # {}

\* usart.c: each state variable, flag and buffer takes the values the code gives it.
TypeOK ==
  /\ gState \in {"READY", "BUSY"} /\ RxState \in {"READY", "BUSY"}
  /\ txbuf \in [1 .. BufSize -> 0 .. MaxWritten]
  /\ rxbuf \in [1 .. BufSize -> 0 .. MaxArrived]
  /\ txpos \in 0 .. txlen /\ txlen \in 0 .. BufSize /\ length \in 0 .. BufSize
  /\ got \in 0 .. BufSize /\ rx_count \in 0 .. BufSize
  /\ dma => got < BufSize
  /\ rdr \in 1 .. MaxArrived \cup {None}
  /\ {TCIE, tx_sem, rx_sem, dma, EIE, DMAR, ORE, NE, IDLE, IDLEIE, active, Lock} \subseteq BOOLEAN
  /\ tx_state \in {"FREE", "TRANSMIT"} /\ rx_state \in {"FREE", "RECEIVE"}
  /\ wpc \in {"read", "token", "state", "claim", "start", "wait", "free"}
  /\ rpc \in {"token", "state", "idle", "start", "errors", "requests", "wait", "free", "put"}
  /\ write_buf \in Seq(1 .. MaxWritten) /\ Len(write_buf) <= BufSize

\* What has been read from write_buf and not been sent.
InFlight ==
  IF wpc \in {"token", "state", "claim", "start"}
  THEN SubSeq(txbuf, 1, length)
  ELSE SubSeq(txbuf, txpos + 1, txlen)

\* usart_write_task: the bytes leave the port in the order in which they were
\* written, none lost, repeated or changed in dma_tx_buf on the way - unless the
\* handler gave tx_sem before the transmission began (usart.c:376-383 between 118
\* and 122), or HAL_UART_Transmit_DMA refused it.
TxIntact ==
  Slipped({"early_tx", "refused_tx"})
    \/ wire \o InFlight \o write_buf = [i \in 1 .. written |-> i]

\* usart_read_task: bytes may be lost while no reception runs, but those delivered
\* are delivered once and in order, whatever errors and timeouts there are - unless
\* the handler counted the bytes of an earlier reception (usart.c:402-413), because
\* that of this call had not begun yet or was refused: then they come again.
RxIntact ==
  Slipped({"early_idle", "refused_rx"})
    \/ \A i, j \in DOMAIN delivered : i < j => delivered[i] < delivered[j]

\* usart_handler leaves the idle interrupt pending when no thread receives.  That
\* locks up the processor; it takes a reception that was refused, timed out or
\* overtaken, each of which leaves IDLEIE set behind (usart.c:156).
NoStorm == Slipped({"early_idle", "refused_rx", "timeout"}) \/ ~Storm

\* A task that waits for a token which is not there has the interrupt that will
\* bring it still ahead, whatever has happened: no wake-up is lost.
Awaited ==
  /\ wpc = "wait" /\ ~tx_sem => gState = "BUSY" /\ (txlen > 0 \/ TCIE)
  /\ rpc = "wait" /\ ~rx_sem => rx_state = "RECEIVE" /\ IDLEIE

\* What usart_write leaves in write_buf is passed on: the write task never hangs in
\* usart_transmit, unless the read task spins (HAL_BUSY in every call) or the
\* processor is locked up.
WriteDrains ==
  write_buf # << >> ~>
    write_buf = << >> \/ Slipped({"early_idle", "refused_rx", "timeout"})

\* A thread in usart_receive returns once bytes have come in while it waits, even
\* when errors have ended the reception before the line falls silent.  Bytes that
\* came in before, and the silence after them, do not do it: usart.c:155 clears the
\* flag, and the thread waits for the bytes that follow.
ReceiveReturns == rpc = "wait" /\ active ~> rpc # "wait"
=============================================================================
