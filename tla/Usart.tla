------------------------------- MODULE Usart -------------------------------
(***************************************************************************)
(* bsp/mcu/periph/usart: what usart_receive, usart_transmit and            *)
(* usart_transmit_receive are made of on a port with two DMA streams and   *)
(* mode USART_IDLE (ttyS2, ttyS3, ttyS5): the steps of HAL_UART_Receive_DMA*)
(* and HAL_UART_Transmit_DMA, the interrupt handler, and the peripheral.   *)
(* UsartStream and UsartRequest compose them into the threads.             *)
(*                                                                         *)
(* A reception fills a buffer until the line falls silent: the idle        *)
(* interrupt counts the bytes, aborts the DMA stream and wakes the thread. *)
(* An interrupt handler preempts the threads at once and is one step; the  *)
(* peripheral and the DMA streams take steps at any moment.                *)
(*                                                                         *)
(* Left out: parity, ports without DMA, mode USART_TIMEOUT, tx_count (never*)
(* read), the baud rate, errors of a DMA stream.                           *)
(***************************************************************************)
EXTENDS Integers, Sequences

CONSTANTS
  BufSize,        \* bytes the DMA moves in one reception or transmission
  None,           \* "the data register holds no byte"
  tx_rx_timeout,  \* milliseconds
  TickRange       \* a tick counter goes from 0 to TickRange - 1: 2^32 in the code

ASSUME UsartAssumption ==
  /\ BufSize \in Nat \ {0}
  /\ TickRange \in Nat \ {0} /\ tx_rx_timeout \in 0 .. TickRange - 1
  /\ None \notin Nat

VARIABLES
  \* transmission
  gState,         \* HAL: "READY" or "BUSY"
  txbuf,          \* the memory the DMA stream reads
  txpos, txlen,   \* bytes it has read, bytes it is to read; 0 when it is off
  TCIE,           \* interrupt at the end of the transmission enabled, and due
  wire,           \* the bytes that have left the port
  tx_state, tx_sem,
  \* reception
  RxState,        \* HAL: "READY" or "BUSY"
  rxbuf,          \* the memory the DMA stream writes
  dma,            \* the stream is armed (hdmarx->State is not READY)
  got,            \* bytes it has written: RxXferSize - NDTR
  EIE, DMAR,      \* error interrupt and DMA requests enabled
  rdr,            \* data register
  ORE, NE,        \* overrun; framing or noise error
  IDLE, IDLEIE,   \* the line fell silent; interrupt on it enabled
  active,         \* bytes came in since the line was silent
  rx_state, rx_sem, rx_count,
  \* both
  Lock,           \* __HAL_LOCK of the port's handle
  rpc             \* where the thread is that receives

txhal == <<gState, txbuf, txpos, txlen, TCIE, wire>>
txdrv == <<tx_state, tx_sem>>
rxhal == <<RxState, dma, got, EIE, DMAR>>
rxline == <<rdr, ORE, NE, active>>
idleirq == <<IDLE, IDLEIE>>
rxdrv == <<rx_state, rx_sem, rx_count>>
uvars == <<txhal, txdrv, rxhal, rxbuf, rxline, idleirq, rxdrv, Lock, rpc>>

\* usart_init: the handles are ready, the semaphores empty, the buffers zeroed.
UInit ==
  /\ gState = "READY" /\ txpos = 0 /\ txlen = 0 /\ TCIE = FALSE /\ wire = << >>
  /\ txbuf = [i \in 1 .. BufSize |-> 0] /\ rxbuf = [i \in 1 .. BufSize |-> 0]
  /\ tx_state = "FREE" /\ tx_sem = FALSE
  /\ RxState = "READY" /\ dma = FALSE /\ got = 0 /\ EIE = FALSE /\ DMAR = FALSE
  /\ rdr = None /\ ORE = FALSE /\ NE = FALSE /\ active = FALSE
  /\ IDLE = FALSE /\ IDLEIE = FALSE
  /\ rx_state = "FREE" /\ rx_sem = FALSE /\ rx_count = 0
  /\ Lock = FALSE

-----------------------------------------------------------------------------
(* Time *)

\* pdMS_TO_TICKS multiplies before it divides, in the width of a tick counter.
pdMS_TO_TICKS(ms) == ((ms * 1000) % TickRange) \div 1000
portMAX_DELAY == TickRange - 1

\* xSemaphoreTake gives up unless it is told portMAX_DELAY in ticks.  The ports
\* are configured with portMAX_DELAY in milliseconds, which is another number.
MayTimeOut == pdMS_TO_TICKS(tx_rx_timeout) # portMAX_DELAY

-----------------------------------------------------------------------------
(* The peripheral and the DMA streams *)

\* The stream takes the next byte from memory and the port sends it.
TransmitByte ==
  /\ txpos < txlen
  /\ wire' = Append(wire, txbuf[txpos + 1])
  /\ txpos' = txpos + 1
  /\ UNCHANGED <<gState, txbuf, txlen, TCIE>>
  /\ UNCHANGED <<txdrv, rxhal, rxbuf, rxline, idleirq, rxdrv, Lock, rpc>>

\* usart_dma_tx_handler: UART_DMATransmitCplt enables the interrupt that the end
\* of the last byte raises; nothing looks at TCIE before that end.
usart_dma_tx_handler ==
  /\ txlen > 0 /\ txpos = txlen
  /\ txpos' = 0 /\ txlen' = 0
  /\ TCIE' = TRUE
  /\ UNCHANGED <<gState, txbuf, wire>>
  /\ UNCHANGED <<txdrv, rxhal, rxbuf, rxline, idleirq, rxdrv, Lock, rpc>>

\* The stream moves byte b to memory.  When the buffer is full,
\* usart_dma_rx_handler ends the reception (UART_DMAReceiveCplt).
Move(b) ==
  LET full == got + 1 = BufSize IN
  /\ rxbuf' = [rxbuf EXCEPT ![got + 1] = b]
  /\ got' = got + 1
  /\ dma' = ~full
  /\ DMAR' = ~full
  /\ EIE' = IF full THEN FALSE ELSE EIE
  /\ RxState' = IF full THEN "READY" ELSE RxState

\* Byte b comes in, with a framing or noise error or without: it goes to memory,
\* or else to the data register if that is free.
ReceiveByte(b, noisy) ==
  /\ active' = TRUE
  /\ NE' = (NE \/ noisy)
  /\ \/ DMAR /\ dma /\ Move(b) /\ UNCHANGED <<rdr, ORE>>
     \/ /\ ~(DMAR /\ dma)
        /\ rdr' = IF rdr = None THEN b ELSE rdr
        /\ ORE' = (ORE \/ rdr # None)
        /\ UNCHANGED <<rxhal, rxbuf>>
  /\ UNCHANGED <<txhal, txdrv, idleirq, rxdrv, Lock, rpc>>

\* No byte follows.
Silence ==
  /\ active
  /\ active' = FALSE
  /\ IDLE' = TRUE
  /\ UNCHANGED <<txhal, txdrv, rxhal, rxbuf, rdr, ORE, NE, IDLEIE, rxdrv, Lock, rpc>>

-----------------------------------------------------------------------------
(* usart_handler *)

Pending == TCIE \/ (EIE /\ (ORE \/ NE)) \/ (IDLE /\ IDLEIE)

\* HAL_UART_IRQHandler looks at errors first and at nothing else when it finds one.
ErrorHandled == EIE /\ (ORE \/ NE)
Completed == TCIE /\ ~ErrorHandled

\* Mutant: the state is read before HAL_UART_IRQHandler, not after.
TransmittedBefore == gState = "READY" /\ tx_state = "TRANSMIT"

\* Whatever brought the handler on, it looks at the state of both directions.
Transmitted == (gState = "READY" \/ Completed) /\ tx_state = "TRANSMIT"
\* Mutant: only a reception that HAL still runs is ended.
ReceivedWhileBusy == IDLE /\ rx_state = "RECEIVE" /\ RxState = "BUSY"

Received == IDLE /\ rx_state = "RECEIVE"

\* Mutant: the end of a transmission is acknowledged together with an error.
HandleTransmissionDropsEnd ==
  /\ gState' = IF Completed THEN "READY" ELSE gState
  /\ TCIE' = FALSE
  /\ tx_sem' = (tx_sem \/ Transmitted)
  /\ UNCHANGED <<txbuf, txpos, txlen, wire, tx_state>>

HandleTransmission ==
  /\ gState' = IF Completed THEN "READY" ELSE gState
  /\ TCIE' = (TCIE /\ ~Completed)
  /\ tx_sem' = (tx_sem \/ Transmitted)
  /\ UNCHANGED <<txbuf, txpos, txlen, wire, tx_state>>

\* HAL_UART_IRQHandler ends the reception on an overrun, and on any error once
\* the stream's requests are enabled.
Aborted == ErrorHandled /\ (DMAR \/ ORE)

\* Mutant: the interrupt stays enabled, line 412 is missing.
HandleReceptionKeepsInterrupt ==
  /\ IF Aborted \/ Received
     THEN RxState' = "READY" /\ EIE' = FALSE /\ DMAR' = FALSE /\ dma' = (dma /\ ~DMAR)
     ELSE UNCHANGED <<RxState, EIE, DMAR, dma>>
  /\ IF ErrorHandled \/ Received
     THEN ORE' = FALSE /\ NE' = FALSE
     ELSE UNCHANGED <<ORE, NE>>
  /\ IF Received
     THEN rx_count' = got /\ rdr' = None /\ IDLE' = FALSE /\ rx_sem' = TRUE
     ELSE UNCHANGED <<rx_count, rdr, IDLE, rx_sem>>
  /\ UNCHANGED <<got, active, rx_state, IDLEIE>>

\* Mutant: the reception is not aborted, line 410 is missing.
HandleReceptionGoesOn ==
  /\ IF Aborted
     THEN RxState' = "READY" /\ EIE' = FALSE /\ DMAR' = FALSE /\ dma' = (dma /\ ~DMAR)
     ELSE UNCHANGED <<RxState, EIE, DMAR, dma>>
  /\ IF ErrorHandled
     THEN ORE' = FALSE /\ NE' = FALSE
     ELSE UNCHANGED <<ORE, NE>>
  /\ IF Received
     THEN rx_count' = got /\ IDLE' = FALSE /\ IDLEIE' = FALSE /\ rx_sem' = TRUE
     ELSE UNCHANGED <<rx_count, idleirq, rx_sem>>
  /\ UNCHANGED <<got, rdr, active, rx_state>>

\* Mutant: an error wakes the thread too, like the end of the answer.
HandleReceptionWakesOnError ==
  /\ IF Aborted \/ Received
     THEN RxState' = "READY" /\ EIE' = FALSE /\ DMAR' = FALSE /\ dma' = (dma /\ ~DMAR)
     ELSE UNCHANGED <<RxState, EIE, DMAR, dma>>
  /\ IF ErrorHandled \/ Received
     THEN ORE' = FALSE /\ NE' = FALSE
     ELSE UNCHANGED <<ORE, NE>>
  /\ IF Received
     THEN rx_count' = got /\ rdr' = None /\ IDLE' = FALSE /\ IDLEIE' = FALSE
     ELSE UNCHANGED <<rx_count, rdr, idleirq>>
  /\ rx_sem' = (rx_sem \/ Received \/ Aborted)
  /\ UNCHANGED <<got, active, rx_state>>

\* When the line is silent, HAL_UART_AbortReceive ends the reception and empties
\* the data register.  The stream stops only if its requests are enabled.
HandleReception ==
  /\ IF Aborted \/ Received
     THEN RxState' = "READY" /\ EIE' = FALSE /\ DMAR' = FALSE /\ dma' = (dma /\ ~DMAR)
     ELSE UNCHANGED <<RxState, EIE, DMAR, dma>>
  /\ IF ErrorHandled \/ Received
     THEN ORE' = FALSE /\ NE' = FALSE
     ELSE UNCHANGED <<ORE, NE>>
  /\ IF Received
     THEN /\ rx_count' = got
          /\ rdr' = None
          /\ IDLE' = FALSE /\ IDLEIE' = FALSE
          /\ rx_sem' = TRUE
     ELSE UNCHANGED <<rx_count, rdr, idleirq, rx_sem>>
  /\ UNCHANGED <<got, active, rx_state>>

usart_handler ==
  /\ Pending
  /\ HandleTransmission
  /\ HandleReception
  /\ UNCHANGED <<rxbuf, Lock, rpc>>

\* An interrupt the handler does nothing about: it comes again at once, for ever,
\* and no thread runs any more.
Storm == IDLE /\ IDLEIE /\ rx_state = "FREE"

-----------------------------------------------------------------------------
(* Receiving: the steps of a thread, each leading to the next place *)

\* Threads run while no interrupt is pending.
At(place) == ~Pending /\ rpc = place

TakeStaleToken(next) ==
  /\ rx_sem' = FALSE
  /\ rpc' = next
  /\ UNCHANGED <<txhal, txdrv, rxhal, rxbuf, rxline, idleirq, rx_state, rx_count, Lock>>

EnableIdle(next) ==
  /\ IDLE' = FALSE /\ IDLEIE' = TRUE
  /\ rpc' = next
  /\ UNCHANGED <<txhal, txdrv, rxhal, rxbuf, rxline, rxdrv, Lock>>

\* HAL_UART_Receive_DMA: lock the handle, claim the reception, arm the stream.
\* A stream still armed makes HAL_DMA_Start_IT fail.
ReceiveRefused == RxState # "READY" \/ Lock \/ dma

\* Mutant: the counter of the stream goes on where it was.
ReceiveStartKeepsCount(next) ==
  /\ ~ReceiveRefused
  /\ Lock' = TRUE
  /\ RxState' = "BUSY"
  /\ dma' = TRUE
  /\ rpc' = next
  /\ UNCHANGED <<txhal, txdrv, EIE, DMAR, got, rxbuf, rxline, idleirq, rxdrv>>

ReceiveStart(next) ==
  /\ ~ReceiveRefused
  /\ Lock' = TRUE
  /\ RxState' = "BUSY"
  /\ dma' = TRUE /\ got' = 0
  /\ rpc' = next
  /\ UNCHANGED <<txhal, txdrv, EIE, DMAR, rxbuf, rxline, idleirq, rxdrv>>

ReceiveErrors(next) ==
  /\ Lock' = FALSE
  /\ EIE' = TRUE
  /\ rpc' = next
  /\ UNCHANGED <<txhal, txdrv, RxState, dma, got, DMAR, rxbuf, rxline, idleirq, rxdrv>>

\* A byte that waits in the data register is moved at once.
ReceiveRequests(next) ==
  /\ IF dma /\ rdr # None
     THEN Move(rdr) /\ rdr' = None
     ELSE DMAR' = TRUE /\ UNCHANGED <<RxState, dma, got, EIE, rxbuf, rdr>>
  /\ rpc' = next
  /\ UNCHANGED <<txhal, txdrv, ORE, NE, active, idleirq, rxdrv, Lock>>

\* The interrupt comes after the thread said it receives and before the
\* reception has begun: what it ends is none, or an earlier one.
Starting == rpc \in {"idle", "start", "errors", "requests"}

-----------------------------------------------------------------------------
(* Sending: HAL_UART_Transmit_DMA *)

TransmitRefused == gState # "READY" \/ Lock

TransmitClaim ==
  /\ ~TransmitRefused
  /\ Lock' = TRUE
  /\ gState' = "BUSY"
  /\ UNCHANGED <<txbuf, txpos, txlen, TCIE, wire>>

TransmitStart(n) ==
  /\ Lock' = FALSE
  /\ txpos' = 0 /\ txlen' = n
  /\ UNCHANGED <<gState, txbuf, TCIE, wire>>
=============================================================================
