---------------------------- MODULE UsartRequest ----------------------------
(***************************************************************************)
(* A serial port as a line to a device that answers: cubeio_write_regs and *)
(* cubeio_read_regs send a request with usart_transmit_receive and try it  *)
(* again when that fails.  One thread uses the port.                       *)
(*                                                                         *)
(* A request is BufSize times its number, the answer, which is shorter,    *)
(* AnswerSize times: bytes that are not all the same have a wrong checksum.*)
(* The packets are on the stack of the caller: those of each request lie   *)
(* where those of the one before lay, which is where a DMA stream goes on  *)
(* reading and writing when a call did not wait for its end.               *)
(***************************************************************************)
EXTENDS Usart

CONSTANTS
  AnswerSize,     \* bytes of an answer; the buffer has room for the longest packet
  ATTEMPTS,       \* attempts of a request: 3 in cubeio.c
  MaxRequests     \* bound: requests made

ASSUME RequestAssumption ==
  AnswerSize \in 1 .. BufSize /\ ATTEMPTS \in Nat \ {0} /\ MaxRequests \in Nat

VARIABLES
  request, attempt,     \* the request being made, the attempt
  rv,                   \* "OK", "BUSY", "TIMEOUT"
  reply,                \* the bytes the device has yet to send
  slips

caller == <<request, attempt, rv>>
vars == <<uvars, caller, reply, slips>>

Init ==
  /\ UInit
  /\ rpc = "call"
  /\ request = 0 /\ attempt = ATTEMPTS /\ rv = "OK"
  /\ reply = << >>
  /\ slips = {}

-----------------------------------------------------------------------------
(* cubeio_write_regs, cubeio_read_regs *)

HoldsAnswer(r) == \A i \in 1 .. AnswerSize : rxbuf[i] = r

\* The code and the checksum are those of an answer; nothing says of which request.
Accepted == rv = "OK" /\ \E r \in 1 .. request : HoldsAnswer(r)

\* A packet with nothing in it has a right code and a right checksum, too: it will
\* do for a write, and not for a read, which looks for its number of registers.
Empty == rv = "OK" /\ HoldsAnswer(0)

\* A new request: both packets are cleared, then the request is written.
NewRequest ==
  /\ At("call")
  /\ Accepted \/ Empty \/ attempt = ATTEMPTS
  /\ request < MaxRequests
  /\ request' = request + 1 /\ attempt' = 1
  /\ txbuf' = [i \in 1 .. BufSize |-> request']
  /\ rxbuf' = [i \in 1 .. BufSize |-> 0]
  /\ rpc' = "token"
  /\ UNCHANGED <<gState, txpos, txlen, TCIE, wire, txdrv, rxhal, rxline, idleirq, rxdrv, Lock>>
  /\ UNCHANGED <<rv, reply, slips>>

Retry ==
  /\ At("call")
  /\ ~Accepted /\ attempt < ATTEMPTS
  /\ attempt' = attempt + 1
  /\ rpc' = "token"
  /\ UNCHANGED <<txhal, txdrv, rxhal, rxbuf, rxline, idleirq, rxdrv, Lock>>
  /\ UNCHANGED <<request, rv, reply, slips>>

-----------------------------------------------------------------------------
(* usart_transmit_receive *)

Kept == UNCHANGED <<caller, reply, slips>>

Token == At("token") /\ TakeStaleToken("state") /\ Kept

States ==
  /\ At("state")
  /\ tx_state' = "TRANSMIT" /\ rx_state' = "RECEIVE" /\ rx_count' = 0
  /\ rpc' = "idle"
  /\ UNCHANGED <<txhal, tx_sem, rxhal, rxbuf, rxline, idleirq, rx_sem, Lock>>
  /\ Kept

Idle == At("idle") /\ EnableIdle("start") /\ Kept

Start ==
  /\ At("start")
  /\ ReceiveStart("errors")
  /\ rv' = "OK"
  /\ UNCHANGED <<request, attempt, reply, slips>>

\* HAL_BUSY; the request is sent all the same.
StartRefused ==
  /\ At("start")
  /\ ReceiveRefused
  /\ rv' = "BUSY"
  /\ rpc' = "claim"
  /\ UNCHANGED <<txhal, txdrv, rxhal, rxbuf, rxline, idleirq, rxdrv, Lock>>
  /\ UNCHANGED <<request, attempt, reply, slips>>

Errors == At("errors") /\ ReceiveErrors("requests") /\ Kept

Requests == At("requests") /\ ReceiveRequests("claim") /\ Kept

Claim ==
  /\ At("claim")
  /\ TransmitClaim
  /\ rpc' = "send"
  /\ UNCHANGED <<txdrv, rxhal, rxbuf, rxline, idleirq, rxdrv>>
  /\ Kept

ClaimRefused ==
  /\ At("claim")
  /\ TransmitRefused
  /\ rv' = "BUSY"
  /\ rpc' = "free"
  /\ UNCHANGED <<txhal, txdrv, rxhal, rxbuf, rxline, idleirq, rxdrv, Lock>>
  /\ UNCHANGED <<request, attempt, reply, slips>>

Send ==
  /\ At("send")
  /\ TransmitStart(BufSize)
  /\ rpc' = IF rv = "OK" THEN "wait" ELSE "free"
  /\ UNCHANGED <<txdrv, rxhal, rxbuf, rxline, idleirq, rxdrv>>
  /\ Kept

\* Mutant: the call waits for the end of the request, not for the answer.
WaitForSent ==
  /\ At("wait")
  /\ tx_sem
  /\ tx_sem' = FALSE
  /\ rpc' = "free"
  /\ UNCHANGED <<txhal, tx_state, rxhal, rxbuf, rxline, idleirq, rxdrv, Lock>>
  /\ Kept

Wait ==
  /\ At("wait")
  /\ rx_sem
  /\ rx_sem' = FALSE
  /\ rpc' = "free"
  /\ UNCHANGED <<txhal, txdrv, rxhal, rxbuf, rxline, idleirq, rx_state, rx_count, Lock>>
  /\ Kept

\* Mutant: once bytes have come in, the call waits for the rest without limit.
TimeoutForFirst ==
  /\ At("wait")
  /\ MayTimeOut /\ ~rx_sem /\ got = 0
  /\ rv' = "TIMEOUT"
  /\ slips' = slips \cup {"timeout"}
  /\ rpc' = "free"
  /\ UNCHANGED <<txhal, txdrv, rxhal, rxbuf, rxline, idleirq, rxdrv, Lock>>
  /\ UNCHANGED <<request, attempt, reply>>

\* The reception and the idle interrupt stay as they are.
Timeout ==
  /\ At("wait")
  /\ MayTimeOut /\ ~rx_sem
  /\ rv' = "TIMEOUT"
  /\ slips' = slips \cup {"timeout"}
  /\ rpc' = "free"
  /\ UNCHANGED <<txhal, txdrv, rxhal, rxbuf, rxline, idleirq, rxdrv, Lock>>
  /\ UNCHANGED <<request, attempt, reply>>

Free ==
  /\ At("free")
  /\ tx_state' = "FREE" /\ rx_state' = "FREE"
  /\ rpc' = "call"
  /\ UNCHANGED <<txhal, tx_sem, rxhal, rxbuf, rxline, idleirq, rx_sem, rx_count, Lock>>
  /\ Kept

usart_transmit_receive ==
  \/ Token \/ States \/ Idle \/ Start \/ StartRefused \/ Errors \/ Requests
  \/ Claim \/ ClaimRefused \/ Send \/ Wait \/ Timeout \/ Free

-----------------------------------------------------------------------------
(* The port and the device *)

Handle == usart_handler /\ Kept

Transmission == (TransmitByte \/ usart_dma_tx_handler) /\ Kept

\* The device takes a whole request once the line has carried it, and answers
\* or not.  It takes no notice of one that changed on the way.
Answer ==
  /\ Len(wire) >= BufSize /\ txlen = 0 /\ ~TCIE
  /\ wire' = << >>
  /\ LET whole == \A i \in DOMAIN wire : wire[i] = wire[1]
     IN  reply' \in {reply} \cup 
         (IF whole THEN {reply \o [i \in 1 .. AnswerSize |-> wire[1]]} ELSE {})
  /\ UNCHANGED <<gState, txbuf, txpos, txlen, TCIE>>
  /\ UNCHANGED <<txdrv, rxhal, rxbuf, rxline, idleirq, rxdrv, Lock, rpc, caller, slips>>

Arrive ==
  /\ reply # << >>
  /\ reply' = Tail(reply)
  /\ \E noisy \in {FALSE, "noise" \notin slips} :   \* bound: one byte is damaged
       /\ ReceiveByte(Head(reply), noisy)
       /\ slips' = slips \cup (IF noisy THEN {"noise"} ELSE {})
  /\ UNCHANGED caller

\* The line may fall silent in the middle of an answer.
Line ==
  /\ Silence
  /\ slips' = slips \cup (IF Len(reply) % AnswerSize # 0 THEN {"gap"} ELSE {})
  /\ UNCHANGED <<caller, reply>>

Next ==
  \/ NewRequest \/ Retry \/ usart_transmit_receive
  \/ Handle \/ Transmission \/ Answer \/ Arrive \/ Line

\* The thread runs when it can, a wait of 100 ms ends, the port goes on by itself.
\* Nothing makes the device answer.
Fairness ==
  /\ WF_vars(usart_transmit_receive) /\ WF_vars(Handle) /\ WF_vars(Transmission)

Spec == Init /\ [][Next]_vars /\ Fairness

-----------------------------------------------------------------------------
(* Properties *)

Slipped(what) == what \cap slips # {}

\* cubeio.c:360-386: the first packet that a call reports as received is the answer
\* to its own request, whole, and until then no call is refused - so long as the
\* device has answered within the time, in one piece and without errors.  (After a
\* timeout the answer of an earlier request may be taken for that of a later one.)
AnswerMatches ==
  ~Slipped({"timeout", "gap", "noise"}) /\ rpc = "free" =>
    rv = "OK" /\ rx_count = AnswerSize /\ HoldsAnswer(request)

\* Noise does not make the port lock up the processor: that takes a call that timed
\* out, or an answer in pieces, whose rest can end the next call (usart.c:402) while
\* the request of that call is still being sent.
NoStorm == Slipped({"timeout", "gap"}) \/ ~Storm

\* Nor does it make later calls fail without an attempt, HAL_BUSY for a direction
\* that the call before left running (usart.c:207-215).
NeverRefused == Slipped({"timeout", "gap"}) \/ rv # "BUSY"

\* usart.c:207-217: a call returns, whatever the device does, unless the processor
\* is locked up.
CallReturns == rpc # "call" ~> rpc = "call" \/ Storm
=============================================================================
