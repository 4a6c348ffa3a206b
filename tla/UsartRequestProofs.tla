------------------------- MODULE UsartRequestProofs -------------------------
(***************************************************************************)
(* The safety properties of UsartRequest hold for packets and answers of   *)
(* every size and any number of requests and attempts.  All of them are    *)
(* about calls that no timeout and no gap has upset: such a call begins on *)
(* a port where nothing runs any more, and passes through the phases of    *)
(* one request and one answer in turn.                                     *)
(***************************************************************************)
EXTENDS UsartRequest, SequenceTheorems, TLAPS

-----------------------------------------------------------------------------
(* The invariant *)

Calm == ~Slipped({"timeout", "gap"})
Clean == ~Slipped({"timeout", "gap", "noise"})

Announced == {"start", "errors", "requests", "claim", "send"}
Places == {"call", "token", "state", "idle", "wait", "free"} \cup Announced
Off == {"call", "token", "state", "idle", "start", "free"}

\* The call waits for its answer, or has it.
Asking == rpc = "wait" /\ ~rx_sem
Answered == rpc = "free" \/ (rpc = "wait" /\ rx_sem)

\* The thread, its request, the lock and the interrupt it has enabled.
ThreadInv ==
  /\ rpc \in Places /\ rv = "OK" /\ request \in Nat
  /\ rx_sem \in BOOLEAN /\ (rx_sem => rpc = "wait")
  /\ Lock \in BOOLEAN /\ (Lock <=> rpc \in {"errors", "send"})
  /\ rx_state = IF rpc \in {"call", "token", "state"} THEN "FREE" ELSE "RECEIVE"
  /\ IDLEIE \in BOOLEAN /\ (IDLEIE <=> rpc \in Announced \/ Asking)

\* The request goes out while the call waits, and is all there is on the line.
RequestInv ==
  /\ txbuf = [i \in 1 .. BufSize |-> request]
  /\ wire \in Seq(Nat) /\ Len(wire) <= BufSize /\ \A i \in 1 .. Len(wire) : wire[i] = request
  /\ gState = IF rpc = "send" \/ txlen > 0 \/ TCIE THEN "BUSY" ELSE "READY"
  /\ TCIE \in BOOLEAN /\ (TCIE => txlen = 0 /\ Len(wire) = BufSize)
  /\ txlen \in {0, BufSize} /\ txpos = IF txlen = 0 THEN 0 ELSE Len(wire)
  /\ txlen = 0 => Len(wire) \in {0, BufSize}
  /\ ~Asking => txlen = 0 /\ ~TCIE /\ wire = << >>

\* No byte has come in since the reception before was ended.
Untouched == ~active /\ ~IDLE /\ rdr = None /\ ~ORE /\ ~NE

\* The answer comes after the request, and silence after the answer.
AnswerInv ==
  /\ active \in BOOLEAN /\ IDLE \in BOOLEAN /\ ORE \in BOOLEAN /\ NE \in BOOLEAN
  /\ reply \in Seq(Nat) /\ Len(reply) <= AnswerSize /\ \A i \in 1 .. Len(reply) : reply[i] = request
  /\ ~Asking \/ txlen > 0 \/ wire # << >> => Untouched /\ reply = << >>
  /\ Len(reply) = AnswerSize => Untouched
  /\ IDLE => ~active /\ reply = << >>

\* The stream is off between two receptions, and its requests are enabled while
\* it runs.
StreamInv ==
  /\ dma \in BOOLEAN /\ DMAR \in BOOLEAN /\ EIE \in BOOLEAN /\ got \in Nat
  /\ rpc \in Off \/ Answered => RxState = "READY" /\ ~EIE /\ ~DMAR /\ ~dma
  /\ rpc \in {"errors", "requests"} => dma /\ ~DMAR /\ got = 0
  /\ rpc \in {"claim", "send"} => dma /\ DMAR /\ got = 0
  /\ Asking => (dma <=> DMAR)

\* Without noise every byte of the answer goes to memory.
BytesInv ==
  /\ ~ORE /\ ~NE /\ rdr = None
  /\ rxbuf = [i \in 1 .. BufSize |-> rxbuf[i]]
  /\ rpc \in Announced \cup {"wait", "free"} /\ rpc # "start" =>
       \A i \in 1 .. BufSize : i <= got => rxbuf[i] = request
  /\ Asking => /\ dma <=> got < BufSize
               /\ IF active \/ IDLE \/ reply # << >> THEN got + Len(reply) = AnswerSize ELSE got = 0
  /\ Answered => rx_count = AnswerSize /\ got = AnswerSize

Core == ThreadInv /\ RequestInv /\ AnswerInv /\ StreamInv

IInv == (Calm => Core) /\ (Clean => BytesInv)

-----------------------------------------------------------------------------
(* What a step starts from *)

LEMMA Sizes == BufSize \in Nat /\ BufSize > 0 /\ AnswerSize \in 1 .. BufSize
  BY UsartAssumption, RequestAssumption

LEMMA LenFacts ==
  ASSUME NEW s \in Seq(Nat)
  PROVE  Len(s) \in Nat /\ (s = << >> <=> Len(s) = 0)
  BY EmptySeq

\* While no answer is awaited the port has nothing to do, and nothing is left of
\* the request before.
LEMMA Resting ==
  ASSUME Core, ~Asking
  PROVE  /\ ~Pending /\ txlen = 0 /\ txpos = 0 /\ TCIE = FALSE /\ wire = << >> /\ reply = << >>
         /\ gState = IF rpc = "send" THEN "BUSY" ELSE "READY"
         /\ active = FALSE /\ IDLE = FALSE /\ rdr = None /\ ORE = FALSE /\ NE = FALSE
  BY DEF Core, RequestInv, AnswerInv, Untouched, Pending

\* The port takes its steps while the call waits.
LEMMA PortAsks ==
  ASSUME Core, Handle \/ Transmission \/ Answer \/ Arrive \/ Line
  PROVE  Asking
  <1> SUFFICES ASSUME ~Asking PROVE FALSE
    OBVIOUS
  <1>1. ~Handle
    BY Resting DEF Handle, usart_handler
  <1>2. ~Transmission
    BY Resting, Sizes DEF Transmission, TransmitByte, usart_dma_tx_handler
  <1>3. ~Answer
    <2>1. Len(wire) = 0
      BY Resting
    <2> QED  BY <2>1, Sizes DEF Answer
  <1>4. ~Arrive
    BY Resting DEF Arrive
  <1>5. ~Line
    BY Resting DEF Line, Silence
  <1> QED  BY <1>1, <1>2, <1>3, <1>4, <1>5

\* While it waits, the call has begun its reception and enabled the interrupt.
LEMMA Waiting ==
  ASSUME Core, Asking
  PROVE  /\ rpc = "wait" /\ rx_sem = FALSE /\ rx_state = "RECEIVE" /\ IDLEIE = TRUE
         /\ Lock = FALSE /\ (dma <=> DMAR)
  BY DEF Core, ThreadInv, StreamInv, Asking, Announced

-----------------------------------------------------------------------------
(* The steps of the call *)

Resume == NewRequest \/ Retry
Call == Resume \/ usart_transmit_receive

LEMMA RestAnswer ==
  ASSUME reply' = << >>, active' = FALSE, IDLE' = FALSE, rdr' = None, ORE' = FALSE, NE' = FALSE
  PROVE  AnswerInv'
  <1>1. Untouched'
    BY DEF Untouched
  <1>2. reply' \in Seq(Nat) /\ Len(reply') = 0
    OBVIOUS
  <1>3. active' \in BOOLEAN /\ IDLE' \in BOOLEAN /\ ORE' \in BOOLEAN /\ NE' \in BOOLEAN /\ ~active'
    OBVIOUS
  <1> QED  BY <1>1, <1>2, <1>3, Sizes DEF AnswerInv

LEMMA RestRequest ==
  ASSUME Core, ~Asking, UNCHANGED <<txpos, txlen, TCIE, wire>>,
         txbuf' = [i \in 1 .. BufSize |-> request'],
         gState' = IF rpc' = "send" THEN "BUSY" ELSE "READY"
  PROVE  RequestInv'
  <1>1. txlen' = 0 /\ txpos' = 0 /\ TCIE' = FALSE /\ wire' = << >> /\ TCIE' \in BOOLEAN
    BY Resting
  <1>2. << >> \in Seq(Nat) /\ Len(<< >>) = 0
    OBVIOUS
  <1> QED  BY <1>1, <1>2, Sizes DEF RequestInv

\* In a calm call no step finds the port taken.
LEMMA CallGoesOn ==
  ASSUME Core, Call
  PROVE  /\ ~StartRefused /\ ~ClaimRefused
         /\ rpc = "wait" => Wait \/ Timeout
         /\ ~Asking \/ Timeout
  <1>1. ~StartRefused
    BY DEF StartRefused, ReceiveRefused, At, Core, StreamInv, ThreadInv, Off
  <1>2. ~ClaimRefused
    <2> SUFFICES ASSUME rpc = "claim", TransmitRefused PROVE FALSE
      BY DEF ClaimRefused, At
    <2>1. gState = "READY" /\ Lock = FALSE
      BY Resting DEF Core, ThreadInv, Asking
    <2> QED  BY <2>1 DEF TransmitRefused
  <1>3. rpc = "wait" => Wait \/ Timeout
    BY DEF Call, Resume, usart_transmit_receive, NewRequest, Retry, Token, States, Idle, Start,
      StartRefused, Errors, Requests, Claim, ClaimRefused, Send, Free, At
  <1>4. Wait => ~Asking
    BY DEF Wait, Asking
  <1> QED  BY <1>1, <1>2, <1>3, <1>4 DEF Asking

LEMMA CallCore ==
  ASSUME Core, Call, ~Timeout
  PROVE  Core'
  <1>0. ~Asking /\ ~StartRefused /\ ~ClaimRefused
    BY CallGoesOn
  <1> USE <1>0
  <1>1. CASE Resume
    <2>1. /\ rpc = "call" /\ rpc' = "token" /\ request' \in Nat
          /\ UNCHANGED <<gState, txpos, txlen, TCIE, wire, txdrv, rxhal, rxline, idleirq, rxdrv, Lock>>
          /\ UNCHANGED <<rv, reply>>
          /\ txbuf' = [i \in 1 .. BufSize |-> request']
      BY <1>1 DEF Resume, NewRequest, Retry, At, txhal, txdrv, Core, ThreadInv, RequestInv
    <2>2. UNCHANGED <<gState, txpos, txlen, TCIE, wire, RxState, dma, got, EIE, DMAR, rdr, ORE, NE,
                      active, IDLE, IDLEIE, rx_state, rx_sem, rx_count, Lock, rv, reply>>
      BY <2>1 DEF txdrv, rxhal, rxline, idleirq, rxdrv
    <2>3. ThreadInv'
      BY <2>1, <2>2 DEF Core, ThreadInv, Asking, Announced, Places
    <2>4. RequestInv'
      BY <2>1, <2>2, RestRequest, Resting
    <2>5. AnswerInv'
      BY <2>2, Resting, RestAnswer
    <2>6. StreamInv'
      BY <2>1, <2>2 DEF Core, StreamInv, Asking, Answered, Off
    <2> QED  BY <2>3, <2>4, <2>5, <2>6 DEF Core
  <1>2. ASSUME UNCHANGED <<txbuf, txpos, txlen, TCIE, wire>>, UNCHANGED <<request, rv, reply, slips>>,
               UNCHANGED rxline, IDLE' = FALSE, gState' = IF rpc' = "send" THEN "BUSY" ELSE "READY",
               ThreadInv', StreamInv'
        PROVE  Core'
    <2>1. UNCHANGED <<txbuf, txpos, txlen, TCIE, wire, request, reply, rdr, ORE, NE, active>>
      BY <1>2 DEF rxline
    <2>2. txbuf' = [i \in 1 .. BufSize |-> request']
      BY <2>1 DEF Core, RequestInv
    <2>3. RequestInv'
      BY <1>2, <2>1, <2>2, RestRequest
    <2>4. AnswerInv'
      BY <1>2, <2>1, Resting, RestAnswer
    <2> QED  BY <1>2, <2>3, <2>4 DEF Core
  <1>3. CASE Token
    <2>1. /\ rpc = "token" /\ rpc' = "state" /\ rx_sem' = FALSE
          /\ UNCHANGED <<gState, txbuf, txpos, txlen, TCIE, wire, RxState, dma, got, EIE, DMAR,
                         IDLE, IDLEIE, rx_state, Lock, request, rv, reply, slips>>
          /\ UNCHANGED rxline
      BY <1>3 DEF Token, TakeStaleToken, At, Kept, caller, txhal, rxhal, idleirq
    <2>2. ThreadInv'
      BY <2>1 DEF Core, ThreadInv, Asking, Announced, Places
    <2>3. StreamInv'
      BY <2>1 DEF Core, StreamInv, Asking, Answered, Off
    <2> QED  BY <2>1, <2>2, <2>3, <1>2, Resting
  <1>4. CASE States
    <2>1. /\ rpc = "state" /\ rpc' = "idle" /\ rx_state' = "RECEIVE"
          /\ UNCHANGED <<gState, txbuf, txpos, txlen, TCIE, wire, RxState, dma, got, EIE, DMAR,
                         IDLE, IDLEIE, rx_sem, Lock, request, rv, reply, slips>>
          /\ UNCHANGED rxline
      BY <1>4 DEF States, At, Kept, caller, txhal, rxhal, idleirq
    <2>2. ThreadInv'
      BY <2>1 DEF Core, ThreadInv, Asking, Announced, Places
    <2>3. StreamInv'
      BY <2>1 DEF Core, StreamInv, Asking, Answered, Off
    <2> QED  BY <2>1, <2>2, <2>3, <1>2, Resting
  <1>5. CASE Idle
    <2>1. /\ rpc = "idle" /\ rpc' = "start" /\ IDLE' = FALSE /\ IDLEIE' = TRUE
          /\ UNCHANGED <<gState, txbuf, txpos, txlen, TCIE, wire, RxState, dma, got, EIE, DMAR,
                         rx_state, rx_sem, Lock, request, rv, reply, slips>>
          /\ UNCHANGED rxline
      BY <1>5 DEF Idle, EnableIdle, At, Kept, caller, txhal, rxhal, rxdrv
    <2>2. ThreadInv'
      BY <2>1 DEF Core, ThreadInv, Asking, Announced, Places
    <2>3. StreamInv'
      BY <2>1 DEF Core, StreamInv, Asking, Answered, Off
    <2> QED  BY <2>1, <2>2, <2>3, <1>2, Resting
  <1>6. CASE Start
    <2>1. /\ rpc = "start" /\ rpc' = "errors" /\ Lock' = TRUE /\ dma' = TRUE /\ got' = 0 /\ rv' = "OK"
          /\ UNCHANGED <<gState, txbuf, txpos, txlen, TCIE, wire, EIE, DMAR,
                         IDLE, IDLEIE, rx_state, rx_sem, request, reply, slips>>
          /\ UNCHANGED rxline
      BY <1>6 DEF Start, ReceiveStart, At, txhal, idleirq, rxdrv
    <2>2. ThreadInv' /\ rv' = rv
      BY <2>1 DEF Core, ThreadInv, Asking, Announced, Places
    <2>3. StreamInv'
      BY <2>1 DEF Core, StreamInv, Asking, Answered, Off
    <2> QED  BY <2>1, <2>2, <2>3, <1>2, Resting
  <1>7. CASE Errors
    <2>1. /\ rpc = "errors" /\ rpc' = "requests" /\ Lock' = FALSE /\ EIE' = TRUE
          /\ UNCHANGED <<gState, txbuf, txpos, txlen, TCIE, wire, dma, got, DMAR,
                         IDLE, IDLEIE, rx_state, rx_sem, request, rv, reply, slips>>
          /\ UNCHANGED rxline
      BY <1>7 DEF Errors, ReceiveErrors, At, Kept, caller, txhal, idleirq, rxdrv
    <2>2. ThreadInv'
      BY <2>1 DEF Core, ThreadInv, Asking, Announced, Places
    <2>3. StreamInv'
      BY <2>1 DEF Core, StreamInv, Asking, Answered, Off
    <2> QED  BY <2>1, <2>2, <2>3, <1>2, Resting
  <1>8. CASE Requests
    <2>1. /\ rpc = "requests" /\ rpc' = "claim" /\ DMAR' = TRUE /\ rdr' = rdr
          /\ UNCHANGED <<gState, txbuf, txpos, txlen, TCIE, wire, dma, got, EIE, ORE, NE, active,
                         IDLE, IDLEIE, rx_state, rx_sem, Lock, request, rv, reply, slips>>
      BY <1>8, Resting DEF Requests, ReceiveRequests, At, Kept, caller, txhal, idleirq, rxdrv
    <2>2. ThreadInv'
      BY <2>1 DEF Core, ThreadInv, Asking, Announced, Places
    <2>3. StreamInv'
      BY <2>1 DEF Core, StreamInv, Asking, Answered, Off
    <2> QED  BY <2>1, <2>2, <2>3, <1>2, Resting DEF rxline
  <1>9. CASE Claim
    <2>1. /\ rpc = "claim" /\ rpc' = "send" /\ Lock' = TRUE /\ gState' = "BUSY"
          /\ UNCHANGED <<txbuf, txpos, txlen, TCIE, wire, dma, got, EIE, DMAR, RxState,
                         IDLE, IDLEIE, rx_state, rx_sem, request, rv, reply, slips>>
          /\ UNCHANGED rxline
      BY <1>9 DEF Claim, TransmitClaim, At, Kept, caller, rxhal, idleirq, rxdrv
    <2>2. ThreadInv'
      BY <2>1 DEF Core, ThreadInv, Asking, Announced, Places
    <2>3. StreamInv'
      BY <2>1 DEF Core, StreamInv, Asking, Answered, Off
    <2> QED  BY <2>1, <2>2, <2>3, <1>2, Resting
  <1>10. CASE Send
    <2>1. /\ rpc = "send" /\ rpc' = "wait" /\ Lock' = FALSE /\ txpos' = 0 /\ txlen' = BufSize
          /\ UNCHANGED <<gState, txbuf, TCIE, wire, RxState, dma, got, EIE, DMAR,
                         IDLE, IDLEIE, rx_state, rx_sem, request, rv, reply, slips>>
          /\ UNCHANGED rxline
      BY <1>10 DEF Send, TransmitStart, At, Kept, caller, rxhal, idleirq, rxdrv, Core, ThreadInv
    <2>2. ThreadInv'
      BY <2>1 DEF Core, ThreadInv, Asking, Announced, Places
    <2>3. StreamInv'
      BY <2>1 DEF Core, StreamInv, ThreadInv, Asking, Answered, Off
    <2>4. RequestInv'
      <3>1. gState' = "BUSY" /\ wire' = << >> /\ TCIE' = FALSE /\ TCIE' \in BOOLEAN
        BY <2>1, Resting
      <3>2. << >> \in Seq(Nat) /\ Len(<< >>) = 0
        OBVIOUS
      <3>3. txbuf' = [i \in 1 .. BufSize |-> request'] /\ Asking'
        BY <2>1 DEF Core, RequestInv, ThreadInv, Asking
      <3> QED  BY <2>1, <3>1, <3>2, <3>3, Sizes DEF RequestInv
    <2>5. AnswerInv'
      BY <2>1, Resting, RestAnswer DEF rxline
    <2> QED  BY <2>2, <2>3, <2>4, <2>5 DEF Core
  <1>11. CASE Wait
    <2>1. /\ rpc = "wait" /\ rpc' = "free" /\ rx_sem' = FALSE
          /\ UNCHANGED <<gState, txbuf, txpos, txlen, TCIE, wire, RxState, dma, got, EIE, DMAR,
                         IDLE, IDLEIE, rx_state, Lock, request, rv, reply, slips>>
          /\ UNCHANGED rxline
      BY <1>11 DEF Wait, At, Kept, caller, txhal, rxhal, idleirq
    <2>2. ThreadInv'
      BY <2>1 DEF Core, ThreadInv, Asking, Announced, Places
    <2>3. StreamInv'
      BY <2>1 DEF Core, StreamInv, ThreadInv, Asking, Answered, Off
    <2> QED  BY <2>1, <2>2, <2>3, <1>2, Resting
  <1>12. CASE Free
    <2>1. /\ rpc = "free" /\ rpc' = "call" /\ rx_state' = "FREE"
          /\ UNCHANGED <<gState, txbuf, txpos, txlen, TCIE, wire, RxState, dma, got, EIE, DMAR,
                         IDLE, IDLEIE, rx_sem, Lock, request, rv, reply, slips>>
          /\ UNCHANGED rxline
      BY <1>12 DEF Free, At, Kept, caller, txhal, rxhal, idleirq
    <2>2. ThreadInv'
      BY <2>1 DEF Core, ThreadInv, Asking, Announced, Places
    <2>3. StreamInv'
      BY <2>1 DEF Core, StreamInv, Asking, Answered, Off
    <2> QED  BY <2>1, <2>2, <2>3, <1>2, Resting
  <1> QED
    BY <1>1, <1>3, <1>4, <1>5, <1>6, <1>7, <1>8, <1>9, <1>10, <1>11, <1>12
    DEF Call, usart_transmit_receive

LEMMA CallBytes ==
  ASSUME Core, BytesInv, Call, ~Timeout
  PROVE  BytesInv'
  <1>0. ~Asking /\ ~StartRefused /\ ~ClaimRefused
    BY CallGoesOn
  <1> USE <1>0
  <1>1. CASE Resume \/ Token \/ States \/ Idle \/ Free
    <2>1. rpc' \in {"token", "state", "idle", "start", "call"} /\ UNCHANGED <<rdr, ORE, NE>>
      BY <1>1 DEF Resume, NewRequest, Retry, Token, TakeStaleToken, States, Idle, EnableIdle, Free, rxline
    <2>2. rxbuf' = [i \in 1 .. BufSize |-> rxbuf'[i]]
      <3>1. CASE UNCHANGED rxbuf
        BY <3>1 DEF BytesInv
      <3>2. CASE NewRequest
        BY <3>2 DEF NewRequest
      <3> QED
        BY <1>1, <3>1, <3>2
        DEF Resume, Retry, Token, TakeStaleToken, States, Idle, EnableIdle, Free
    <2>3. ~Asking' /\ ~Answered' /\ ~(rpc' \in Announced \cup {"wait", "free"} /\ rpc' # "start")
      BY <2>1 DEF Asking, Answered, Announced
    <2> QED  BY <2>1, <2>2, <2>3 DEF BytesInv
  <1>2. CASE Start \/ Errors \/ Requests \/ Claim
    <2>1. /\ rpc' \in {"errors", "requests", "claim", "send"}
          /\ UNCHANGED <<rdr, ORE, NE, rxbuf>> /\ got' = 0
      <3>1. CASE Start
        BY <3>1 DEF Start, ReceiveStart, rxline
      <3>2. CASE Errors
        BY <3>2 DEF Errors, ReceiveErrors, At, rxline, Core, StreamInv
      <3>3. CASE Requests
        BY <3>3, Resting DEF Requests, ReceiveRequests, At, Core, StreamInv
      <3>4. CASE Claim
        BY <3>4 DEF Claim, At, rxline, rxhal, Core, StreamInv
      <3> QED  BY <1>2, <3>1, <3>2, <3>3, <3>4
    <2>2. ~Asking' /\ ~Answered'
      BY <2>1 DEF Asking, Answered
    <2>3. \A i \in 1 .. BufSize : ~(i <= got')
      BY <2>1
    <2> QED  BY <2>1, <2>2, <2>3 DEF BytesInv
  <1>3. CASE Send
    <2>1. /\ rpc = "send" /\ rpc' = "wait" /\ got = 0 /\ dma = TRUE
          /\ UNCHANGED <<rdr, ORE, NE, active, IDLE, rxbuf, got, dma, rx_sem, reply>>
      BY <1>3 DEF Send, Kept, At, rxline, rxhal, idleirq, rxdrv, Core, StreamInv, ThreadInv
    <2>2. rx_sem' = FALSE /\ ~Answered'
      BY <2>1 DEF Core, ThreadInv, Answered
    <2>3. \A i \in 1 .. BufSize : ~(i <= got')
      BY <2>1
    <2>4. ~active' /\ ~IDLE' /\ reply' = << >>
      BY <2>1, Resting
    <2>5. dma' <=> got' < BufSize
      BY <2>1, Sizes
    <2> QED  BY <2>1, <2>2, <2>3, <2>4, <2>5 DEF BytesInv
  <1>4. CASE Wait
    <2>1. /\ rpc = "wait" /\ rpc' = "free" /\ rx_sem
          /\ UNCHANGED <<rdr, ORE, NE, rxbuf, got, rx_count, request>>
      BY <1>4 DEF Wait, Kept, At, rxline, rxhal, caller
    <2>2. Answered /\ Answered' /\ ~Asking'
      BY <2>1 DEF Answered, Asking
    <2> QED  BY <2>1, <2>2 DEF BytesInv
  <1> QED  BY <1>1, <1>2, <1>3, <1>4, CallGoesOn DEF Call, usart_transmit_receive

-----------------------------------------------------------------------------
(* The steps of the port *)

LEMMA HandleCore ==
  ASSUME Core, Handle
  PROVE  Core' /\ UNCHANGED <<request, slips>>
  <1>0. Asking
    BY PortAsks
  <1>1. /\ rpc' = "wait" /\ rx_state' = "RECEIVE" /\ Lock' = FALSE
        /\ UNCHANGED <<txbuf, txpos, txlen, wire, request, rv, reply, slips, got, active>>
    BY <1>0, Waiting
    DEF Handle, usart_handler, HandleTransmission, HandleReception, Kept, caller
  <1>2. Received <=> IDLE
    BY <1>0, Waiting DEF Received
  <1>3. ErrorHandled \/ Received => txlen = 0 /\ TCIE = FALSE /\ wire = << >> /\ gState = "READY"
    <2>1. ErrorHandled \/ Received => txlen = 0 /\ wire = << >>
      BY <1>0 DEF ErrorHandled, Received, Core, AnswerInv, RequestInv, Untouched
    <2>2. wire = << >> => ~TCIE
      <3>1. wire = << >> => Len(wire) # BufSize
        BY Sizes
      <3> QED  BY <3>1 DEF Core, RequestInv
    <2>3. /\ TCIE \in BOOLEAN /\ rpc # "send"
          /\ gState = IF rpc = "send" \/ txlen > 0 \/ TCIE THEN "BUSY" ELSE "READY"
      BY <1>0, Waiting, Zenon DEF Core, RequestInv
    <2> QED  BY <2>1, <2>2, <2>3
  <1>4. ThreadInv'
    <2>1. CASE Received
      BY <1>0, <1>1, <2>1, Waiting
      DEF Handle, usart_handler, HandleReception, Core, ThreadInv, Asking, Announced, Places
    <2>2. CASE ~Received
      <3>1. rx_sem' = FALSE /\ IDLEIE' = TRUE
        BY <1>0, <2>2, Waiting DEF Handle, usart_handler, HandleReception, idleirq
      <3> QED  BY <1>0, <1>1, <3>1 DEF Core, ThreadInv, Asking, Announced, Places
    <2> QED  BY <2>1, <2>2
  <1>5. RequestInv'
    <2>1. CASE Completed
      <3>1. gState' = "READY" /\ TCIE' = FALSE /\ TCIE = TRUE /\ ~ErrorHandled
        BY <2>1 DEF Handle, usart_handler, HandleTransmission, Completed, Core, RequestInv
      <3>2. txlen = 0 /\ Len(wire) = BufSize
        BY <3>1 DEF Core, RequestInv
      <3>3. ~Received
        BY <1>3, <3>1
      <3>4. Asking'
        BY <1>0, <1>1, <3>3, Waiting DEF Handle, usart_handler, HandleReception, Asking
      <3>5. TCIE' \in BOOLEAN /\ rpc' # "send"
        BY <1>1, <3>1
      <3> QED  BY <1>1, <3>1, <3>2, <3>4, <3>5 DEF Core, RequestInv
    <2>2. CASE ~Completed
      <3>1. gState' = gState /\ TCIE' = TCIE
        BY <2>2 DEF Handle, usart_handler, HandleTransmission, Completed, Core, RequestInv
      <3>2. CASE Received
        BY <1>0, <1>1, <1>3, <3>1, <3>2, Waiting DEF Core, RequestInv
      <3>3. CASE ~Received
        <4>1. Asking'
          BY <1>0, <1>1, <3>3, Waiting DEF Handle, usart_handler, HandleReception, Asking
        <4> QED  BY <1>0, <1>1, <3>1, <4>1, Waiting DEF Core, RequestInv
      <3> QED  BY <3>2, <3>3
    <2> QED  BY <2>1, <2>2
  <1>6. AnswerInv'
    <2>1. /\ reply' = reply /\ UNCHANGED <<txlen, wire, request>>
          /\ active' = active
          /\ Received => IDLE' = FALSE /\ rdr' = None /\ ORE' = FALSE /\ NE' = FALSE
          /\ ~Received => IDLE' = IDLE /\ rdr' = rdr
          /\ ~Received /\ ~ErrorHandled => ORE' = ORE /\ NE' = NE
          /\ ~Received /\ ErrorHandled => ORE' = FALSE /\ NE' = FALSE
      BY <1>1 DEF Handle, usart_handler, HandleReception, idleirq
    <2>2. /\ active' \in BOOLEAN /\ IDLE' \in BOOLEAN /\ ORE' \in BOOLEAN /\ NE' \in BOOLEAN
          /\ reply' \in Seq(Nat) /\ Len(reply') <= AnswerSize
          /\ \A i \in 1 .. Len(reply') : reply'[i] = request'
      BY <2>1 DEF Core, AnswerInv
    <2>3. Untouched => Untouched'
      BY <2>1 DEF Untouched
    <2>4. CASE Received
      <3>1. reply' = << >> /\ ~active' /\ ~IDLE'
        BY <1>2, <2>1, <2>4 DEF Core, AnswerInv
      <3>2. Untouched'
        BY <2>1, <2>4, <3>1 DEF Untouched
      <3> QED  BY <2>2, <3>1, <3>2 DEF AnswerInv
    <2>5. CASE ~Received
      <3>1. Asking'
        BY <1>0, <1>1, <2>5, Waiting DEF Handle, usart_handler, HandleReception, Asking
      <3>2. IDLE' => ~active' /\ reply' = << >>
        BY <2>1, <2>5 DEF Core, AnswerInv
      <3>3. txlen' > 0 \/ wire' # << >> => Untouched' /\ reply' = << >>
        BY <2>1, <2>3 DEF Core, AnswerInv
      <3>4. Len(reply') = AnswerSize => Untouched'
        BY <2>1, <2>3 DEF Core, AnswerInv
      <3> QED  BY <2>2, <3>1, <3>2, <3>3, <3>4 DEF AnswerInv
    <2> QED  BY <2>4, <2>5
  <1>7. StreamInv'
    <2>1. CASE Aborted \/ Received
      <3>1. RxState' = "READY" /\ EIE' = FALSE /\ DMAR' = FALSE /\ dma' = FALSE
        <4>1. RxState' = "READY" /\ EIE' = FALSE /\ DMAR' = FALSE /\ dma' = (dma /\ ~DMAR)
          BY <2>1 DEF Handle, usart_handler, HandleReception
        <4> QED  BY <1>0, <4>1, Waiting
      <3> QED  BY <1>1, <3>1 DEF Core, StreamInv, Answered
    <2>2. CASE ~Aborted /\ ~Received
      <3>1. UNCHANGED <<RxState, EIE, DMAR, dma>> /\ rx_sem' = FALSE
        BY <1>0, <2>2, Waiting DEF Handle, usart_handler, HandleReception
      <3>2. ~Answered'
        BY <1>1, <3>1 DEF Answered
      <3> QED  BY <1>0, <1>1, <3>1, <3>2, Waiting DEF Core, StreamInv, Off
    <2> QED  BY <2>1, <2>2
  <1> QED  BY <1>1, <1>4, <1>5, <1>6, <1>7 DEF Core

LEMMA HandleBytes ==
  ASSUME Core, BytesInv, Handle
  PROVE  BytesInv'
  <1>0. Asking
    BY PortAsks
  <1>1. /\ rpc' = rpc /\ rpc = "wait" /\ UNCHANGED <<request, reply, got, active, rxbuf>>
        /\ ~ErrorHandled /\ ~Aborted
    BY <1>0, Waiting
    DEF Handle, usart_handler, HandleReception, Kept, caller, ErrorHandled, Aborted, BytesInv
  <1>2. rdr' = None /\ ~ORE' /\ ~NE'
    BY <1>1 DEF Handle, usart_handler, HandleReception, BytesInv
  <1>3. \A i \in 1 .. BufSize : i <= got' => rxbuf'[i] = request'
    BY <1>1 DEF BytesInv
  <1>4. rxbuf' = [i \in 1 .. BufSize |-> rxbuf'[i]]
    BY <1>1 DEF BytesInv
  <1>5. CASE Received
    <2>1. rx_sem' /\ rx_count' = got /\ IDLE
      BY <1>5 DEF Handle, usart_handler, HandleReception, Received
    <2>2. got + Len(reply) = AnswerSize /\ reply = << >>
      BY <1>0, <2>1 DEF BytesInv, Core, AnswerInv
    <2>3. got = AnswerSize
      <3>1. Len(reply) = 0 /\ got \in Nat
        BY <2>2 DEF Core, StreamInv
      <3> QED  BY <2>2, <3>1
    <2>4. ~Asking'
      BY <2>1 DEF Asking
    <2> QED  BY <1>1, <1>2, <1>3, <1>4, <2>1, <2>3, <2>4 DEF BytesInv
  <1>6. CASE ~Received
    <2>1. UNCHANGED <<dma, IDLE, rx_sem>>
      BY <1>1, <1>6 DEF Handle, usart_handler, HandleReception, idleirq
    <2>2. Asking' /\ ~Answered'
      BY <1>0, <1>1, <2>1 DEF Asking, Answered
    <2> QED  BY <1>0, <1>1, <1>2, <1>3, <1>4, <2>1, <2>2 DEF BytesInv
  <1> QED  BY <1>5, <1>6

\* The steps of the transmission and of the device leave the rest as it is.
LEMMA Elsewhere ==
  ASSUME Core, Asking, UNCHANGED <<rxhal, rxbuf, rxline, idleirq, rxdrv, Lock, rpc, caller, slips>>
  PROVE  /\ Asking' /\ ~Answered' /\ ThreadInv' /\ StreamInv' /\ (Untouched => Untouched')
         /\ UNCHANGED <<active, IDLE, ORE, NE, request>>
         /\ BytesInv /\ UNCHANGED reply => BytesInv'
  <1>1. UNCHANGED <<RxState, dma, got, EIE, DMAR, rxbuf, rdr, ORE, NE, active, IDLE, IDLEIE,
                    rx_state, rx_sem, rx_count, Lock, rpc, request, rv>>
    BY DEF rxhal, rxline, idleirq, rxdrv, caller
  <1>2. Asking' /\ ~Answered' /\ ~Answered
    BY <1>1 DEF Asking, Answered
  <1>3. ThreadInv'
    BY <1>1, <1>2 DEF Core, ThreadInv
  <1>4. StreamInv'
    BY <1>1, <1>2 DEF Core, StreamInv
  <1>5. Untouched => Untouched'
    BY <1>1 DEF Untouched
  <1>6. BytesInv /\ UNCHANGED reply => BytesInv'
    BY <1>1, <1>2 DEF BytesInv
  <1> QED  BY <1>1, <1>2, <1>3, <1>4, <1>5, <1>6

LEMMA TransmissionCore ==
  ASSUME Core, Transmission
  PROVE  Core' /\ UNCHANGED <<request, slips>> /\ (BytesInv => BytesInv')
  <1>0. Asking
    BY PortAsks
  <1>1. UNCHANGED <<rxhal, rxbuf, rxline, idleirq, rxdrv, Lock, rpc, caller, slips, reply, gState, txbuf>>
    BY DEF Transmission, TransmitByte, usart_dma_tx_handler, Kept
  <1>2. /\ Asking' /\ ThreadInv' /\ StreamInv' /\ (Untouched => Untouched')
        /\ UNCHANGED <<active, IDLE, ORE, NE, request, reply>> /\ (BytesInv => BytesInv')
    BY <1>0, <1>1, Elsewhere
  <1>3. txlen > 0
    BY Sizes DEF Transmission, TransmitByte, usart_dma_tx_handler, Core, RequestInv
  <1>4. txlen = BufSize /\ txpos = Len(wire) /\ gState = "BUSY" /\ TCIE = FALSE
    BY <1>3, Sizes DEF Core, RequestInv
  <1>5. RequestInv'
    <2>1. CASE TransmitByte
      <3>1. /\ Len(wire) < BufSize /\ wire' = Append(wire, txbuf[Len(wire) + 1])
            /\ txpos' = Len(wire) + 1 /\ txlen' = BufSize /\ TCIE' = FALSE
        BY <1>4, <2>1 DEF TransmitByte
      <3>2. /\ wire \in Seq(Nat) /\ Len(wire) \in Nat /\ request \in Nat
            /\ \A i \in 1 .. Len(wire) : wire[i] = request
        BY LenFacts DEF Core, RequestInv, ThreadInv
      <3>3. txbuf[Len(wire) + 1] = request
        BY <3>1, <3>2, Sizes DEF Core, RequestInv
      <3>4. wire' = Append(wire, request)
        BY <3>1, <3>3
      <3>5. wire' \in Seq(Nat) /\ Len(wire') = Len(wire) + 1
        BY <3>2, <3>4, AppendProperties
      <3>6. \A i \in 1 .. Len(wire') : wire'[i] = request'
        <4>1. \A i \in 1 .. Len(wire) + 1 : wire'[i] = request
          BY <3>2, <3>4, AppendProperties
        <4> QED  BY <1>2, <3>5, <4>1
      <3>7. txbuf' = [i \in 1 .. BufSize |-> request']
        BY <1>1, <1>2 DEF Core, RequestInv
      <3>8. gState' = "BUSY" /\ TCIE' \in BOOLEAN
        BY <1>1, <1>4, <3>1
      <3> QED  BY <1>2, <3>1, <3>2, <3>5, <3>6, <3>7, <3>8, Sizes DEF RequestInv
    <2>2. CASE usart_dma_tx_handler
      <3>1. /\ txpos' = 0 /\ txlen' = 0 /\ TCIE' = TRUE /\ wire' = wire /\ Len(wire) = BufSize
        BY <1>4, <2>2 DEF usart_dma_tx_handler
      <3>2. txbuf' = [i \in 1 .. BufSize |-> request']
        BY <1>1, <1>2 DEF Core, RequestInv
      <3>3. gState' = "BUSY" /\ TCIE' \in BOOLEAN
        BY <1>1, <1>4, <3>1
      <3>4. /\ wire' \in Seq(Nat) /\ Len(wire') = BufSize
            /\ \A i \in 1 .. Len(wire') : wire'[i] = request'
        BY <1>2, <3>1 DEF Core, RequestInv
      <3> QED  BY <1>2, <3>1, <3>2, <3>3, <3>4, Sizes DEF RequestInv
    <2> QED  BY <2>1, <2>2 DEF Transmission
  <1>6. AnswerInv'
    <2>1. Untouched' /\ reply' = << >> /\ ~IDLE'
      BY <1>2, <1>3 DEF Core, AnswerInv, Untouched
    <2> QED  BY <1>2, <2>1 DEF Core, AnswerInv
  <1> QED  BY <1>1, <1>2, <1>5, <1>6 DEF Core

LEMMA AnswerCore ==
  ASSUME Core, Answer
  PROVE  Core' /\ UNCHANGED <<request, slips>> /\ (BytesInv => BytesInv')
  <1>0. Asking
    BY PortAsks
  <1>1. UNCHANGED <<rxhal, rxbuf, rxline, idleirq, rxdrv, Lock, rpc, caller, slips, gState,
                    txbuf, txpos, txlen, TCIE>>
    BY DEF Answer
  <1>2. /\ Asking' /\ ~Answered' /\ ThreadInv' /\ StreamInv' /\ (Untouched => Untouched')
        /\ UNCHANGED <<active, IDLE, ORE, NE, request>>
    BY <1>0, <1>1, Elsewhere
  <1>3. txlen = 0 /\ TCIE = FALSE /\ txpos = 0 /\ gState = "READY"
    <2>1. txlen = 0 /\ ~TCIE /\ TCIE \in BOOLEAN /\ rpc # "send"
      BY <1>0, Waiting DEF Answer, Core, RequestInv
    <2> QED  BY <2>1 DEF Core, RequestInv
  <1>4. Len(wire) = BufSize /\ wire # << >>
    <2>1. Len(wire) >= BufSize /\ Len(wire) \in Nat
      BY LenFacts DEF Answer, Core, RequestInv
    <2> QED  BY <1>3, <2>1, Sizes DEF Core, RequestInv
  <1>5. wire' = << >> /\ Len(wire') = 0 /\ wire' \in Seq(Nat)
    BY DEF Answer
  <1>6. Untouched /\ Untouched' /\ reply = << >>
    BY <1>2, <1>4 DEF Core, AnswerInv
  <1>7. wire[1] = request /\ request \in Nat
    BY <1>4, Sizes DEF Core, RequestInv, ThreadInv
  <1>8. /\ reply' \in Seq(Nat) /\ Len(reply') <= AnswerSize
        /\ reply' = << >> \/ Len(reply') = AnswerSize
        /\ \A i \in 1 .. Len(reply') : reply'[i] = request
    <2>1. CASE reply' = << >>
      BY <2>1, Sizes
    <2>2. CASE reply' # << >>
      <3> DEFINE a == [i \in 1 .. AnswerSize |-> request]
      <3>1. reply' = << >> \o a
        BY <1>6, <1>7, <2>2 DEF Answer
      <3>2. a \in Seq(Nat) /\ Len(a) = AnswerSize /\ \A i \in 1 .. AnswerSize : a[i] = request
        BY <1>7, Sizes
      <3>3. << >> \o a = a
        <4> HIDE DEF a
        <4> QED  BY <3>2, ConcatEmptySeq
      <3>4. reply' = a
        BY <3>1, <3>3
      <3> HIDE DEF a
      <3> QED  BY <3>2, <3>4, Sizes
    <2> QED  BY <2>1, <2>2
  <1>9. RequestInv'
    <2>1. txbuf' = [i \in 1 .. BufSize |-> request'] /\ rpc' # "send"
      BY <1>1, <1>2 DEF Core, RequestInv, Asking
    <2>2. gState' = "READY" /\ txlen' = 0 /\ txpos' = 0 /\ TCIE' = FALSE /\ TCIE' \in BOOLEAN
      BY <1>1, <1>3
    <2> QED  BY <1>2, <1>5, <2>1, <2>2, Sizes DEF RequestInv
  <1>10. AnswerInv'
    <2>1. ~IDLE' /\ ~(txlen' > 0) /\ ~(wire' # << >>)
      BY <1>1, <1>2, <1>3, <1>5, <1>6 DEF Untouched
    <2> QED  BY <1>2, <1>6, <1>8, <2>1 DEF Core, AnswerInv
  <1>11. BytesInv => BytesInv'
    <2> SUFFICES ASSUME BytesInv PROVE BytesInv'
      OBVIOUS
    <2>1. UNCHANGED <<dma, got, rxbuf, rdr, ORE, NE, rpc>>
      BY <1>1 DEF rxhal, rxline
    <2>2. ~active' /\ ~IDLE' /\ got = 0 /\ got' = 0
      BY <1>0, <1>6, <2>1 DEF Untouched, BytesInv
    <2>3. IF active' \/ IDLE' \/ reply' # << >> THEN got' + Len(reply') = AnswerSize ELSE got' = 0
      BY <1>8, <2>2, Sizes
    <2>4. dma' <=> got' < BufSize
      BY <1>0, <2>1 DEF BytesInv
    <2>5. /\ ~ORE' /\ ~NE' /\ rdr' = None /\ rxbuf' = [i \in 1 .. BufSize |-> rxbuf'[i]]
          /\ rpc' \in Announced \cup {"wait", "free"} /\ rpc' # "start" =>
               \A i \in 1 .. BufSize : i <= got' => rxbuf'[i] = request'
      BY <1>2, <2>1 DEF BytesInv
    <2> QED  BY <1>2, <2>3, <2>4, <2>5 DEF BytesInv
  <1> QED  BY <1>1, <1>2, <1>9, <1>10, <1>11 DEF Core

LEMMA TailFacts ==
  ASSUME NEW s \in Seq(Nat), s # << >>, NEW r, \A i \in 1 .. Len(s) : s[i] = r
  PROVE  /\ Tail(s) \in Seq(Nat) /\ Len(Tail(s)) = Len(s) - 1 /\ Len(s) \in Nat \ {0}
         /\ \A i \in 1 .. Len(Tail(s)) : Tail(s)[i] = r
         /\ Head(s) = r
  <1>1. Len(s) \in Nat \ {0}
    BY LenFacts
  <1>2. Tail(s) \in Seq(Nat) /\ Len(Tail(s)) = Len(s) - 1 /\ Head(s) = s[1]
    BY HeadTailProperties
  <1>3. \A i \in 1 .. Len(Tail(s)) : Tail(s)[i] = s[i + 1]
    BY HeadTailProperties
  <1> QED  BY <1>1, <1>2, <1>3

LEMMA ArriveCore ==
  ASSUME Core, Arrive
  PROVE  Core' /\ request' = request /\ slips \subseteq slips'
  <1>0. Asking
    BY PortAsks
  <1>1. /\ reply # << >> /\ reply' = Tail(reply) /\ active' = TRUE
        /\ UNCHANGED <<txhal, idleirq, rxdrv, Lock, rpc, caller>>
        /\ slips \subseteq slips'
    BY DEF Arrive, ReceiveByte
  <1>2. UNCHANGED <<gState, txbuf, txpos, txlen, TCIE, wire, IDLE, IDLEIE, rx_state, rx_sem, rx_count,
                    Lock, rpc, request, rv>>
    BY <1>1 DEF txhal, idleirq, rxdrv, caller
  <1>3. Asking' /\ ~Answered'
    BY <1>0, <1>2 DEF Asking, Answered
  <1>4. ThreadInv'
    BY <1>0, <1>2, <1>3 DEF Core, ThreadInv
  <1>5. RequestInv'
    BY <1>0, <1>2, <1>3 DEF Core, RequestInv
  <1>6. AnswerInv'
    <2>1. /\ reply' \in Seq(Nat) /\ Len(reply') < AnswerSize
          /\ \A i \in 1 .. Len(reply') : reply'[i] = request'
      <3>1. PICK s : s = reply
        OBVIOUS
      <3>2. s \in Seq(Nat) /\ s # << >> /\ Len(s) <= AnswerSize /\ \A i \in 1 .. Len(s) : s[i] = request
        BY <1>1, <3>1 DEF Core, AnswerInv
      <3>3. PICK r : r = request
        OBVIOUS
      <3>4. /\ Tail(s) \in Seq(Nat) /\ Len(Tail(s)) = Len(s) - 1 /\ Len(s) \in Nat \ {0}
            /\ \A i \in 1 .. Len(Tail(s)) : Tail(s)[i] = r
        BY <3>2, <3>3, TailFacts
      <3>5. reply' = Tail(s)
        BY <1>1, <3>1
      <3>6. \A i \in 1 .. Len(reply') : reply'[i] = request'
        BY <1>2, <3>3, <3>4, <3>5
      <3> QED  BY <3>2, <3>4, <3>5, <3>6, Sizes
    <2>2. ~(txlen' > 0) /\ ~(wire' # << >>) /\ IDLE' = FALSE /\ active' \in BOOLEAN
      BY <1>1, <1>2 DEF Core, AnswerInv
    <2>3. ORE' \in BOOLEAN /\ NE' \in BOOLEAN
      BY DEF Arrive, ReceiveByte, Core, AnswerInv
    <2>4. ~(Len(reply') = AnswerSize)
      <3>1. Len(reply') \in Nat
        BY <2>1, LenFacts
      <3> QED  BY <2>1, <3>1, Sizes
    <2>5. IDLE' \in BOOLEAN /\ ~IDLE'
      BY <2>2
    <2>6. Len(reply') <= AnswerSize
      <3>1. Len(reply') \in Nat
        BY <2>1, LenFacts
      <3> QED  BY <2>1, <3>1, Sizes
    <2> QED  BY <1>3, <2>1, <2>2, <2>3, <2>4, <2>5, <2>6 DEF AnswerInv
  <1>7. StreamInv'
    <2>1. PICK noisy \in {FALSE, "noise" \notin slips} : ReceiveByte(Head(reply), noisy)
      BY DEF Arrive
    <2>2. CASE DMAR /\ dma
      <3>1. Move(Head(reply))
        BY <2>1, <2>2 DEF ReceiveByte
      <3>2. /\ dma' \in BOOLEAN /\ DMAR' \in BOOLEAN /\ (dma' <=> DMAR')
            /\ got' \in Nat
        BY <3>1 DEF Move, Core, StreamInv
      <3>3. EIE' \in BOOLEAN
        BY <3>1 DEF Move, Core, StreamInv
      <3>4. rpc' = "wait"
        BY <1>3 DEF Asking
      <3> QED  BY <1>3, <3>2, <3>3, <3>4 DEF StreamInv, Off
    <2>3. CASE ~(DMAR /\ dma)
      <3>1. UNCHANGED <<RxState, dma, got, EIE, DMAR>>
        BY <2>1, <2>3 DEF ReceiveByte, rxhal
      <3> QED  BY <1>0, <1>3, <3>1 DEF Core, StreamInv, Asking, Off
    <2> QED  BY <2>2, <2>3
  <1> QED  BY <1>1, <1>2, <1>4, <1>5, <1>6, <1>7 DEF Core

LEMMA ArriveBytes ==
  ASSUME Core, BytesInv, Arrive, "noise" \notin slips'
  PROVE  BytesInv'
  <1>0. Asking /\ reply # << >>
    BY PortAsks DEF Arrive
  <1>1. Head(reply) = request /\ Len(reply) \in Nat \ {0} /\ Len(reply') = Len(reply) - 1
    <2>1. PICK s, r : s = reply /\ r = request
      OBVIOUS
    <2>2. s \in Seq(Nat) /\ s # << >> /\ \A i \in 1 .. Len(s) : s[i] = r
      BY <1>0, <2>1 DEF Core, AnswerInv
    <2>3. Head(s) = r /\ Len(s) \in Nat \ {0} /\ Len(Tail(s)) = Len(s) - 1
      BY <2>2, TailFacts
    <2> QED  BY <2>1, <2>3 DEF Arrive
  <1>2. got + Len(reply) = AnswerSize /\ got \in Nat
    BY <1>0 DEF BytesInv, Core, StreamInv
  <1>3. got < BufSize /\ got + 1 + Len(reply') = AnswerSize
    BY <1>1, <1>2, Sizes
  <1>4. dma /\ DMAR
    BY <1>0, <1>3, Waiting DEF BytesInv
  <1>5. ReceiveByte(Head(reply), FALSE)
    BY DEF Arrive
  <1>6. /\ Move(Head(reply)) /\ rdr' = rdr /\ ORE' = ORE /\ active' = TRUE /\ NE' = (NE \/ FALSE)
        /\ rpc' = rpc /\ rx_sem' = rx_sem
    BY <1>4, <1>5 DEF ReceiveByte, rxdrv
  <1>7. request' = request
    BY DEF Arrive, caller
  <1>8. /\ got' = got + 1 /\ dma' = ~(got + 1 = BufSize)
        /\ rxbuf' = [rxbuf EXCEPT ![got + 1] = request]
    BY <1>1, <1>6 DEF Move
  <1>9. rdr' = None /\ ~ORE' /\ ~NE'
    BY <1>6 DEF BytesInv
  <1>10. rxbuf' = [i \in 1 .. BufSize |-> rxbuf'[i]]
    BY <1>8 DEF BytesInv
  <1>11. \A i \in 1 .. BufSize : i <= got' => rxbuf'[i] = request'
    <2> TAKE i \in 1 .. BufSize
    <2> HAVE i <= got'
    <2>1. CASE i = got + 1
      BY <1>7, <1>8, <2>1 DEF BytesInv
    <2>2. CASE i <= got
      <3>1. rxbuf[i] = request
        BY <1>0, <2>2, Waiting DEF BytesInv
      <3>2. i # got + 1
        BY <1>2, <2>2
      <3> QED  BY <1>7, <1>8, <3>1, <3>2 DEF BytesInv
    <2> QED  BY <1>2, <1>8, <2>1, <2>2
  <1>12. dma' <=> got' < BufSize
    <2>1. got + 1 # BufSize <=> got' < BufSize
      BY <1>2, <1>3, <1>8, Sizes
    <2> QED  BY <1>8, <2>1
  <1>13. got' + Len(reply') = AnswerSize
    BY <1>3, <1>8
  <1>14. ~Answered'
    BY <1>0, <1>6 DEF Asking, Answered
  <1> QED  BY <1>6, <1>9, <1>10, <1>11, <1>12, <1>13, <1>14 DEF BytesInv

LEMMA Remainder ==
  ASSUME NEW n \in Nat, NEW m \in Nat, n < m, n % m = 0
  PROVE  n = 0
  OBVIOUS

\* The silence that ends an answer, or, before the first byte, none.
LEMMA LineCore ==
  ASSUME Core, Line, "gap" \notin slips'
  PROVE  Core' /\ request' = request /\ slips \subseteq slips' /\ (BytesInv => BytesInv')
  <1>0. Asking
    BY PortAsks
  <1>1. /\ active = TRUE /\ active' = FALSE /\ IDLE' = TRUE /\ slips \subseteq slips'
        /\ UNCHANGED <<txhal, txdrv, rxhal, rxbuf, rdr, ORE, NE, IDLEIE, rxdrv, Lock, rpc, request, rv, reply>>
    BY DEF Line, Silence, Core, AnswerInv, caller
  <1>2. UNCHANGED <<gState, txbuf, txpos, txlen, TCIE, wire, RxState, dma, got, EIE, DMAR,
                    rx_state, rx_sem, rx_count>>
    BY <1>1 DEF txhal, rxhal, rxdrv
  <1>3. reply = << >> /\ Len(reply) = 0 /\ txlen = 0 /\ wire = << >>
    <2>1. ~Untouched
      BY <1>1 DEF Untouched
    <2>2. reply \in Seq(Nat) /\ Len(reply) < AnswerSize /\ Len(reply) \in Nat
      <3>1. reply \in Seq(Nat) /\ Len(reply) <= AnswerSize /\ Len(reply) # AnswerSize
        BY <2>1 DEF Core, AnswerInv
      <3>2. Len(reply) \in Nat
        BY <3>1, LenFacts
      <3> QED  BY <3>1, <3>2, Sizes
    <2>3. Len(reply) % AnswerSize = 0
      BY DEF Line
    <2>4. Len(reply) = 0
      <3>1. PICK n : n = Len(reply)
        OBVIOUS
      <3> QED  BY <2>2, <2>3, <3>1, Remainder, Sizes
    <2>5. ~(txlen > 0) /\ wire = << >>
      BY <2>1 DEF Core, AnswerInv
    <2> QED  BY <2>2, <2>4, <2>5, LenFacts, Sizes DEF Core, RequestInv
  <1>4. Asking' /\ ~Answered' /\ ~Answered
    BY <1>0, <1>1, <1>2 DEF Asking, Answered
  <1>5. ThreadInv'
    BY <1>0, <1>1, <1>2, <1>4 DEF Core, ThreadInv
  <1>6. RequestInv'
    BY <1>0, <1>1, <1>2, <1>4 DEF Core, RequestInv
  <1>7. AnswerInv'
    <2>1. active' \in BOOLEAN /\ IDLE' \in BOOLEAN /\ ~active' /\ ORE' \in BOOLEAN /\ NE' \in BOOLEAN
      BY <1>1 DEF Core, AnswerInv
    <2>2. reply' \in Seq(Nat) /\ Len(reply') = 0 /\ reply' = << >>
      BY <1>1, <1>3
    <2>3. ~(txlen' > 0) /\ ~(wire' # << >>)
      BY <1>2, <1>3
    <2> QED  BY <1>4, <2>1, <2>2, <2>3, Sizes DEF AnswerInv
  <1>8. StreamInv'
    BY <1>0, <1>1, <1>2, <1>4 DEF Core, StreamInv
  <1>9. BytesInv => BytesInv'
    BY <1>0, <1>1, <1>2, <1>4 DEF BytesInv
  <1> QED  BY <1>1, <1>5, <1>6, <1>7, <1>8, <1>9 DEF Core

-----------------------------------------------------------------------------
(* The invariant holds *)

LEMMA InitIInv == ASSUME Init PROVE IInv
  <1>1. /\ rpc = "call" /\ rx_sem = FALSE /\ IDLEIE = FALSE /\ Lock = FALSE /\ rv = "OK"
        /\ request = 0 /\ rx_state = "FREE" /\ gState = "READY" /\ txpos = 0 /\ txlen = 0
        /\ TCIE = FALSE /\ wire = << >> /\ txbuf = [i \in 1 .. BufSize |-> 0]
        /\ rxbuf = [i \in 1 .. BufSize |-> 0] /\ RxState = "READY" /\ dma = FALSE /\ got = 0
        /\ EIE = FALSE /\ DMAR = FALSE /\ rdr = None /\ ORE = FALSE /\ NE = FALSE
        /\ active = FALSE /\ IDLE = FALSE /\ reply = << >>
    BY DEF Init, UInit
  <1>2. /\ wire \in Seq(Nat) /\ Len(wire) = 0 /\ reply \in Seq(Nat) /\ Len(reply) = 0
        /\ TCIE \in BOOLEAN /\ ~TCIE /\ active \in BOOLEAN /\ IDLE \in BOOLEAN
        /\ ORE \in BOOLEAN /\ NE \in BOOLEAN
    <2>1. wire \in Seq(Nat) /\ Len(wire) = 0 /\ reply \in Seq(Nat) /\ Len(reply) = 0
      BY <1>1
    <2>2. /\ TCIE \in BOOLEAN /\ ~TCIE /\ active \in BOOLEAN /\ IDLE \in BOOLEAN
          /\ ORE \in BOOLEAN /\ NE \in BOOLEAN
      BY <1>1
    <2> QED  BY <2>1, <2>2
  <1>3. ThreadInv
    BY <1>1 DEF ThreadInv, Announced, Places, Asking
  <1>4. RequestInv
    <2>1. txbuf = [i \in 1 .. BufSize |-> request]
      BY <1>1
    <2> QED  BY <1>1, <1>2, <2>1, Sizes DEF RequestInv
  <1>5. AnswerInv
    <2>1. Untouched /\ Len(reply) # AnswerSize /\ ~IDLE
      BY <1>1, <1>2, Sizes DEF Untouched
    <2> QED  BY <1>1, <1>2, <2>1, Sizes DEF AnswerInv
  <1>6. StreamInv
    BY <1>1 DEF StreamInv, Off, Answered, Asking
  <1>7. BytesInv
    BY <1>1 DEF BytesInv, Announced, Answered, Asking
  <1> QED  BY <1>3, <1>4, <1>5, <1>6, <1>7 DEF IInv, Core

\* A call that has slipped stays so.
LEMMA NextIInv == ASSUME IInv, [Next]_vars PROVE IInv'
  <1>1. ASSUME slips \subseteq slips', Calm /\ Calm' => Core', Clean /\ Clean' => BytesInv'
        PROVE  IInv'
    <2>1. (Calm' => Calm) /\ (Clean' => Clean)
      BY <1>1 DEF Calm, Clean, Slipped
    <2> QED  BY <1>1, <2>1 DEF IInv
  <1>2. /\ Calm => Core
        /\ Clean => Core /\ BytesInv
        /\ Calm' => "timeout" \notin slips' /\ "gap" \notin slips'
        /\ Clean' => "timeout" \notin slips' /\ "gap" \notin slips' /\ "noise" \notin slips'
    BY DEF IInv, Clean, Calm, Slipped
  <1>3. CASE Timeout
    <2>1. slips \subseteq slips' /\ "timeout" \in slips'
      BY <1>3 DEF Timeout
    <2> QED  BY <1>1, <1>2, <2>1
  <1>4. CASE Call /\ ~Timeout
    <2>1. slips' = slips
      BY <1>4
      DEF Call, Resume, NewRequest, Retry, usart_transmit_receive, Token, States, Idle, Start,
        StartRefused, Errors, Requests, Claim, ClaimRefused, Send, Wait, Free, Kept
    <2> QED  BY <1>1, <1>2, <1>4, <2>1, CallCore, CallBytes
  <1>5. CASE Handle
    <2>1. slips' = slips
      BY <1>5 DEF Handle, Kept
    <2> QED  BY <1>1, <1>2, <1>5, <2>1, HandleCore, HandleBytes
  <1>6. CASE Transmission
    <2>1. slips' = slips
      BY <1>6 DEF Transmission, Kept
    <2> QED  BY <1>1, <1>2, <1>6, <2>1, TransmissionCore
  <1>7. CASE Answer
    <2>1. slips' = slips
      BY <1>7 DEF Answer
    <2> QED  BY <1>1, <1>2, <1>7, <2>1, AnswerCore
  <1>8. CASE Arrive
    <2>1. slips \subseteq slips'
      BY <1>8 DEF Arrive
    <2> QED  BY <1>1, <1>2, <1>8, <2>1, ArriveCore, ArriveBytes
  <1>9. CASE Line
    <2>1. slips \subseteq slips'
      BY <1>9 DEF Line
    <2> QED  BY <1>1, <1>2, <1>9, <2>1, LineCore
  <1>10. CASE UNCHANGED vars
    <2>1. UNCHANGED <<gState, txbuf, txpos, txlen, TCIE, wire, RxState, rxbuf, dma, got, EIE, DMAR,
                      rdr, ORE, NE, IDLE, IDLEIE, active, rx_state, rx_sem, rx_count, Lock, rpc,
                      request, rv, reply, slips>>
      BY <1>10
      DEF vars, uvars, txhal, txdrv, rxhal, rxline, idleirq, rxdrv, caller
    <2> QED
      BY <2>1
      DEF IInv, Calm, Clean, Slipped, Core, ThreadInv, RequestInv, AnswerInv, StreamInv, BytesInv,
        Asking, Answered, Untouched
  <1> QED
    BY <1>3, <1>4, <1>5, <1>6, <1>7, <1>8, <1>9, <1>10 DEF Next, Call, Resume

\* What is said of the calls that nothing has upset holds in every state.
THEOREM Invariance == Spec => []IInv
  BY InitIInv, NextIInv, PTL DEF Spec

\* cubeio.c:360-386: a call that no timeout, gap or noise has upset returns its own
\* answer, whole, for packets and answers of every size: usart_handler ends the
\* reception only after the last byte (usart.c:402).
THEOREM AnswersMatch == Spec => []AnswerMatches
  <1>1. IInv => AnswerMatches
    <2> SUFFICES ASSUME IInv, Clean, rpc = "free"
                 PROVE  rv = "OK" /\ rx_count = AnswerSize /\ HoldsAnswer(request)
      BY DEF AnswerMatches, Clean
    <2>1. Core /\ BytesInv
      BY DEF IInv, Calm, Clean, Slipped
    <2>2. rv = "OK" /\ rx_count = AnswerSize /\ got = AnswerSize
      BY <2>1 DEF Core, ThreadInv, BytesInv, Answered
    <2>3. \A i \in 1 .. BufSize : i <= got => rxbuf[i] = request
      BY <2>1 DEF BytesInv
    <2>4. ASSUME NEW i \in 1 .. AnswerSize PROVE rxbuf[i] = request
      <3>1. i \in 1 .. BufSize /\ i <= got
        BY <2>2, Sizes
      <3> QED  BY <2>3, <3>1
    <2> QED  BY <2>2, <2>4 DEF HoldsAnswer
  <1> QED  BY Invariance, <1>1, PTL

\* usart.c:402-412: noise alone never brings the idle interrupt while the port is
\* free; that takes a timeout or an answer in pieces.
THEOREM StormNeedsSlip == Spec => []NoStorm
  <1>1. IInv => NoStorm
    <2> SUFFICES ASSUME IInv, Calm, Storm PROVE FALSE
      BY DEF NoStorm, Calm
    <2>1. Core /\ rx_state = "FREE" /\ IDLE
      BY DEF IInv, Storm
    <2>2. ~Asking
      BY <2>1, Waiting
    <2> QED  BY <2>1, <2>2, Resting
  <1> QED  BY Invariance, <1>1, PTL

\* usart.c:207-215: nor does noise leave a direction running, so that HAL refuses the
\* next call.
THEOREM RefusalNeedsSlip == Spec => []NeverRefused
  <1>1. IInv => NeverRefused
    BY DEF IInv, NeverRefused, Calm, Core, ThreadInv
  <1> QED  BY Invariance, <1>1, PTL
=============================================================================
