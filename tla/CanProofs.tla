----------------------------- MODULE CanProofs -----------------------------
(***************************************************************************)
(* Proofs about Can, for any number of channels, writers and frames and    *)
(* every depth of the queues: the types, the order in which frames reach   *)
(* the channels and the bus, and how many may be left in the controller.   *)
(***************************************************************************)
EXTENDS Can, SequenceTheorems, TLAPS

-----------------------------------------------------------------------------
(* A step of the reception leaves the transmission alone, or is the handler *)

RxAction ==
  /\ \/ \E id \in Ids : Arrive(id)
     \/ HandleRF0N \/ HandleHAL
     \/ can_receive \/ Dispatch \/ Drop \/ DispatchEnd
     \/ can_open
     \/ \E c \in Channels, id \in Ids :
          \/ can_ioctl_set_rx_filter_id_low(c, id)
          \/ can_ioctl_set_rx_filter_id_high(c, id)
     \/ \E c \in Channels : can_read(c)
     \/ UNCHANGED rxvars
  /\ bound' = bound

TxAction ==
  \/ Sent \/ NotAcknowledged
  \/ HandleTC \/ HandleHAL
  \/ WTake \/ TransmitDrain \/ TransmitStart \/ TransmitDone \/ TransmitTimeout
  \/ \E w \in Writers : CallWrite(w) \/ can_write(w)
  \/ UNCHANGED txvars

LEMMA NextRxAction == [Next]_vars => RxAction
  <1> SUFFICES ASSUME [Next]_vars PROVE RxAction
    OBVIOUS
  <1> USE DEF RxAction, irqvars
  <1>1. ASSUME NEW id \in Ids, Arrive(id) PROVE RxAction
    BY <1>1 DEF Arrive
  <1>2. CASE Sent \/ NotAcknowledged
    BY <1>2 DEF Sent, NotAcknowledged
  <1>3. CASE can_it_handler
    BY <1>3 DEF can_it_handler, HandleTC, HandleRF0N, HandleOther, HandleHAL
  <1>4. CASE ReadThread
    BY <1>4 DEF ReadThread, Threads
  <1>5. CASE WriteThread
    BY <1>5 DEF WriteThread, Threads, WTake, can_transmit, TransmitDrain,
                TransmitStart, TransmitDone, TransmitTimeout
  <1>6. CASE App
    BY <1>6 DEF App, Threads, CallWrite
  <1>7. ASSUME NEW w \in Writers, can_write(w) PROVE RxAction
    BY <1>7 DEF can_write, Threads
  <1>8. CASE UNCHANGED vars
    BY <1>8 DEF vars
  <1> QED  BY <1>1, <1>2, <1>3, <1>4, <1>5, <1>6, <1>7, <1>8 DEF Next

LEMMA NextTxAction == [Next]_vars => TxAction
  <1> SUFFICES ASSUME [Next]_vars PROVE TxAction
    OBVIOUS
  <1> USE DEF TxAction
  <1>1. ASSUME NEW id \in Ids, Arrive(id) PROVE TxAction
    BY <1>1 DEF Arrive
  <1>2. CASE Sent \/ NotAcknowledged
    BY <1>2
  <1>3. CASE can_it_handler
    BY <1>3 DEF can_it_handler, HandleRF0N, HandleOther
  <1>4. CASE ReadThread
    BY <1>4 DEF ReadThread, can_receive, Dispatch, Drop, DispatchEnd
  <1>5. CASE WriteThread
    BY <1>5 DEF WriteThread, can_transmit
  <1>6. CASE App
    BY <1>6 DEF App, can_open, can_ioctl_set_rx_filter_id_low,
                can_ioctl_set_rx_filter_id_high, can_read
  <1>7. ASSUME NEW w \in Writers, can_write(w) PROVE TxAction
    BY <1>7
  <1>8. CASE UNCHANGED vars
    BY <1>8 DEF vars
  <1> QED  BY <1>1, <1>2, <1>3, <1>4, <1>5, <1>6, <1>7, <1>8 DEF Next

-----------------------------------------------------------------------------
(* Sequences of numbers *)

\* A greater number at the end keeps a sequence increasing.
LEMMA AppendIncreasing ==
  ASSUME NEW S \in SUBSET Nat, NEW s \in Seq(S), Increasing(s), NEW e \in S,
         \A i \in DOMAIN s : s[i] < e
  PROVE  Increasing(Append(s, e))
  <1> DEFINE a == Append(s, e)
  <1>1. /\ DOMAIN s = 1 .. Len(s) /\ DOMAIN a = 1 .. Len(s) + 1
        /\ \A i \in 1 .. Len(s) : a[i] = s[i] /\ s[i] \in Nat
        /\ a[Len(s) + 1] = e /\ e \in Nat /\ Len(s) \in Nat
    <2>1. /\ a \in Seq(S) /\ Len(a) = Len(s) + 1 /\ a[Len(s) + 1] = e
          /\ \A i \in 1 .. Len(s) : a[i] = s[i]
      BY AppendProperties
    <2>2. s \in Seq(S) /\ \A i \in 1 .. Len(s) : s[i] \in S
      BY ElementOfSeq
    <2>3. e \in S
      OBVIOUS
    <2> HIDE DEF a
    <2>4. Len(s) \in Nat /\ DOMAIN s = 1 .. Len(s) /\ DOMAIN a = 1 .. Len(a)
      BY <2>1, <2>2, LenProperties
    <2> QED  BY <2>1, <2>2, <2>3, <2>4
  <1> HIDE DEF a
  <1>2. ASSUME NEW i \in DOMAIN a, NEW j \in DOMAIN a, i < j PROVE a[i] < a[j]
    <2>1. CASE j = Len(s) + 1
      BY <1>1, <1>2, <2>1
    <2>2. CASE j # Len(s) + 1
      BY <1>1, <1>2, <2>2 DEF Increasing
    <2> QED  BY <2>1, <2>2
  <1> QED  BY <1>2 DEF Increasing, a

\* So does removing the first.
LEMMA TailIncreasing ==
  ASSUME NEW S, NEW s \in Seq(S), s # << >>, Increasing(s)
  PROVE  /\ Increasing(Tail(s))
         /\ \A i \in DOMAIN Tail(s) : Head(s) < Tail(s)[i]
  <1> DEFINE t == Tail(s)
  <1>1. /\ DOMAIN s = 1 .. Len(s) /\ DOMAIN t = 1 .. Len(s) - 1 /\ Len(s) \in Nat \ {0}
        /\ \A i \in 1 .. Len(s) - 1 : t[i] = s[i + 1]
        /\ Head(s) = s[1]
    BY HeadTailProperties, EmptySeq
  <1> HIDE DEF t
  <1>2. Increasing(t)
    BY <1>1 DEF Increasing
  <1>3. \A i \in DOMAIN t : Head(s) < t[i]
    BY <1>1 DEF Increasing
  <1> QED  BY <1>2, <1>3 DEF t

-----------------------------------------------------------------------------
(* Types *)

\* Frames and numbers that arrived, or were written, did so also later on.
LEMMA Grows ==
  ASSUME RxType, arrived' \in Nat, arrived <= arrived'
  PROVE  /\ Frame \subseteq Frame'
         /\ rxfifo \in Seq(Frame') /\ rx_queue \in Seq(Seq(Frame'))
         /\ log \in Seq(Seq(1 .. arrived'))
  <1>1. Frame \subseteq Frame' /\ 1 .. arrived \subseteq 1 .. arrived'
    BY DEF RxType, Frame
  <1>2. Seq(Frame) \subseteq Seq(Frame') /\ Seq(1 .. arrived) \subseteq Seq(1 .. arrived')
    BY <1>1, SeqMonotonic, Zenon
  <1> QED  BY <1>1, <1>2, SeqMonotonic, Zenon DEF RxType

LEMMA MaxIdType == MaxId \in Ids
  BY CanAssumption DEF MaxId

\* Taking the oldest frame out of a channel's queue.
LEMMA QueueTail ==
  ASSUME RxType, NEW c \in Channels, rx_queue[c] # << >>,
         rx_queue' = [rx_queue EXCEPT ![c] = Tail(@)]
  PROVE  /\ rx_queue' \in Seq(Seq(Frame)) /\ Len(rx_queue') = Len(channel)
         /\ \A d \in Channels : Len(rx_queue'[d]) <= QueueSize
  <1>1. /\ rx_queue \in Seq(Seq(Frame)) /\ Len(rx_queue) = Len(channel)
        /\ c \in 1 .. Len(rx_queue) /\ Len(rx_queue[c]) <= QueueSize /\ QueueSize \in Nat
    BY CanAssumption DEF RxType, Channels
  <1>2. rx_queue[c] \in Seq(Frame) /\ Len(rx_queue[c]) \in Nat
    BY <1>1, ElementOfSeq, LenProperties
  <1>3. Tail(rx_queue[c]) \in Seq(Frame) /\ Len(Tail(rx_queue[c])) = Len(rx_queue[c]) - 1
    BY <1>2, HeadTailProperties, Zenon
  <1>4. Len(Tail(rx_queue[c])) <= QueueSize
    BY <1>1, <1>2, <1>3
  <1>5. /\ rx_queue' \in Seq(Seq(Frame)) /\ Len(rx_queue') = Len(rx_queue)
        /\ \A d \in 1 .. Len(rx_queue) :
             rx_queue'[d] = IF d = c THEN Tail(rx_queue[c]) ELSE rx_queue[d]
    BY <1>1, <1>3, ExceptSeq
  <1> QED  BY <1>1, <1>4, <1>5 DEF RxType, Channels

\* What a step does not touch keeps its type.
LEMMA SameFrames == arrived' = arrived => Frame' = Frame
  BY DEF Frame

LEMMA RxTypeStep == ASSUME RxType, RxAction PROVE RxType'
  <1>0. bound' = bound
    BY DEF RxAction
  <1>1. ASSUME NEW id \in Ids, Arrive(id) PROVE RxType'
    <2>1. /\ arrived' = arrived + 1 /\ arrived' \in Nat /\ merged \in Nat /\ RF0N \in BOOLEAN
          /\ UNCHANGED <<rx_sem, channel, rx_queue, rpc, frame, ri, filters, log>>
      BY <1>1 DEF Arrive, RxType
    <2>2. /\ Frame \subseteq Frame'
          /\ rxfifo \in Seq(Frame') /\ rx_queue \in Seq(Seq(Frame'))
          /\ log \in Seq(Seq(1 .. arrived'))
      <3>1. arrived <= arrived'
        BY <2>1 DEF RxType
      <3> QED  BY <2>1, <3>1, Grows
    <2>3. [n |-> arrived + 1, id |-> id] \in Frame'
      BY <2>1 DEF Frame, RxType
    <2>4. rxfifo' \in Seq(Frame') /\ Len(rxfifo') <= RxDepth
      <3>1. CASE Len(rxfifo) < RxDepth
        <4>1. rxfifo' = Append(rxfifo, [n |-> arrived + 1, id |-> id])
          BY <1>1, <3>1 DEF Arrive
        <4>2. rxfifo' \in Seq(Frame') /\ Len(rxfifo') = Len(rxfifo) + 1
          BY <2>2, <2>3, <4>1, AppendProperties, Zenon
        <4>3. Len(rxfifo) \in Nat /\ RxDepth \in Nat
          BY <2>2, LenProperties, CanAssumption
        <4> QED  BY <3>1, <4>2, <4>3
      <3>2. CASE ~(Len(rxfifo) < RxDepth)
        BY <1>1, <2>2, <3>2 DEF Arrive, RxType
      <3> QED  BY <3>1, <3>2
    <2>5. RF0N' \in BOOLEAN /\ merged' \in Nat
      <3>1. \/ RF0N' = TRUE /\ merged' \in {merged, merged + 1}
            \/ RF0N' = RF0N /\ merged' = merged
        BY <1>1, Zenon DEF Arrive
      <3>2. merged' \in Nat
        BY <2>1, <3>1
      <3>3. RF0N' \in BOOLEAN
        BY <2>1, <3>1, Zenon
      <3> QED  BY <3>2, <3>3
    <2>6. IF rpc = "receive" THEN frame = NoFrame ELSE frame \in Frame'
      BY <2>2 DEF RxType
    <2> QED  BY <1>0, <2>1, <2>2, <2>4, <2>5, <2>6 DEF RxType, Channels
  <1>2. CASE HandleRF0N \/ HandleHAL \/ UNCHANGED rxvars
    <2>1. UNCHANGED <<arrived, rxfifo, channel, rx_queue, rpc, frame, ri, filters, log>>
      BY <1>2 DEF HandleRF0N, HandleHAL, rxvars
    <2>2. merged' \in Nat /\ RF0N' \in BOOLEAN /\ rx_sem' \in {0, 1}
      <3>1. merged \in Nat /\ RF0N \in BOOLEAN /\ rx_sem \in {0, 1}
        BY DEF RxType
      <3>2. CASE HandleRF0N
        <4>1. RF0N' = FALSE /\ rx_sem' = 1 /\ merged' = merged + rx_sem
          BY <3>2, Zenon DEF HandleRF0N
        <4>2. merged + rx_sem \in Nat
          BY <3>1
        <4> QED  BY <4>1, <4>2, Zenon
      <3>3. CASE HandleHAL
        <4>1. merged' \in {merged, merged + 1} /\ RF0N' = FALSE /\ rx_sem' = rx_sem
          BY <3>3, Zenon DEF HandleHAL
        <4>2. merged + 1 \in Nat
          BY <3>1
        <4> QED  BY <3>1, <4>1, <4>2, Zenon
      <3>4. CASE UNCHANGED rxvars
        BY <3>1, <3>4 DEF rxvars
      <3> QED  BY <1>2, <3>2, <3>3, <3>4
    <2> QED  BY <1>0, <2>1, <2>2, SameFrames DEF RxType, Channels
  <1>3. CASE can_receive
    <2>1. /\ rpc = "receive" /\ rx_sem' = 0
          /\ UNCHANGED <<arrived, merged, RF0N, channel, rx_queue, filters, log>>
      BY <1>3 DEF can_receive
    <2>2. CASE rxfifo = << >>
      BY <1>0, <1>3, <2>1, <2>2, SameFrames DEF can_receive, RxType, Channels
    <2>3. CASE rxfifo # << >>
      <3>1. frame' = Head(rxfifo) /\ rxfifo' = Tail(rxfifo) /\ ri' = 1 /\ rpc' = "dispatch"
        BY <1>3, <2>3 DEF can_receive
      <3>2. rxfifo \in Seq(Frame) /\ Len(rxfifo) \in Nat /\ RxDepth \in Nat /\ Len(rxfifo) <= RxDepth
        BY LenProperties, CanAssumption DEF RxType
      <3>3. Head(rxfifo) \in Frame /\ Tail(rxfifo) \in Seq(Frame) /\ Len(Tail(rxfifo)) = Len(rxfifo) - 1
        BY <2>3, <3>2, HeadTailProperties, Zenon
      <3>4. Len(Tail(rxfifo)) <= RxDepth
        BY <3>2, <3>3
      <3>5. 1 \in 1 .. Len(channel) + 1
        BY LenProperties DEF RxType
      <3> QED  BY <1>0, <2>1, <3>1, <3>3, <3>4, <3>5, SameFrames DEF RxType, Channels
    <2> QED  BY <2>2, <2>3
  <1>4. CASE DispatchEnd
    <2>1. /\ rpc' = "receive" /\ frame' = NoFrame /\ ri' = 1
          /\ UNCHANGED <<arrived, merged, rxfifo, RF0N, rx_sem, channel, rx_queue, filters, log>>
      BY <1>4 DEF DispatchEnd
    <2>2. 1 \in 1 .. Len(channel) + 1
      BY LenProperties DEF RxType
    <2> QED  BY <1>0, <2>1, <2>2, SameFrames DEF RxType, Channels
  <1>5. CASE Dispatch
    <2>1. /\ UNCHANGED <<arrived, merged, rxfifo, RF0N, rx_sem, channel, frame, filters>>
          /\ rpc = "dispatch" /\ ri <= Len(channel) /\ frame \in Frame
      BY <1>5 DEF Dispatch, RxType
    <2>2. Len(channel) \in Nat /\ ri \in Channels /\ ri + 1 \in 1 .. Len(channel) + 1
      <3>1. Len(channel) \in Nat
        BY LenProperties DEF RxType
      <3> QED  BY <2>1, <3>1 DEF RxType, Channels
    <2>3. CASE Passes(ri, frame) /\ Len(rx_queue[ri]) = QueueSize
      <3>1. rpc' = "drop" /\ UNCHANGED <<rx_queue, log, ri>>
        BY <1>5, <2>3 DEF Dispatch
      <3> QED  BY <1>0, <2>1, <2>2, <3>1, SameFrames DEF RxType, Channels
    <2>4. CASE Passes(ri, frame) /\ Len(rx_queue[ri]) # QueueSize
      <3>1. /\ rx_queue' = [rx_queue EXCEPT ![ri] = Append(@, frame)]
            /\ log' = [log EXCEPT ![ri] = Append(@, frame.n)]
            /\ ri' = ri + 1 /\ UNCHANGED rpc
        BY <1>5, <2>4 DEF Dispatch
      <3>2. frame.n \in 1 .. arrived
        BY <2>1 DEF Frame
      <3>3. /\ rx_queue \in Seq(Seq(Frame)) /\ Len(rx_queue) = Len(channel)
            /\ log \in Seq(Seq(1 .. arrived)) /\ Len(log) = Len(channel)
        BY DEF RxType
      <3>4. rx_queue[ri] \in Seq(Frame) /\ log[ri] \in Seq(1 .. arrived)
        BY <2>2, <3>3, ElementOfSeq DEF Channels
      <3>5. /\ Append(rx_queue[ri], frame) \in Seq(Frame)
            /\ Len(Append(rx_queue[ri], frame)) = Len(rx_queue[ri]) + 1
            /\ Append(log[ri], frame.n) \in Seq(1 .. arrived)
        BY <2>1, <3>2, <3>4, AppendProperties, Zenon
      <3>6. Len(rx_queue[ri]) + 1 <= QueueSize
        <4>1. Len(rx_queue[ri]) \in Nat /\ Len(rx_queue[ri]) <= QueueSize /\ QueueSize \in Nat
          BY <2>2, <3>4, LenProperties, CanAssumption DEF RxType
        <4> QED  BY <2>4, <4>1
      <3>7. /\ rx_queue' \in Seq(Seq(Frame)) /\ Len(rx_queue') = Len(rx_queue)
            /\ \A c \in Channels : rx_queue'[c] = IF c = ri THEN Append(rx_queue[ri], frame) ELSE rx_queue[c]
        BY <2>2, <3>1, <3>3, <3>5, ExceptSeq DEF Channels
      <3>8. log' \in Seq(Seq(1 .. arrived)) /\ Len(log') = Len(log)
        BY <2>2, <3>1, <3>3, <3>5, ExceptSeq DEF Channels
      <3>9. \A c \in Channels : Len(rx_queue'[c]) <= QueueSize
        BY <3>5, <3>6, <3>7 DEF RxType
      <3> QED  BY <1>0, <2>1, <2>2, <3>1, <3>3, <3>7, <3>8, <3>9, SameFrames DEF RxType, Channels
    <2>5. CASE ~Passes(ri, frame)
      <3>1. ri' = ri + 1 /\ UNCHANGED <<rx_queue, log, rpc>>
        BY <1>5, <2>5 DEF Dispatch
      <3> QED  BY <1>0, <2>1, <2>2, <3>1, SameFrames DEF RxType, Channels
    <2> QED  BY <2>3, <2>4, <2>5
  <1>6. CASE Drop
    <2>1. /\ rpc = "drop" /\ rpc' = "dispatch" /\ ri' = ri + 1
          /\ UNCHANGED <<arrived, merged, rxfifo, RF0N, rx_sem, channel, filters, log>>
          /\ ri \in Channels /\ rx_queue[ri] # << >>
          /\ frame' = Head(rx_queue[ri])
          /\ rx_queue' = [rx_queue EXCEPT ![ri] = Tail(@)]
      BY <1>6 DEF Drop, RxType
    <2>2. Len(channel) \in Nat /\ ri + 1 \in 1 .. Len(channel) + 1
      <3>1. Len(channel) \in Nat
        BY LenProperties DEF RxType
      <3> QED  BY <2>1, <3>1 DEF Channels
    <2>3. Head(rx_queue[ri]) \in Frame
      <3>1. rx_queue[ri] \in Seq(Frame)
        BY <2>1, ElementOfSeq DEF RxType, Channels
      <3> QED  BY <2>1, <3>1, HeadTailProperties
    <2>4. /\ rx_queue' \in Seq(Seq(Frame)) /\ Len(rx_queue') = Len(channel)
          /\ \A c \in Channels : Len(rx_queue'[c]) <= QueueSize
      BY <2>1, QueueTail
    <2> QED  BY <1>0, <2>1, <2>2, <2>3, <2>4, SameFrames DEF RxType, Channels
  <1>7. CASE can_open
    <2>1. /\ Len(channel) < MAX_CHANNELS
          /\ channel' = Append(channel, [low |-> 0, high |-> MaxId])
          /\ rx_queue' = Append(rx_queue, << >>) /\ log' = Append(log, << >>)
          /\ UNCHANGED <<arrived, merged, rxfifo, RF0N, rx_sem, rpc, frame, ri, filters>>
      BY <1>7 DEF can_open
    <2>2. /\ Len(channel) \in Nat /\ MAX_CHANNELS \in Nat
          /\ channel \in Seq([low : Ids \cup {0}, high : Ids])
          /\ rx_queue \in Seq(Seq(Frame)) /\ Len(rx_queue) = Len(channel)
          /\ log \in Seq(Seq(1 .. arrived)) /\ Len(log) = Len(channel)
      BY LenProperties, CanAssumption DEF RxType
    <2>3. /\ channel' \in Seq([low : Ids \cup {0}, high : Ids])
          /\ Len(channel') = Len(channel) + 1
      <3> DEFINE Filter == [low : Ids \cup {0}, high : Ids]
                 all == [low |-> 0, high |-> MaxId]
      <3>1. all \in Filter
        BY MaxIdType
      <3>2. channel \in Seq(Filter) /\ channel' = Append(channel, all)
        BY <2>1, <2>2
      <3> HIDE DEF Filter, all
      <3>3. channel' \in Seq(Filter) /\ Len(channel') = Len(channel) + 1
        BY <3>1, <3>2, AppendProperties
      <3> QED  BY <3>3 DEF Filter
    <2>4. << >> \in Seq(Frame) /\ << >> \in Seq(1 .. arrived)
      BY EmptySeq
    <2>5. /\ rx_queue' \in Seq(Seq(Frame)) /\ Len(rx_queue') = Len(rx_queue) + 1
          /\ \A c \in 1 .. Len(rx_queue) : rx_queue'[c] = rx_queue[c]
          /\ rx_queue'[Len(rx_queue) + 1] = << >>
      <3> DEFINE empty == << >>
      <3>1. rx_queue \in Seq(Seq(Frame)) /\ empty \in Seq(Frame) /\ rx_queue' = Append(rx_queue, empty)
        BY <2>1, <2>2, <2>4
      <3> HIDE DEF empty
      <3>2. /\ rx_queue' \in Seq(Seq(Frame)) /\ Len(rx_queue') = Len(rx_queue) + 1
            /\ \A c \in 1 .. Len(rx_queue) : rx_queue'[c] = rx_queue[c]
            /\ rx_queue'[Len(rx_queue) + 1] = empty
        BY <3>1, AppendProperties
      <3> QED  BY <3>2 DEF empty
    <2>6. log' \in Seq(Seq(1 .. arrived)) /\ Len(log') = Len(log) + 1
      <3> DEFINE empty == << >>
      <3>1. log \in Seq(Seq(1 .. arrived)) /\ empty \in Seq(1 .. arrived) /\ log' = Append(log, empty)
        BY <2>1, <2>2, <2>4
      <3> HIDE DEF empty
      <3> QED  BY <3>1, AppendProperties
    <2>7. \A c \in 1 .. Len(channel) + 1 : Len(rx_queue'[c]) <= QueueSize
      <3>1. \A c \in 1 .. Len(channel) : Len(rx_queue[c]) <= QueueSize
        BY DEF RxType, Channels
      <3>2. Len(rx_queue'[Len(channel) + 1]) <= QueueSize
        <4>1. rx_queue'[Len(channel) + 1] = << >>
          BY <2>2, <2>5
        <4>2. Len(<< >>) = 0 /\ QueueSize \in Nat
          BY CanAssumption
        <4> QED  BY <4>1, <4>2
      <3>3. \A c \in 1 .. Len(channel) : rx_queue'[c] = rx_queue[c]
        BY <2>2, <2>5
      <3>4. ASSUME NEW c \in 1 .. Len(channel) + 1 PROVE Len(rx_queue'[c]) <= QueueSize
        <4>1. CASE c = Len(channel) + 1
          BY <3>2, <4>1
        <4>2. CASE c \in 1 .. Len(channel)
          BY <3>1, <3>3, <4>2
        <4>3. c = Len(channel) + 1 \/ c \in 1 .. Len(channel)
          BY <2>2
        <4> QED  BY <4>1, <4>2, <4>3
      <3> QED  BY <3>4
    <2>8. Len(channel') <= MAX_CHANNELS
      BY <2>1, <2>2, <2>3
    <2>9. ri \in 1 .. Len(channel') + 1 /\ (rpc = "drop" => ri \in 1 .. Len(channel'))
      BY <2>2, <2>3 DEF RxType, Channels
    <2> QED  BY <1>0, <2>1, <2>2, <2>3, <2>5, <2>6, <2>7, <2>8, <2>9, SameFrames DEF RxType, Channels
  <1>8. ASSUME NEW c \in Channels, NEW id \in Ids,
               \/ can_ioctl_set_rx_filter_id_low(c, id)
               \/ can_ioctl_set_rx_filter_id_high(c, id)
        PROVE RxType'
    <2>1. /\ UNCHANGED <<arrived, merged, rxfifo, RF0N, rx_sem, rx_queue, rpc, frame, ri, log>>
          /\ filters' = filters + 1 /\ filters < bound.filters
          /\ \/ channel' = [channel EXCEPT ![c].low = id]
             \/ channel' = [channel EXCEPT ![c].high = id]
      BY <1>8 DEF can_ioctl_set_rx_filter_id_low, can_ioctl_set_rx_filter_id_high
    <2>2. /\ channel' \in Seq([low : Ids \cup {0}, high : Ids])
          /\ Len(channel') = Len(channel)
      <3> DEFINE Filter == [low : Ids \cup {0}, high : Ids]
      <3>1. channel \in Seq(Filter) /\ c \in 1 .. Len(channel)
        BY DEF RxType, Channels
      <3>2. channel[c] \in Filter
        BY <3>1, ElementOfSeq
      <3>3. [channel[c] EXCEPT !.low = id] \in Filter /\ [channel[c] EXCEPT !.high = id] \in Filter
        BY <3>2
      <3> HIDE DEF Filter
      <3>4. PICK f \in Filter : channel' = [channel EXCEPT ![c] = f]
        BY <2>1, <3>3
      <3>5. channel' \in Seq(Filter) /\ Len(channel') = Len(channel)
        BY <3>1, <3>4, ExceptSeq
      <3> QED  BY <3>5 DEF Filter
    <2>3. filters' \in 0 .. bound.filters
      <3>1. bound.filters \in Nat /\ filters \in 0 .. bound.filters
        BY CanAssumption DEF RxType
      <3> QED  BY <2>1, <3>1
    <2> QED  BY <1>0, <2>1, <2>2, <2>3, SameFrames DEF RxType, Channels
  <1>9. ASSUME NEW c \in Channels, can_read(c) PROVE RxType'
    <2>1. /\ rx_queue[c] # << >> /\ rx_queue' = [rx_queue EXCEPT ![c] = Tail(@)]
          /\ UNCHANGED <<arrived, merged, rxfifo, RF0N, rx_sem, channel, rpc, frame, ri, filters, log>>
      BY <1>9 DEF can_read
    <2>2. /\ rx_queue' \in Seq(Seq(Frame)) /\ Len(rx_queue') = Len(channel)
          /\ \A d \in Channels : Len(rx_queue'[d]) <= QueueSize
      BY <2>1, QueueTail
    <2> QED  BY <1>0, <2>1, <2>2, SameFrames DEF RxType, Channels
  <1> QED  BY <1>1, <1>2, <1>3, <1>4, <1>5, <1>6, <1>7, <1>8, <1>9 DEF RxAction

LEMMA TxTypeStep == ASSUME TxType, TxAction PROVE TxType'
  <1> USE CanAssumption DEF TxType
  <1>1. ASSUME NEW w \in Writers, CallWrite(w) \/ can_write(w) PROVE TxType'
    <2>1. CASE CallWrite(w)
      BY <2>1 DEF CallWrite, Written
    <2>2. CASE can_write(w)
      <3>1. /\ written' = written + 1 /\ Len(tx_queue) < QueueSize
            /\ tx_queue' = Append(tx_queue, written + 1)
            /\ UNCHANGED <<txfifo, TC, tx_sem, wpc, wframe, wire>>
            /\ calls' = [calls EXCEPT ![w] = "idle"]
        BY <2>2 DEF can_write
      <3>2. Written \subseteq Written' /\ written + 1 \in Written'
        BY <3>1 DEF Written
      <3>3. txfifo \in Seq(Written') /\ tx_queue \in Seq(Written') /\ wire \in Seq(Written')
        BY <3>2, SeqMonotonic, Zenon
      <3>4. tx_queue' \in Seq(Written') /\ Len(tx_queue') <= QueueSize
        BY <3>1, <3>2, <3>3, AppendProperties
      <3>5. IF wpc = "take" THEN wframe = 0 ELSE wframe \in Written'
        BY <3>2
      <3> HIDE DEF Written
      <3> QED  BY <3>1, <3>3, <3>4, <3>5
    <2> QED  BY <1>1, <2>1, <2>2
  <1>2. ASSUME written' = written,
               \/ Sent \/ NotAcknowledged \/ HandleTC \/ HandleHAL
               \/ WTake \/ TransmitDrain \/ TransmitStart \/ TransmitDone \/ TransmitTimeout
               \/ UNCHANGED txvars
        PROVE TxType'
    <2>0. Written' = Written
      BY <1>2 DEF Written
    <2> HIDE DEF Written
    <2>1. CASE Sent
      BY <1>2, <2>0, <2>1 DEF Sent
    <2>2. CASE NotAcknowledged
      BY <1>2, <2>0, <2>2 DEF NotAcknowledged
    <2>3. CASE HandleTC \/ HandleHAL
      BY <1>2, <2>0, <2>3 DEF HandleTC, HandleHAL
    <2>4. CASE WTake
      BY <1>2, <2>0, <2>4 DEF WTake
    <2>5. CASE TransmitStart
      <3>1. UNCHANGED <<TC, tx_sem, tx_queue, calls, wire>>
        BY <2>5 DEF TransmitStart
      <3>2. CASE Len(txfifo) < TxDepth
        <4>1. txfifo' = Append(txfifo, wframe) /\ wpc' = "wait" /\ wframe' = wframe /\ wframe \in Written
          BY <2>5, <3>2 DEF TransmitStart
        <4>2. txfifo' \in Seq(Written) /\ Len(txfifo') = Len(txfifo) + 1
          BY <4>1, AppendProperties
        <4>3. Len(txfifo) \in Nat /\ TxDepth \in Nat
          BY LenProperties
        <4>4. Len(txfifo') <= TxDepth
          BY <3>2, <4>2, <4>3
        <4> QED  BY <1>2, <2>0, <3>1, <4>1, <4>2, <4>4
      <3>3. CASE ~(Len(txfifo) < TxDepth)
        <4>1. txfifo' = txfifo /\ wpc' = "take" /\ wframe' = 0
          BY <2>5, <3>3 DEF TransmitStart
        <4> QED  BY <1>2, <2>0, <3>1, <4>1
      <3> QED  BY <3>2, <3>3
    <2>6. CASE TransmitDrain \/ TransmitDone \/ TransmitTimeout
      BY <1>2, <2>0, <2>6 DEF TransmitDrain, TransmitDone, TransmitTimeout
    <2>7. CASE UNCHANGED txvars
      BY <2>0, <2>7 DEF txvars
    <2> QED  BY <1>2, <2>1, <2>2, <2>3, <2>4, <2>5, <2>6, <2>7
  <1>3. ASSUME \/ Sent \/ NotAcknowledged \/ HandleTC \/ HandleHAL
               \/ WTake \/ TransmitDrain \/ TransmitStart \/ TransmitDone \/ TransmitTimeout
               \/ UNCHANGED txvars
        PROVE written' = written
    BY <1>3 DEF Sent, NotAcknowledged, HandleTC, HandleHAL, WTake, TransmitDrain,
                TransmitStart, TransmitDone, TransmitTimeout, txvars
  <1> QED  BY <1>1, <1>2, <1>3 DEF TxAction

-----------------------------------------------------------------------------
(* The inductive invariant *)

\* Reception: frame n came in before every frame still in the controller.
Later(n) == \A k \in DOMAIN rxfifo : n < rxfifo[k].n

FifoOrder == \A j, k \in DOMAIN rxfifo : j < k => rxfifo[j].n < rxfifo[k].n

\* No channel registered before c has overflowed.
Clean(c) == \A b \in 1 .. c - 1 : b \notin overrun

\* The frame in the read thread's variable came in before those still in the
\* controller, until a channel that overflowed put an old frame there.
FrameInHand == rpc = "dispatch" /\ Clean(ri) => Later(frame.n)

Dropping == rpc = "drop" => ri \in overrun

\* What a channel was given came in before all it may still be given.
Given(c) ==
  \A i \in DOMAIN log[c] :
    /\ Later(log[c][i])
    /\ rpc = "dispatch" /\ ri <= c => log[c][i] < frame.n

LogOrder == \A c \in Channels : Clean(c) => Increasing(log[c]) /\ Given(c)

RxInv == FifoOrder /\ FrameInHand /\ Dropping /\ LogOrder

\* Transmission: the bus, the controller, the write thread and the queue hold
\* frames in the order in which they were written.
Before(s, t) == \A i \in DOMAIN s, j \in DOMAIN t : s[i] < t[j]

WframeOrder ==
  wpc \in {"drain", "start"} =>
    /\ \A i \in DOMAIN wire : wire[i] < wframe
    /\ \A i \in DOMAIN txfifo : txfifo[i] < wframe
    /\ \A i \in DOMAIN tx_queue : wframe < tx_queue[i]

TxInv ==
  /\ Increasing(wire) /\ Increasing(txfifo) /\ Increasing(tx_queue)
  /\ Before(wire, txfifo) /\ Before(wire, tx_queue) /\ Before(txfifo, tx_queue)
  /\ WframeOrder

IInv == RxType /\ TxType /\ ERR \in BOOLEAN /\ isr \in {"none", "hal"}
        /\ RxInv /\ RxBacklog /\ TxInv

-----------------------------------------------------------------------------
(* How many frames are left behind *)

LEMMA BacklogStep ==
  ASSUME RxType, RxBacklog, RxAction
  PROVE  RxBacklog'
  <1> DEFINE flag == IF RF0N THEN 1 ELSE 0
  <1>1. /\ Len(rxfifo) \in Nat /\ merged \in Nat /\ rx_sem \in {0, 1}
        /\ rxfifo \in Seq(Frame) /\ RxDepth \in Nat
    BY LenProperties, CanAssumption DEF RxType
  <1>2. flag \in {0, 1} /\ flag' \in {0, 1}
    BY Zenon
  <1>3. Len(rxfifo) <= merged + rx_sem + flag
    BY DEF RxBacklog
  <1>4. SUFFICES Len(rxfifo') <= merged' + rx_sem' + flag'
    BY DEF RxBacklog
  <1>5. ASSUME NEW id \in Ids, Arrive(id) PROVE Len(rxfifo') <= merged' + rx_sem' + flag'
    <2>1. CASE Len(rxfifo) < RxDepth
      <3>1. rxfifo' = Append(rxfifo, [n |-> arrived + 1, id |-> id]) /\ rx_sem' = rx_sem
        BY <1>5, <2>1 DEF Arrive
      <3>2. Len(rxfifo') = Len(rxfifo) + 1
        <4>1. Len(Append(rxfifo, [n |-> arrived + 1, id |-> id])) = Len(rxfifo) + 1
          BY <1>1
        <4> QED  BY <3>1, <4>1
      <3>3. flag' = 1 /\ (\/ flag = 1 /\ merged' = merged + 1
                          \/ flag = 0 /\ merged' = merged)
        BY <1>5, <2>1, Zenon DEF Arrive
      <3> HIDE DEF flag
      <3> QED  BY <1>1, <1>3, <3>1, <3>2, <3>3
    <2>2. CASE ~(Len(rxfifo) < RxDepth)
      BY <1>3, <1>5, <2>2 DEF Arrive
    <2> QED  BY <2>1, <2>2
  <1>6. CASE HandleRF0N
    <2>1. flag = 1 /\ flag' = 0 /\ rx_sem' = 1 /\ merged' = merged + rx_sem /\ rxfifo' = rxfifo
      BY <1>6, Zenon DEF HandleRF0N
    <2> HIDE DEF flag
    <2> QED  BY <1>1, <1>3, <2>1
  <1>7. CASE HandleHAL
    <2>1. /\ flag' = 0 /\ rx_sem' = rx_sem /\ rxfifo' = rxfifo
          /\ \/ flag = 1 /\ merged' = merged + 1
             \/ flag = 0 /\ merged' = merged
      BY <1>7, Zenon DEF HandleHAL
    <2> HIDE DEF flag
    <2> QED  BY <1>1, <1>3, <2>1
  <1>8. CASE can_receive
    <2>1. flag' = flag /\ merged' = merged /\ rx_sem = 1 /\ rx_sem' = 0
      BY <1>8 DEF can_receive
    <2> HIDE DEF flag
    <2>2. CASE rxfifo = << >>
      <3>1. rxfifo' = << >> /\ Len(<< >>) = 0
        BY <1>8, <2>2 DEF can_receive
      <3> QED  BY <1>1, <1>2, <2>1, <3>1
    <2>3. CASE rxfifo # << >>
      <3>1. rxfifo' = Tail(rxfifo)
        BY <1>8, <2>3 DEF can_receive
      <3>2. Len(rxfifo') = Len(rxfifo) - 1
        BY <1>1, <2>3, <3>1, HeadTailProperties
      <3> QED  BY <1>1, <1>2, <1>3, <2>1, <3>2
    <2> QED  BY <2>2, <2>3
  <1>9. CASE UNCHANGED <<rxfifo, RF0N, rx_sem, merged>>
    BY <1>3, <1>9
  <1>10. \/ \E id \in Ids : Arrive(id)
         \/ HandleRF0N \/ HandleHAL \/ can_receive
         \/ UNCHANGED <<rxfifo, RF0N, rx_sem, merged>>
    BY DEF RxAction, Dispatch, Drop, DispatchEnd, can_open, can_ioctl_set_rx_filter_id_low,
           can_ioctl_set_rx_filter_id_high, can_read, rxvars
  <1> QED  BY <1>5, <1>6, <1>7, <1>8, <1>9, <1>10

-----------------------------------------------------------------------------
(* The order of transmission *)

\* The elements of a sequence with one more at its end, and of its tail.
LEMMA AppendElements ==
  ASSUME NEW S, NEW s \in Seq(S), NEW e \in S, NEW i \in DOMAIN Append(s, e)
  PROVE  \/ Append(s, e)[i] = e /\ i = Len(s) + 1
         \/ i \in DOMAIN s /\ Append(s, e)[i] = s[i]
  <1> DEFINE a == Append(s, e)
  <1>1. /\ a \in Seq(S) /\ Len(a) = Len(s) + 1 /\ a[Len(s) + 1] = e
        /\ \A j \in 1 .. Len(s) : a[j] = s[j]
    BY AppendProperties
  <1>2. i \in DOMAIN a
    OBVIOUS
  <1> HIDE DEF a
  <1>3. Len(s) \in Nat /\ DOMAIN s = 1 .. Len(s) /\ i \in 1 .. Len(s) + 1
    BY <1>1, <1>2, LenProperties
  <1>4. i = Len(s) + 1 \/ i \in 1 .. Len(s)
    BY <1>3
  <1>5. \/ a[i] = e /\ i = Len(s) + 1
        \/ i \in DOMAIN s /\ a[i] = s[i]
    BY <1>1, <1>3, <1>4
  <1> QED  BY <1>5 DEF a

LEMMA TailElements ==
  ASSUME NEW S, NEW s \in Seq(S), s # << >>
  PROVE  /\ 1 \in DOMAIN s /\ Head(s) = s[1]
         /\ \A i \in DOMAIN Tail(s) : i + 1 \in DOMAIN s /\ Tail(s)[i] = s[i + 1] /\ i >= 1
  <1> DEFINE t == Tail(s)
  <1>1. /\ DOMAIN s = 1 .. Len(s) /\ DOMAIN t = 1 .. Len(s) - 1 /\ Len(s) \in Nat \ {0}
        /\ \A i \in 1 .. Len(s) - 1 : t[i] = s[i + 1]
        /\ Head(s) = s[1]
    BY HeadTailProperties, EmptySeq
  <1> HIDE DEF t
  <1>2. \A i \in DOMAIN t : i + 1 \in DOMAIN s /\ t[i] = s[i + 1] /\ i >= 1
    BY <1>1
  <1>3. 1 \in DOMAIN s
    BY <1>1
  <1> QED  BY <1>1, <1>2, <1>3 DEF t

LEMMA TxStep ==
  ASSUME TxType, TxInv, TxAction
  PROVE  TxInv'
  <1>1. /\ written \in Nat /\ Written \in SUBSET Nat
        /\ txfifo \in Seq(Written) /\ tx_queue \in Seq(Written) /\ wire \in Seq(Written)
    BY DEF TxType, Written
  <1>2. CASE Sent
    <2>1. /\ txfifo # << >> /\ wire' = Append(wire, Head(txfifo)) /\ txfifo' = Tail(txfifo)
          /\ UNCHANGED <<tx_queue, wpc, wframe>>
      BY <1>2 DEF Sent
    <2> DEFINE h == Head(txfifo)
    <2>2. /\ h \in Written /\ 1 \in DOMAIN txfifo /\ h = txfifo[1]
          /\ \A i \in DOMAIN txfifo' : i + 1 \in DOMAIN txfifo /\ txfifo'[i] = txfifo[i + 1]
      BY <1>1, <2>1, HeadTailProperties, TailElements
    <2>3. Increasing(txfifo') /\ \A i \in DOMAIN txfifo' : h < txfifo'[i]
      BY <1>1, <2>1, TailIncreasing DEF TxInv
    <2> HIDE DEF h
    <2>4. \A i \in DOMAIN wire : wire[i] < h
      BY <2>2 DEF TxInv, Before
    <2>5. Increasing(wire')
      <3>1. wire' = Append(wire, h)
        BY <2>1 DEF h
      <3> QED  BY <1>1, <2>2, <2>4, <3>1, AppendIncreasing DEF TxInv
    <2>6. \A i \in DOMAIN wire' : wire'[i] = h \/ (i \in DOMAIN wire /\ wire'[i] = wire[i])
      <3>1. wire' = Append(wire, h)
        BY <2>1 DEF h
      <3> QED  BY <1>1, <2>2, <3>1, AppendElements
    <2>7. Before(wire, txfifo) /\ Before(wire, tx_queue) /\ Before(txfifo, tx_queue) /\ WframeOrder
      BY DEF TxInv
    <2>8. Before(wire', txfifo')
      BY <2>2, <2>3, <2>6, <2>7 DEF Before
    <2>9. Before(wire', tx_queue') /\ Before(txfifo', tx_queue')
      BY <2>1, <2>2, <2>6, <2>7 DEF Before
    <2>10. WframeOrder'
      BY <2>1, <2>2, <2>6, <2>7 DEF WframeOrder
    <2>11. Increasing(tx_queue')
      BY <2>1 DEF TxInv
    <2> QED  BY <2>3, <2>5, <2>8, <2>9, <2>10, <2>11 DEF TxInv
  <1>3. CASE NotAcknowledged
    <2>1. /\ txfifo # << >> /\ txfifo' = Tail(txfifo) /\ UNCHANGED <<wire, tx_queue, wpc, wframe>>
      BY <1>3 DEF NotAcknowledged
    <2>2. \A i \in DOMAIN txfifo' : i + 1 \in DOMAIN txfifo /\ txfifo'[i] = txfifo[i + 1]
      BY <1>1, <2>1, TailElements
    <2>3. Increasing(txfifo')
      BY <1>1, <2>1, TailIncreasing DEF TxInv
    <2> QED  BY <2>1, <2>2, <2>3 DEF TxInv, Before, WframeOrder
  <1>4. CASE WTake
    <2>1. /\ tx_queue # << >> /\ wframe' = Head(tx_queue) /\ tx_queue' = Tail(tx_queue)
          /\ wpc' = "drain" /\ UNCHANGED <<txfifo, wire>>
      BY <1>4 DEF WTake
    <2>2. /\ 1 \in DOMAIN tx_queue /\ wframe' = tx_queue[1]
          /\ \A i \in DOMAIN tx_queue' : i + 1 \in DOMAIN tx_queue /\ tx_queue'[i] = tx_queue[i + 1]
      BY <1>1, <2>1, TailElements
    <2>3. Increasing(tx_queue') /\ \A i \in DOMAIN tx_queue' : wframe' < tx_queue'[i]
      BY <1>1, <2>1, TailIncreasing DEF TxInv
    <2>4. WframeOrder'
      BY <2>1, <2>2, <2>3 DEF TxInv, Before, WframeOrder
    <2> QED  BY <2>1, <2>2, <2>3, <2>4 DEF TxInv, Before
  <1>5. CASE TransmitStart
    <2>1. wpc = "start" /\ UNCHANGED <<tx_queue, wire>>
      BY <1>5 DEF TransmitStart
    <2>2. CASE Len(txfifo) < TxDepth
      <3>1. txfifo' = Append(txfifo, wframe) /\ wpc' = "wait"
        BY <1>5, <2>2 DEF TransmitStart
      <3>2. wframe \in Written
        BY <2>1 DEF TxType
      <3>3. \A i \in DOMAIN txfifo' : txfifo'[i] = wframe \/ (i \in DOMAIN txfifo /\ txfifo'[i] = txfifo[i])
        BY <1>1, <3>1, <3>2, AppendElements
      <3>4. /\ \A i \in DOMAIN wire : wire[i] < wframe
            /\ \A i \in DOMAIN txfifo : txfifo[i] < wframe
            /\ \A i \in DOMAIN tx_queue : wframe < tx_queue[i]
        BY <2>1 DEF TxInv, WframeOrder
      <3>5. Increasing(txfifo')
        BY <1>1, <3>1, <3>2, <3>4, AppendIncreasing DEF TxInv
      <3>6. WframeOrder'
        BY <3>1 DEF WframeOrder
      <3> QED  BY <2>1, <3>3, <3>4, <3>5, <3>6 DEF TxInv, Before
    <2>3. CASE ~(Len(txfifo) < TxDepth)
      <3>1. txfifo' = txfifo /\ wpc' = "take"
        BY <1>5, <2>3 DEF TransmitStart
      <3> QED  BY <2>1, <3>1 DEF TxInv, Before, WframeOrder
    <2> QED  BY <2>2, <2>3
  <1>6. ASSUME NEW w \in Writers, can_write(w) PROVE TxInv'
    <2>1. /\ tx_queue' = Append(tx_queue, written + 1) /\ written' = written + 1
          /\ UNCHANGED <<txfifo, wire, wpc, wframe>>
      BY <1>6 DEF can_write
    <2>2. Written' \in SUBSET Nat /\ Written \subseteq Written' /\ written + 1 \in Written'
      BY <1>1, <2>1 DEF Written
    <2>3. tx_queue \in Seq(Written')
      BY <1>1, <2>2, SeqMonotonic, Zenon
    <2>4. /\ \A i \in DOMAIN tx_queue : tx_queue[i] < written + 1
          /\ \A i \in DOMAIN txfifo : txfifo[i] < written + 1
          /\ \A i \in DOMAIN wire : wire[i] < written + 1
      <3>1. ASSUME NEW s \in Seq(Written), NEW i \in DOMAIN s PROVE s[i] < written + 1
        <4>1. s[i] \in Written
          BY <3>1, ElementOfSeq, LenProperties
        <4> QED  BY <1>1, <4>1 DEF Written
      <3> QED  BY <1>1, <3>1
    <2>5. Increasing(tx_queue')
      BY <2>1, <2>2, <2>3, <2>4, AppendIncreasing DEF TxInv
    <2>6. \A i \in DOMAIN tx_queue' :
            tx_queue'[i] = written + 1 \/ (i \in DOMAIN tx_queue /\ tx_queue'[i] = tx_queue[i])
      BY <2>1, <2>2, <2>3, AppendElements
    <2>7. wpc \in {"drain", "start"} => wframe < written + 1
      <3>1. wpc \in {"drain", "start"} => wframe \in Written
        BY DEF TxType
      <3> QED  BY <1>1, <3>1 DEF Written
    <2>8. WframeOrder'
      BY <2>1, <2>6, <2>7 DEF TxInv, WframeOrder
    <2> QED  BY <2>1, <2>4, <2>5, <2>6, <2>8 DEF TxInv, Before
  <1>7. CASE TransmitDrain
    BY <1>7 DEF TransmitDrain, TxInv, Before, WframeOrder
  <1>8. CASE TransmitDone \/ TransmitTimeout
    <2>1. UNCHANGED <<txfifo, tx_queue, wire>> /\ wpc' = "take"
      BY <1>8 DEF TransmitDone, TransmitTimeout
    <2> QED  BY <2>1 DEF TxInv, Before, WframeOrder
  <1>9. CASE UNCHANGED <<txfifo, tx_queue, wire, wpc, wframe>>
    BY <1>9 DEF TxInv, Before, WframeOrder
  <1>10. HandleTC \/ HandleHAL \/ (\E w \in Writers : CallWrite(w)) \/ UNCHANGED txvars
         => UNCHANGED <<txfifo, tx_queue, wire, wpc, wframe>>
    BY DEF HandleTC, HandleHAL, CallWrite, txvars
  <1> QED  BY <1>2, <1>3, <1>4, <1>5, <1>6, <1>7, <1>8, <1>9, <1>10 DEF TxAction

-----------------------------------------------------------------------------
(* The order of reception *)

\* The numbers of the frames in hand, in the controller and in the logs.
LEMMA Numbers ==
  ASSUME RxType
  PROVE  /\ arrived \in Nat /\ ri \in Nat \ {0} /\ Len(channel) \in Nat
         /\ \A k \in DOMAIN rxfifo : rxfifo[k].n \in 1 .. arrived
         /\ rpc # "receive" => frame.n \in 1 .. arrived
         /\ \A c \in Channels : log[c] \in Seq(1 .. arrived)
         /\ \A c \in Channels : \A i \in DOMAIN log[c] : log[c][i] \in 1 .. arrived
  <1>1. arrived \in Nat /\ Len(channel) \in Nat
    BY LenProperties DEF RxType
  <1>2. ri \in Nat \ {0}
    BY <1>1 DEF RxType
  <1>3. ASSUME NEW k \in DOMAIN rxfifo PROVE rxfifo[k].n \in 1 .. arrived
    <2>1. rxfifo[k] \in Frame
      BY <1>3, ElementOfSeq, LenProperties DEF RxType
    <2> QED  BY <2>1 DEF Frame
  <1>4. rpc # "receive" => frame.n \in 1 .. arrived
    BY DEF RxType, Frame
  <1>5. ASSUME NEW c \in Channels PROVE log[c] \in Seq(1 .. arrived)
    BY <1>5, ElementOfSeq DEF RxType, Channels
  <1>6. ASSUME NEW c \in Channels, NEW i \in DOMAIN log[c] PROVE log[c][i] \in 1 .. arrived
    BY <1>5, <1>6, ElementOfSeq, LenProperties
  <1> QED  BY <1>1, <1>2, <1>3, <1>4, <1>5, <1>6

\* A frame that comes in is the last of all.
LEMMA ArriveStep ==
  ASSUME RxType, RxInv, NEW id \in Ids, Arrive(id)
  PROVE  RxInv'
  <1>1. UNCHANGED <<channel, rpc, frame, ri, log, overrun>>
    BY DEF Arrive
  <1>2. CASE ~(Len(rxfifo) < RxDepth)
    BY <1>1, <1>2 DEF Arrive, RxInv, FifoOrder, FrameInHand, Clean, Later, Dropping, LogOrder,
                      Given, Channels
  <1>3. CASE Len(rxfifo) < RxDepth
    <2> DEFINE new == [n |-> arrived + 1, id |-> id]
               last == Len(rxfifo) + 1
    <2>1. rxfifo' = Append(rxfifo, new)
      BY <1>3 DEF Arrive
    <2>2. /\ arrived \in Nat /\ new.n = arrived + 1 /\ new \in [n : Nat, id : Ids]
          /\ rxfifo \in Seq([n : Nat, id : Ids])
      <3>1. arrived \in Nat /\ Frame \subseteq [n : Nat, id : Ids] /\ rxfifo \in Seq(Frame)
        BY DEF RxType, Frame
      <3>2. rxfifo \in Seq([n : Nat, id : Ids])
        BY <3>1, SeqMonotonic, Zenon
      <3> QED  BY <3>1, <3>2
    <2> HIDE DEF new
    <2>3. \A k \in DOMAIN rxfifo' :
            \/ rxfifo'[k].n = arrived + 1 /\ k = last
            \/ k \in DOMAIN rxfifo /\ rxfifo'[k] = rxfifo[k]
      BY <2>1, <2>2, AppendElements
    <2>4. /\ \A k \in DOMAIN rxfifo : k < last /\ rxfifo[k].n < arrived + 1
          /\ rpc # "receive" => frame.n < arrived + 1
          /\ \A c \in Channels : \A i \in DOMAIN log[c] : log[c][i] < arrived + 1
      <3>1. \A k \in DOMAIN rxfifo : k \in Nat /\ k < last
        BY <2>2, LenProperties
      <3> QED  BY <3>1, Numbers
    <2>5. last \in Nat
      BY <2>2, LenProperties
    <2>6. \A k \in DOMAIN rxfifo : k \in Nat
      BY <2>2, LenProperties
    <2> HIDE DEF last
    <2>7. FifoOrder'
      BY <2>3, <2>4, <2>5, <2>6 DEF RxInv, FifoOrder
    <2>8. FrameInHand'
      BY <1>1, <2>3, <2>4 DEF RxInv, FrameInHand, Clean, Later
    <2>9. LogOrder'
      BY <1>1, <2>3, <2>4 DEF RxInv, LogOrder, Given, Clean, Later, Channels
    <2> QED  BY <1>1, <2>7, <2>8, <2>9 DEF RxInv, Dropping
  <1> QED  BY <1>2, <1>3

\* The frame taken is the first of those in the controller.
LEMMA ReceiveStep ==
  ASSUME RxType, RxInv, can_receive
  PROVE  RxInv'
  <1>1. UNCHANGED <<channel, log, overrun>> /\ rpc = "receive"
    BY DEF can_receive
  <1>2. CASE rxfifo = << >>
    BY <1>1, <1>2 DEF can_receive, RxInv, FifoOrder, FrameInHand, Clean, Later, Dropping, LogOrder,
                      Given, Channels
  <1>3. CASE rxfifo # << >>
    <2>1. frame' = Head(rxfifo) /\ rxfifo' = Tail(rxfifo) /\ ri' = 1 /\ rpc' = "dispatch"
      BY <1>3 DEF can_receive
    <2>2. rxfifo \in Seq(Frame)
      BY DEF RxType
    <2>3. /\ 1 \in DOMAIN rxfifo /\ frame' = rxfifo[1]
          /\ \A k \in DOMAIN rxfifo' :
               k + 1 \in DOMAIN rxfifo /\ rxfifo'[k] = rxfifo[k + 1] /\ k >= 1
      BY <1>3, <2>1, <2>2, TailElements
    <2>4. \A k \in DOMAIN rxfifo' : k \in Nat
      <3>1. rxfifo' \in Seq(Frame)
        BY <1>3, <2>1, <2>2, HeadTailProperties
      <3> QED  BY <3>1, LenProperties
    <2>5. FifoOrder'
      BY <2>3, <2>4 DEF RxInv, FifoOrder
    <2>6. \A k \in DOMAIN rxfifo' : frame'.n < rxfifo'[k].n
      BY <2>3, <2>4 DEF RxInv, FifoOrder
    <2>7. FrameInHand'
      BY <2>6 DEF FrameInHand, Later
    <2>8. \A c \in Channels : Clean(c) =>
             Increasing(log[c]) /\ \A i \in DOMAIN log[c] :
               log[c][i] < frame'.n /\ \A k \in DOMAIN rxfifo' : log[c][i] < rxfifo'[k].n
      BY <2>3 DEF RxInv, LogOrder, Given, Later
    <2>9. LogOrder'
      BY <1>1, <2>8 DEF LogOrder, Given, Clean, Later, Channels
    <2> QED  BY <2>1, <2>5, <2>7, <2>9 DEF RxInv, Dropping
  <1> QED  BY <1>2, <1>3

\* A channel is given a frame later than all it had, or overflows.
LEMMA DispatchStep ==
  ASSUME RxType, RxInv, Dispatch
  PROVE  RxInv'
  <1>1. /\ UNCHANGED <<rxfifo, channel, frame>>
        /\ rpc = "dispatch" /\ ri <= Len(channel)
    BY DEF Dispatch
  <1>2. FifoOrder'
    BY <1>1 DEF RxInv, FifoOrder
  <1>3. ri \in Nat \ {0} /\ ri \in Channels
    BY <1>1, Numbers DEF Channels
  <1>4. CASE Passes(ri, frame) /\ Len(rx_queue[ri]) = QueueSize
    <2>1. rpc' = "drop" /\ overrun' = overrun \cup {ri} /\ UNCHANGED <<log, ri>>
      BY <1>4 DEF Dispatch
    <2>2. \A c \in Channels : Clean(c)' => Clean(c)
      BY <2>1 DEF Clean
    <2>3. LogOrder'
      BY <1>1, <2>1, <2>2 DEF RxInv, LogOrder, Given, Later, Channels
    <2> QED  BY <1>2, <2>1, <2>3 DEF RxInv, FrameInHand, Dropping
  <1>5. CASE ~(Passes(ri, frame) /\ Len(rx_queue[ri]) = QueueSize)
    <2>1. ri' = ri + 1 /\ UNCHANGED <<rpc, overrun>>
      BY <1>5 DEF Dispatch
    <2>2. \A c \in Channels : Clean(c)' = Clean(c)
      BY <2>1 DEF Clean
    <2>3. Clean(ri)' => Clean(ri)
      BY <1>3, <2>1 DEF Clean
    <2>4. FrameInHand'
      BY <1>1, <2>1, <2>3 DEF RxInv, FrameInHand, Later
    <2>5. LogOrder'
      <3>1. CASE log' = log
        <4>1. \A c \in Channels : ri' <= c => ri <= c
          BY <1>3, <2>1 DEF Channels
        <4> QED  BY <1>1, <2>1, <2>2, <3>1, <4>1 DEF RxInv, LogOrder, Given, Later, Channels
      <3>2. CASE log' = [log EXCEPT ![ri] = Append(@, frame.n)]
        <4> SUFFICES ASSUME NEW c \in Channels, Clean(c)
                     PROVE  Increasing(log'[c]) /\ Given(c)'
          BY <1>1, <2>2 DEF LogOrder, Channels
        <4>1. CASE c # ri
          <5>1. log'[c] = log[c]
            BY <3>2, <4>1 DEF RxType, Channels
          <5>2. ri' <= c => ri <= c
            BY <1>3, <2>1 DEF Channels
          <5> QED  BY <1>1, <2>1, <5>1, <5>2 DEF RxInv, LogOrder, Given, Later
        <4>2. CASE c = ri
          <5>1. /\ log[c] \in Seq(1 .. arrived) /\ frame.n \in 1 .. arrived
                /\ 1 .. arrived \in SUBSET Nat
            BY <1>1, Numbers
          <5>2. log'[c] = Append(log[c], frame.n)
            <6>1. c \in DOMAIN log
              BY LenProperties DEF RxType, Channels
            <6> QED  BY <3>2, <4>2, <6>1
          <5>3. /\ Increasing(log[c]) /\ Later(frame.n)
                /\ \A i \in DOMAIN log[c] : Later(log[c][i]) /\ log[c][i] < frame.n
            BY <1>1, <1>3, <4>2 DEF RxInv, LogOrder, Given, FrameInHand
          <5>4. Increasing(log'[c])
            BY <5>1, <5>2, <5>3, AppendIncreasing
          <5>5. \A i \in DOMAIN log'[c] : Later(log'[c][i])
            <6>1. \A i \in DOMAIN log'[c] :
                    log'[c][i] = frame.n \/ (i \in DOMAIN log[c] /\ log'[c][i] = log[c][i])
              BY <5>1, <5>2, AppendElements
            <6> QED  BY <5>3, <6>1
          <5>6. ~(ri' <= c)
            BY <1>3, <2>1, <4>2
          <5> QED  BY <1>1, <5>4, <5>5, <5>6 DEF Given, Later
        <4> QED  BY <4>1, <4>2
      <3> QED  BY <1>5, <3>1, <3>2 DEF Dispatch
    <2> QED  BY <1>1, <1>2, <2>1, <2>4, <2>5 DEF RxInv, Dropping
  <1> QED  BY <1>4, <1>5

\* The old frame is offered only to channels behind one that overflowed.
LEMMA DropStep ==
  ASSUME RxType, RxInv, Drop
  PROVE  RxInv'
  <1>1. /\ UNCHANGED <<rxfifo, channel, log, overrun>>
        /\ rpc = "drop" /\ rpc' = "dispatch" /\ ri' = ri + 1
    BY DEF Drop
  <1>2. ri \in Nat \ {0} /\ ri \in overrun
    BY <1>1, Numbers DEF RxInv, Dropping
  <1>3. \A c \in Channels : ri' <= c => ~Clean(c)
    BY <1>1, <1>2 DEF Clean, Channels
  <1>4. ~Clean(ri)'
    BY <1>1, <1>2 DEF Clean
  <1>5. LogOrder'
    BY <1>1, <1>3 DEF RxInv, LogOrder, Given, Clean, Later, Channels
  <1> QED  BY <1>1, <1>4, <1>5 DEF RxInv, FifoOrder, FrameInHand, Dropping

LEMMA OpenStep ==
  ASSUME RxType, RxInv, can_open
  PROVE  RxInv'
  <1>1. /\ UNCHANGED <<rxfifo, rpc, frame, ri, overrun>>
        /\ channel' = Append(channel, [low |-> 0, high |-> MaxId]) /\ log' = Append(log, << >>)
    BY DEF can_open
  <1>2. Len(channel) \in Nat /\ Len(channel') = Len(channel) + 1
    BY <1>1, LenProperties DEF RxType
  <1>3. /\ \A c \in Channels : log'[c] = log[c]
        /\ log'[Len(channel) + 1] = << >>
    <2>1. log \in Seq(Seq(1 .. arrived)) /\ Len(log) = Len(channel) /\ << >> \in Seq(1 .. arrived)
      BY DEF RxType
    <2> QED  BY <1>1, <2>1, AppendProperties DEF Channels
  <1>4. ASSUME NEW c \in Channels', Clean(c) PROVE Increasing(log'[c]) /\ Given(c)'
    <2>1. CASE c \in Channels
      BY <1>1, <1>3, <1>4, <2>1 DEF RxInv, LogOrder, Given, Later
    <2>2. CASE c = Len(channel) + 1
      <3>1. DOMAIN log'[c] = {}
        BY <1>3, <2>2
      <3> QED  BY <3>1 DEF Increasing, Given
    <2> QED  BY <1>2, <2>1, <2>2 DEF Channels
  <1>5. LogOrder'
    BY <1>1, <1>4 DEF LogOrder, Clean
  <1> QED  BY <1>1, <1>5 DEF RxInv, FifoOrder, FrameInHand, Clean, Dropping, Later

LEMMA RxStep ==
  ASSUME RxType, RxInv, RxAction
  PROVE  RxInv'
  <1>1. CASE UNCHANGED <<rxfifo, rpc, frame, ri, log, overrun>> /\ Len(channel') = Len(channel)
    BY <1>1 DEF RxInv, FifoOrder, FrameInHand, Clean, Later, Dropping, LogOrder, Given, Channels
  <1>2. CASE DispatchEnd
    BY <1>2 DEF DispatchEnd, RxInv, FifoOrder, FrameInHand, Clean, Later, Dropping, LogOrder,
                Given, Channels
  <1>3. ASSUME NEW c \in Channels, NEW id \in Ids,
               \/ can_ioctl_set_rx_filter_id_low(c, id)
               \/ can_ioctl_set_rx_filter_id_high(c, id)
        PROVE  UNCHANGED <<rxfifo, rpc, frame, ri, log, overrun>> /\ Len(channel') = Len(channel)
    <2>1. UNCHANGED <<rxfifo, rpc, frame, ri, log, overrun>>
      BY <1>3 DEF can_ioctl_set_rx_filter_id_low, can_ioctl_set_rx_filter_id_high
    <2>2. /\ channel \in Seq([low : Ids \cup {0}, high : Ids]) /\ RxType'
          /\ UNCHANGED <<log>>
      BY <1>3, <2>1, RxTypeStep DEF RxType, RxAction
    <2> QED  BY <2>1, <2>2 DEF RxType
  <1>4. HandleRF0N \/ HandleHAL \/ (\E c \in Channels : can_read(c)) \/ UNCHANGED rxvars
        => UNCHANGED <<rxfifo, rpc, frame, ri, log, overrun>> /\ Len(channel') = Len(channel)
    BY DEF HandleRF0N, HandleHAL, can_read, rxvars
  <1> QED  BY <1>1, <1>2, <1>3, <1>4, ArriveStep, ReceiveStep, DispatchStep, DropStep, OpenStep
           DEF RxAction

-----------------------------------------------------------------------------
(* Theorems *)

LEMMA Initially == Init => IInv
  <1> SUFFICES ASSUME Init PROVE IInv
    OBVIOUS
  <1> USE DEF Init
  <1>0. 0 <= RxDepth /\ 0 <= TxDepth /\ 0 <= QueueSize /\ 0 <= MAX_CHANNELS /\ 0 \in Nat
    BY CanAssumption
  <1>1. /\ << >> \in Seq(Frame) /\ << >> \in Seq(Seq(Frame)) /\ << >> \in Seq(Written)
        /\ << >> \in Seq(Seq(1 .. arrived)) /\ << >> \in Seq([low : Ids \cup {0}, high : Ids])
        /\ Len(<< >>) = 0
    OBVIOUS
  <1>2. RxType
    <2>1. Channels = {} /\ 1 \in 1 .. Len(channel) + 1 /\ filters \in 0 .. bound.filters
      BY CanAssumption DEF Channels
    <2>2. bound \in Bounds /\ ri \in 1 .. Len(channel) + 1
      BY <2>1
    <2>3. IF rpc = "receive" THEN frame = NoFrame ELSE frame \in Frame
      OBVIOUS
    <2> QED  BY <1>1, <1>0, <2>1, <2>2, <2>3, Zenon DEF RxType
  <1>3. TxType
    <2>1. calls \in [Writers -> {"idle", "send"}]
      OBVIOUS
    <2>2. written \in Nat /\ tx_sem \in {0, 1} /\ TC \in BOOLEAN
      OBVIOUS
    <2> QED  BY <1>1, <1>0, <2>1, <2>2, Zenon DEF TxType
  <1>4. RxInv
    BY DEF RxInv, FifoOrder, FrameInHand, Dropping, LogOrder, Channels
  <1>5. RxBacklog
    BY <1>1 DEF RxBacklog
  <1>6. TxInv
    BY DEF TxInv, Increasing, Before, WframeOrder
  <1> QED  BY <1>2, <1>3, <1>4, <1>5, <1>6 DEF IInv

LEMMA Inductive == IInv /\ [Next]_vars => IInv'
  <1> SUFFICES ASSUME IInv, [Next]_vars PROVE IInv'
    OBVIOUS
  <1>1. RxAction /\ TxAction
    BY NextRxAction, NextTxAction
  <1>2. RxType' /\ RxInv' /\ RxBacklog'
    BY <1>1, RxTypeStep, RxStep, BacklogStep DEF IInv
  <1>3. TxType' /\ TxInv'
    BY <1>1, TxTypeStep, TxStep DEF IInv
  <1>4. ERR' \in BOOLEAN /\ isr' \in {"none", "hal"}
    <2> USE DEF IInv, irqvars
    <2>1. ASSUME NEW id \in Ids, Arrive(id) PROVE ERR' \in BOOLEAN /\ isr' \in {"none", "hal"}
      BY <2>1, Zenon DEF Arrive
    <2>2. CASE can_it_handler
      BY <2>2, Zenon DEF can_it_handler, HandleTC, HandleRF0N, HandleOther, HandleHAL
    <2>3. CASE NotAcknowledged
      BY <2>3, Zenon DEF NotAcknowledged
    <2>4. CASE Sent
      BY <2>4 DEF Sent
    <2>5. CASE Threads \/ UNCHANGED vars
      BY <2>5 DEF Threads, vars
    <2> QED  BY <2>1, <2>2, <2>3, <2>4, <2>5 DEF Next, ReadThread, WriteThread, App, can_write
  <1> QED  BY <1>2, <1>3, <1>4 DEF IInv

THEOREM Invariance == Spec => []IInv
  BY Initially, Inductive, PTL DEF Spec

(***************************************************************************)
(* can_open, can_read_thread, can_write_thread and can_it_handler keep the *)
(* driver's state well formed: every queue within its size, never more     *)
(* channels than the array holds, the loop index of the read thread on a   *)
(* registered channel.                                                     *)
(***************************************************************************)
THEOREM TypeCorrect == Spec => []TypeOK
  <1>1. IInv => TypeOK
    BY DEF IInv, TypeOK
  <1> QED  BY <1>1, Invariance, PTL

(***************************************************************************)
(* A channel behind no channel that overflowed is given frames in the      *)
(* order in which they came in, and none twice, however the loop of        *)
(* can_read_thread (can.c:225-250) meets interrupts, filters and readers.  *)
(***************************************************************************)
THEOREM ReceivedInOrder == Spec => []RxOrder
  <1>1. IInv => RxOrder
    BY DEF IInv, RxInv, LogOrder, Clean, RxOrder
  <1> QED  BY <1>1, Invariance, PTL

(***************************************************************************)
(* can_receive takes one frame for each token (can.c:183-192); what stays  *)
(* in the controller is never more than the interrupts that woke nobody.   *)
(***************************************************************************)
THEOREM BacklogAccounted == Spec => []RxBacklog
  <1>1. IInv => RxBacklog
    BY DEF IInv
  <1> QED  BY <1>1, Invariance, PTL

(***************************************************************************)
(* Whatever time-outs and late completions do to can_transmit, frames go   *)
(* out in the order of the write calls, and none goes out twice.           *)
(***************************************************************************)
THEOREM SentInOrder == Spec => []TxOrder
  <1>1. IInv => TxOrder
    BY DEF IInv, TxInv, TxOrder
  <1> QED  BY <1>1, Invariance, PTL
=============================================================================
