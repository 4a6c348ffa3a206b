-------------------------------- MODULE Can --------------------------------
(***************************************************************************)
(* bsp/mcu/periph/can/stm32/can.c: one CAN interface.  Its interrupt       *)
(* handler, its read thread and its write thread run beside the threads    *)
(* that open channels on it, set their filters, write and read.            *)
(*                                                                         *)
(* The controller (FDCAN) is modelled by what the driver sees of it: a     *)
(* receive FIFO, a transmit FIFO and two interrupt flags.  A frame is its  *)
(* identifier and the order in which it was received or written.  tx_mutex *)
(* and rx_mutex are left out: the write thread is the only caller of       *)
(* can_transmit and the read thread the only caller of can_receive.        *)
(***************************************************************************)
EXTENDS Naturals, Sequences

CONSTANTS
  Ids,           \* frame identifiers, a set of numbers
  MAX_CHANNELS,  \* CAN_MAX_CHANNELS
  QueueSize,     \* cfg->queue_size
  RxDepth,       \* elements of the controller's receive FIFO
  TxDepth,       \* elements of the controller's transmit FIFO
  Writers,       \* the threads that call can_write
  Bounds         \* the bounds of the model: frames the bus brings, frames the
                 \* application writes, times a receive filter is moved

ASSUME CanAssumption ==
  /\ Ids \subseteq Nat /\ \E m \in Ids : \A i \in Ids : i <= m
  /\ {MAX_CHANNELS, QueueSize, RxDepth, TxDepth} \subseteq Nat \ {0}
  /\ Bounds \subseteq [frames : Nat, writes : Nat, filters : Nat]

VARIABLES
  \* the controller
  rxfifo, txfifo,
  RF0N, TC,      \* interrupt flags: new frame received, transmission complete
  ERR,         \* any other flag: receive FIFO full or overrun, a bus error
  isr,           \* the handler: "none", or "hal" on its way into HAL_FDCAN_IRQHandler
  \* the driver
  rx_sem, tx_sem,
  channel,       \* cfg->p.channel: the registered channels, as a sequence
  rx_queue,      \* of each registered channel
  tx_queue,
  rpc, frame, ri,  \* read thread: where it is, its local frame, its loop index
  wpc, wframe,   \* write thread
  \* the application
  calls,         \* of each writer: "idle", or "send" inside can_write
  \* what has happened, for the properties
  filters,       \* how often a filter was moved
  arrived, written,  \* how many frames the bus brought, the application wrote
  log,           \* of each channel: the frames put into its queue, in order
  overrun,       \* the channels whose queue was ever full at a dispatch
  merged,        \* receive interrupts that woke nobody of their own
  wire,          \* the frames that went out on the bus
  bound          \* the bounds of this behaviour

rxvars == <<rxfifo, RF0N, rx_sem, channel, rx_queue, rpc, frame, ri,
            filters, arrived, log, overrun, merged>>
txvars == <<txfifo, TC, tx_sem, tx_queue, wpc, wframe, calls, written, wire>>
irqvars == <<ERR, isr, bound>>
vars == <<rxvars, txvars, irqvars>>

MaxId == CHOOSE m \in Ids : \A i \in Ids : i <= m
NoFrame == [n |-> 0, id |-> 0]

Init ==
  /\ rxfifo = << >> /\ txfifo = << >>
  /\ RF0N = FALSE /\ TC = FALSE /\ ERR = FALSE /\ isr = "none"
  /\ rx_sem = 0 /\ tx_sem = 0
  /\ channel = << >> /\ rx_queue = << >> /\ tx_queue = << >>
  /\ rpc = "receive" /\ frame = NoFrame /\ ri = 1
  /\ wpc = "take" /\ wframe = 0
  /\ calls = [w \in Writers |-> "idle"]
  /\ filters = 0 /\ arrived = 0 /\ written = 0
  /\ log = << >> /\ overrun = {} /\ merged = 0
  /\ wire = << >>
  /\ bound \in Bounds

-----------------------------------------------------------------------------
(* The controller *)

\* A frame comes in; a full FIFO loses it.
Arrive(id) ==
  /\ arrived < bound.frames
  /\ arrived' = arrived + 1
  /\ IF Len(rxfifo) < RxDepth
     THEN /\ rxfifo' = Append(rxfifo, [n |-> arrived + 1, id |-> id])
          /\ RF0N' = TRUE
          /\ merged' = IF RF0N THEN merged + 1 ELSE merged
     ELSE UNCHANGED <<rxfifo, RF0N, merged>>
  /\ ERR' = (ERR \/ Len(rxfifo) + 1 >= RxDepth)
  /\ UNCHANGED <<isr, bound>>
  /\ UNCHANGED <<rx_sem, channel, rx_queue, rpc, frame, ri, filters, log, overrun, txvars>>

\* The frame at the head goes out.  Retransmission is disabled (can_cfg.c:14):
\* a frame nobody acknowledges is gone, and raises no TC.
Sent ==
  /\ txfifo # << >>
  /\ wire' = Append(wire, Head(txfifo))
  /\ txfifo' = Tail(txfifo)
  /\ TC' = TRUE
  /\ UNCHANGED irqvars
  /\ UNCHANGED <<tx_sem, tx_queue, wpc, wframe, calls, written, rxvars>>

NotAcknowledged ==
  /\ txfifo # << >>
  /\ txfifo' = Tail(txfifo)
  /\ ERR' = TRUE
  /\ UNCHANGED <<isr, bound>>
  /\ UNCHANGED <<TC, tx_sem, tx_queue, wpc, wframe, calls, written, wire, rxvars>>

-----------------------------------------------------------------------------
(* can_it_handler.  The handler looks at the flags once and serves one of   *)
(* them; it runs again for those that are left.                             *)

HandleTC ==
  /\ isr = "none" /\ TC
  /\ TC' = FALSE
  /\ tx_sem' = 1
  /\ UNCHANGED <<txfifo, tx_queue, wpc, wframe, calls, written, wire, rxvars, irqvars>>

HandleRF0N ==
  /\ isr = "none" /\ ~TC /\ RF0N
  /\ RF0N' = FALSE
  /\ rx_sem' = 1
  /\ merged' = merged + rx_sem
  /\ UNCHANGED <<rxfifo, channel, rx_queue, rpc, frame, ri, filters, arrived, log, overrun, txvars, irqvars>>

HandleOther ==
  /\ isr = "none" /\ ~TC /\ ~RF0N /\ ERR
  /\ isr' = "hal"
  /\ UNCHANGED <<ERR, bound, rxvars, txvars>>

\* HAL_FDCAN_IRQHandler reads the flags again and clears all it finds: a frame
\* or a completion that came in since the first look wakes nobody.
HandleHAL ==
  /\ isr = "hal"
  /\ isr' = "none"
  /\ ERR' = FALSE /\ RF0N' = FALSE /\ TC' = FALSE
  /\ merged' = IF RF0N THEN merged + 1 ELSE merged
  /\ UNCHANGED <<rxfifo, rx_sem, channel, rx_queue, rpc, frame, ri, filters, arrived, log, overrun>>
  /\ UNCHANGED <<bound, txfifo, tx_sem, tx_queue, wpc, wframe, calls, written, wire>>

can_it_handler == HandleTC \/ HandleRF0N \/ HandleOther \/ HandleHAL

\* Threads run while no handler does.
Threads == isr = "none" /\ UNCHANGED irqvars

-----------------------------------------------------------------------------
(* can_read_thread *)

\* Mutant: as in can_transmit, a token that is there already is thrown away.
can_receive_Draining ==
  /\ rpc = "receive"
  /\ rx_sem = 1
  /\ rx_sem' = 0
  /\ UNCHANGED <<rxfifo, rpc, frame, ri>>
  /\ UNCHANGED <<RF0N, channel, rx_queue, filters, arrived, log, overrun, merged, txvars>>

\* can_receive: one frame is taken from the FIFO for each token of rx_sem.
can_receive ==
  /\ rpc = "receive"
  /\ rx_sem = 1
  /\ rx_sem' = 0
  /\ IF rxfifo = << >>
     THEN UNCHANGED <<rxfifo, rpc, frame, ri>>
     ELSE /\ frame' = Head(rxfifo)
          /\ rxfifo' = Tail(rxfifo)
          /\ ri' = 1
          /\ rpc' = "dispatch"
  /\ UNCHANGED <<RF0N, channel, rx_queue, filters, arrived, log, overrun, merged, txvars>>

Passes(c, f) == channel[c].low <= f.id /\ channel[c].high >= f.id

\* Mutant: the thread waits for room in the queue of a channel nobody reads.
DispatchWaiting ==
  /\ rpc = "dispatch"
  /\ ri <= Len(channel)
  /\ Passes(ri, frame) => Len(rx_queue[ri]) < QueueSize
  /\ IF Passes(ri, frame)
     THEN /\ rx_queue' = [rx_queue EXCEPT ![ri] = Append(@, frame)]
          /\ log' = [log EXCEPT ![ri] = Append(@, frame.n)]
     ELSE UNCHANGED <<rx_queue, log>>
  /\ ri' = ri + 1
  /\ UNCHANGED <<rxfifo, RF0N, rx_sem, channel, rpc, frame, filters, arrived, overrun, merged, txvars>>

\* xQueueSend without waiting, for each channel that wants the frame.
Dispatch ==
  /\ rpc = "dispatch"
  /\ ri <= Len(channel)
  /\ IF Passes(ri, frame) /\ Len(rx_queue[ri]) = QueueSize
     THEN /\ rpc' = "drop"
          /\ overrun' = overrun \cup {ri}
          /\ UNCHANGED <<rx_queue, log, ri>>
     ELSE /\ IF Passes(ri, frame)
             THEN /\ rx_queue' = [rx_queue EXCEPT ![ri] = Append(@, frame)]
                  /\ log' = [log EXCEPT ![ri] = Append(@, frame.n)]
             ELSE UNCHANGED <<rx_queue, log>>
          /\ ri' = ri + 1
          /\ UNCHANGED <<rpc, overrun>>
  /\ UNCHANGED <<rxfifo, RF0N, rx_sem, channel, frame, filters, arrived, merged, txvars>>

\* Mutant: having made room, the thread offers the channel the frame again.
DropThenRetry ==
  /\ rpc = "drop"
  /\ rx_queue[ri] # << >>
  /\ frame' = Head(rx_queue[ri])
  /\ rx_queue' = [rx_queue EXCEPT ![ri] = Tail(@)]
  /\ rpc' = "dispatch"
  /\ UNCHANGED <<rxfifo, RF0N, rx_sem, channel, ri, filters, arrived, log, overrun, merged, txvars>>

\* The queue was full, so the new frame is not queued; the oldest one is taken
\* out, into the very variable that holds the frame the remaining channels are
\* offered.  xQueueReceive waits for ever: when the channel's reader has
\* emptied the queue meanwhile, nothing wakes this thread, the only one that
\* sends to the queue.
Drop ==
  /\ rpc = "drop"
  /\ rx_queue[ri] # << >>
  /\ frame' = Head(rx_queue[ri])
  /\ rx_queue' = [rx_queue EXCEPT ![ri] = Tail(@)]
  /\ ri' = ri + 1
  /\ rpc' = "dispatch"
  /\ UNCHANGED <<rxfifo, RF0N, rx_sem, channel, filters, arrived, log, overrun, merged, txvars>>

DispatchEnd ==
  /\ rpc = "dispatch"
  /\ ri > Len(channel)
  /\ rpc' = "receive"
  /\ frame' = NoFrame
  /\ ri' = 1
  /\ UNCHANGED <<rxfifo, RF0N, rx_sem, channel, rx_queue, filters, arrived, log, overrun, merged, txvars>>

ReadThread == Threads /\ (can_receive \/ Dispatch \/ Drop \/ DispatchEnd)

-----------------------------------------------------------------------------
(* can_write_thread *)

WTake ==
  /\ wpc = "take"
  /\ tx_queue # << >>
  /\ wframe' = Head(tx_queue)
  /\ tx_queue' = Tail(tx_queue)
  /\ wpc' = "drain"
  /\ UNCHANGED <<txfifo, TC, tx_sem, calls, written, wire, rxvars>>

\* can_transmit throws away a token that an earlier frame left behind ...
TransmitDrain ==
  /\ wpc = "drain"
  /\ tx_sem' = 0
  /\ wpc' = "start"
  /\ UNCHANGED <<txfifo, TC, tx_queue, wframe, calls, written, wire, rxvars>>

\* ... hands the frame to the controller; a full FIFO refuses it, and the
\* frame is gone ...
TransmitStart ==
  /\ wpc = "start"
  /\ IF Len(txfifo) < TxDepth
     THEN /\ txfifo' = Append(txfifo, wframe)
          /\ wpc' = "wait"
          /\ UNCHANGED wframe
     ELSE /\ wpc' = "take"
          /\ wframe' = 0
          /\ UNCHANGED txfifo
  /\ UNCHANGED <<TC, tx_sem, tx_queue, calls, written, wire, rxvars>>

\* ... and waits for a token, its own or a late one.
TransmitDone ==
  /\ wpc = "wait"
  /\ tx_sem = 1
  /\ tx_sem' = 0
  /\ wpc' = "take"
  /\ wframe' = 0
  /\ UNCHANGED <<txfifo, TC, tx_queue, calls, written, wire, rxvars>>

\* Mutant: a frame that timed out is sent again.
TransmitTimeoutRetry ==
  /\ wpc = "wait"
  /\ tx_sem = 0
  /\ wpc' = "drain"
  /\ UNCHANGED <<txfifo, TC, tx_sem, tx_queue, wframe, calls, written, wire, rxvars>>

\* Mutant: the write thread waits for the completion for ever.
TransmitTimeoutNever ==
  /\ FALSE
  /\ UNCHANGED vars

TransmitTimeout ==
  /\ wpc = "wait"
  /\ tx_sem = 0
  /\ wpc' = "take"
  /\ wframe' = 0
  /\ UNCHANGED <<txfifo, TC, tx_sem, tx_queue, calls, written, wire, rxvars>>

can_transmit == TransmitDrain \/ TransmitStart \/ TransmitDone \/ TransmitTimeout
WriteThread == Threads /\ (WTake \/ can_transmit)

-----------------------------------------------------------------------------
(* The application's calls *)

\* Mutant: the bound of the scan in can_open (can.c:277) is taken for the bound
\* of the array.
can_open_OffByOne ==
  /\ Len(channel) <= MAX_CHANNELS
  /\ channel' = Append(channel, [low |-> 0, high |-> MaxId])
  /\ rx_queue' = Append(rx_queue, << >>)
  /\ log' = Append(log, << >>)
  /\ UNCHANGED <<rxfifo, RF0N, rx_sem, rpc, frame, ri, filters, arrived, overrun, merged, txvars>>

\* Registration happens under channel_mutex, and the read thread sees it
\* through one pointer.  A call that finds no free slot fails and registers
\* nothing.  can_close is not implemented: a channel stays.
can_open ==
  /\ Len(channel) < MAX_CHANNELS
  /\ channel' = Append(channel, [low |-> 0, high |-> MaxId])
  /\ rx_queue' = Append(rx_queue, << >>)
  /\ log' = Append(log, << >>)
  /\ UNCHANGED <<rxfifo, RF0N, rx_sem, rpc, frame, ri, filters, arrived, overrun, merged, txvars>>

\* CAN_IOCTL_SET_RX_FILTER_ID is the first followed by the second, with
\* nothing to keep the read thread out in between.
can_ioctl_set_rx_filter_id_low(c, id) ==
  /\ filters < bound.filters
  /\ filters' = filters + 1
  /\ channel' = [channel EXCEPT ![c].low = id]
  /\ UNCHANGED <<rxfifo, RF0N, rx_sem, rx_queue, rpc, frame, ri, arrived, log, overrun, merged, txvars>>

can_ioctl_set_rx_filter_id_high(c, id) ==
  /\ filters < bound.filters
  /\ filters' = filters + 1
  /\ channel' = [channel EXCEPT ![c].high = id]
  /\ UNCHANGED <<rxfifo, RF0N, rx_sem, rx_queue, rpc, frame, ri, arrived, log, overrun, merged, txvars>>

can_read(c) ==
  /\ rx_queue[c] # << >>
  /\ rx_queue' = [rx_queue EXCEPT ![c] = Tail(@)]
  /\ UNCHANGED <<rxfifo, RF0N, rx_sem, channel, rpc, frame, ri, filters, arrived, log, overrun, merged, txvars>>

\* can_write blocks in xQueueSend for as long as the queue is full.
CallWrite(w) ==
  /\ calls[w] = "idle"
  /\ written < bound.writes
  /\ calls' = [calls EXCEPT ![w] = "send"]
  /\ UNCHANGED <<txfifo, TC, tx_sem, tx_queue, wpc, wframe, written, wire, rxvars>>

can_write(w) ==
  /\ Threads
  /\ calls[w] = "send"
  /\ Len(tx_queue) < QueueSize
  /\ tx_queue' = Append(tx_queue, written + 1)
  /\ written' = written + 1
  /\ calls' = [calls EXCEPT ![w] = "idle"]
  /\ UNCHANGED <<txfifo, TC, tx_sem, wpc, wframe, wire, rxvars>>

Channels == 1 .. Len(channel)

App ==
  /\ Threads
  /\ \/ can_open
     \/ \E c \in Channels, id \in Ids :
          \/ can_ioctl_set_rx_filter_id_low(c, id)
          \/ can_ioctl_set_rx_filter_id_high(c, id)
     \/ \E c \in Channels : can_read(c)
     \/ \E w \in Writers : CallWrite(w)

Next ==
  \/ \E id \in Ids : Arrive(id)
  \/ Sent \/ NotAcknowledged
  \/ can_it_handler
  \/ ReadThread
  \/ WriteThread
  \/ App
  \/ \E w \in Writers : can_write(w)

Spec == Init /\ [][Next]_vars

\* Interrupts and the two threads of the driver run; a thread inside
\* xQueueSend is woken when there is room (strongly fair: another writer may
\* take the room first, and FreeRTOS wakes the blocked ones in turn).
\* Nothing makes the bus acknowledge, or the application call.
FairSpec ==
  /\ Spec
  /\ WF_vars(can_it_handler)
  /\ WF_vars(ReadThread)
  /\ WF_vars(WriteThread)
  /\ \A w \in Writers : SF_vars(can_write(w))

-----------------------------------------------------------------------------
(* Properties *)

\* Only frames that arrived are received, and only frames that were written are sent.
Frame == [n : 1 .. arrived, id : Ids]
Written == 1 .. written

RxType ==
  /\ arrived \in Nat /\ merged \in Nat
  /\ rxfifo \in Seq(Frame) /\ Len(rxfifo) <= RxDepth
  /\ RF0N \in BOOLEAN /\ rx_sem \in {0, 1}
  /\ channel \in Seq([low : Ids \cup {0}, high : Ids]) /\ Len(channel) <= MAX_CHANNELS
  /\ rx_queue \in Seq(Seq(Frame)) /\ Len(rx_queue) = Len(channel)
  /\ \A c \in Channels : Len(rx_queue[c]) <= QueueSize
  /\ log \in Seq(Seq(1 .. arrived)) /\ Len(log) = Len(channel)
  /\ rpc \in {"receive", "dispatch", "drop"}
  /\ IF rpc = "receive" THEN frame = NoFrame ELSE frame \in Frame
  /\ ri \in 1 .. Len(channel) + 1 /\ (rpc = "drop" => ri \in Channels)
  /\ bound \in Bounds /\ filters \in 0 .. bound.filters

TxType ==
  /\ written \in Nat
  /\ txfifo \in Seq(Written) /\ Len(txfifo) <= TxDepth
  /\ TC \in BOOLEAN /\ tx_sem \in {0, 1}
  /\ tx_queue \in Seq(Written) /\ Len(tx_queue) <= QueueSize
  /\ wpc \in {"take", "drain", "start", "wait"}
  /\ IF wpc = "take" THEN wframe = 0 ELSE wframe \in Written
  /\ wire \in Seq(Written)
  /\ calls \in [Writers -> {"idle", "send"}]

TypeOK ==
  /\ RxType /\ TxType
  /\ ERR \in BOOLEAN /\ isr \in {"none", "hal"}

Increasing(s) == \A i, j \in DOMAIN s : i < j => s[i] < s[j]

\* A channel is given frames in the order they arrived and no frame twice, as
\* long as no channel registered before it has overflowed.  After such an
\* overflow it may be handed an old frame in place of the new one
\* (can.c:234-240).
RxOrder ==
  \A c \in Channels : (\A b \in 1 .. c - 1 : b \notin overrun) => Increasing(log[c])

\* Frames leave in the order in which the write calls queued them and none
\* leaves twice, whatever timeouts and late completions do to can_transmit.
TxOrder == Increasing(wire)

\* Frames left in the controller while the read thread sleeps are accounted
\* for: each of them came with an interrupt that found the flag or the
\* semaphore already set, or that HAL_FDCAN_IRQHandler swallowed (can.c:183-192
\* takes one frame for each token).
RxBacklog ==
  Len(rxfifo) <= merged + rx_sem + (IF RF0N THEN 1 ELSE 0)

\* A write call returns even when nothing on the bus acknowledges: the
\* timeout of can_transmit keeps the queue moving.
WriteReturns == \A w \in Writers : calls[w] = "send" ~> calls[w] = "idle"

\* The read thread comes back for the next frame, unless a reader emptied the
\* full queue between its failed send and its receive (can.c:234, 240): then it
\* waits in the receive for ever.
ReadThreadReturns ==
  rpc # "receive" ~> \/ rpc = "receive"
                     \/ rpc = "drop" /\ rx_queue[ri] = << >>
=============================================================================
