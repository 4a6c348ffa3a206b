------------------------------ MODULE RingBuf ------------------------------
(***************************************************************************)
(* os/freertos/services/misc/ring_buf.c: the byte buffer between the tasks *)
(* of a driver and the application.  Any number of threads call            *)
(* ring_buf_write; one thread calls ring_buf_read or ring_buf_read_timeout.*)
(*                                                                         *)
(* One action is one stretch of code between two points where another      *)
(* thread can matter.  ring_buf_get_free_size and ring_buf_get_data_size   *)
(* take and give rw_mutex around one load, so each is a single action that *)
(* needs the mutex free.  "count += n" and "count -= n" are a load and a   *)
(* store (wreg and rreg hold the loaded value between the two).            *)
(* Pointers are offsets from start_ptr; after a copy that ends exactly at  *)
(* the end of the storage they stand at Size, not at 0, as in the code.    *)
(* A local variable whose value is dead is set back to its initial value.  *)
(***************************************************************************)
EXTENDS Integers, Sequences

CONSTANTS
  Size,       \* ring_buf->size
  Byte,       \* what a cell of the storage may hold
  Messages,   \* what a caller may pass to ring_buf_write
  ReadLens,   \* the lengths a caller may pass to ring_buf_read
  Writers,    \* the threads that call ring_buf_write
  Reader,     \* the thread that calls ring_buf_read
  None        \* "the mutex is free"

ASSUME SizeAssumption == Size \in Nat \ {0}
ASSUME DataAssumption ==
  0 \in Byte /\ Messages \subseteq Seq(Byte) /\ ReadLens \subseteq Nat
ASSUME ThreadAssumption == Reader \notin Writers /\ None \notin Writers \cup {Reader}

VARIABLES
  mem,         \* the storage at start_ptr
  write_ptr, read_ptr, count,
  cont_mutex,  \* the writer that holds it, or None
  rw_mutex,    \* the thread that holds it, or None
  r_sem,       \* given by the reader: "there is room"
  w_sem,       \* given by a writer: "there is data"
  wpc,         \* where each writer is in ring_buf_write
  buf,         \* the bytes of its message each writer has not copied yet
  t_length,    \* each writer's local of that name
  wreg,        \* count, as loaded by a writer that is about to store it
  rpc,         \* where the reader is in ring_buf_read
  length,      \* the reader's local of that name
  timed,       \* TRUE while the reader is in a read with a finite timeout
  data_size,   \* the reader's local of that name
  rreg,        \* count, as loaded by the reader about to store it
  out          \* the caller's buffer, as the latest read filled it

shared == <<mem, write_ptr, read_ptr, count>>
locks  == <<cont_mutex, rw_mutex, r_sem, w_sem>>
wvars  == <<wpc, buf, t_length, wreg>>
rvars  == <<rpc, length, timed, data_size, rreg, out>>
vars   == <<shared, locks, wvars, rvars>>

-----------------------------------------------------------------------------

MIN(a, b) == IF a < b THEN a ELSE b

\* What the two memcpy calls of ring_buf_write leave in the storage when n
\* bytes of src go in at offset p, min of them before its end.
Stored(p, src, n, min) ==
  [k \in 0 .. Size - 1 |->
     IF p <= k /\ k < p + min THEN src[k - p + 1]
     ELSE IF k < n - min THEN src[min + k + 1]
     ELSE mem[k]]

\* What the two memcpy calls of ring_buf_read leave in the caller's buffer.
Loaded(p, n, min) ==
  [i \in 1 .. n |-> IF i <= min THEN mem[p + i - 1] ELSE mem[i - min - 1]]

\* Where the code leaves a pointer that stood at p after n bytes.
Advanced(p, n, min) == IF n > min THEN n - min ELSE p + min

Init ==
  /\ mem = [k \in 0 .. Size - 1 |-> 0]
  /\ write_ptr = 0 /\ read_ptr = 0 /\ count = 0
  /\ cont_mutex = None /\ rw_mutex = None
  /\ r_sem = 0 /\ w_sem = 0
  /\ wpc = [w \in Writers |-> "idle"]
  /\ buf = [w \in Writers |-> << >>]
  /\ t_length = [w \in Writers |-> 0]
  /\ wreg = 0
  /\ rpc = "idle" /\ length = 0 /\ timed = FALSE
  /\ data_size = 0 /\ rreg = 0 /\ out = << >>

-----------------------------------------------------------------------------
(* ring_buf_write *)

WCall(w, m) ==
  /\ wpc[w] = "idle"
  /\ wpc' = [wpc EXCEPT ![w] = "enter"]
  /\ buf' = [buf EXCEPT ![w] = m]
  /\ UNCHANGED <<shared, locks, t_length, wreg, rvars>>

\* Mutant: writers are not serialised by cont_mutex.
WEnterUnserialised(w) ==
  /\ wpc[w] = "enter"
  /\ cont_mutex' = w
  /\ wpc' = [wpc EXCEPT ![w] = "loop"]
  /\ UNCHANGED <<shared, rw_mutex, r_sem, w_sem, buf, t_length, wreg, rvars>>

WEnter(w) ==
  /\ wpc[w] = "enter"
  /\ cont_mutex = None
  /\ cont_mutex' = w
  /\ wpc' = [wpc EXCEPT ![w] = "loop"]
  /\ UNCHANGED <<shared, rw_mutex, r_sem, w_sem, buf, t_length, wreg, rvars>>

\* Mutant: the writer waits until all that is left of the message fits.
WGetFreeSizeForAll(w) ==
  /\ wpc[w] = "loop"
  /\ buf[w] # << >>
  /\ rw_mutex = None
  /\ t_length' = [t_length EXCEPT ![w] = MIN(Size - count, Len(buf[w]))]
  /\ wpc' = [wpc EXCEPT ![w] = IF Size - count < Len(buf[w]) THEN "wait" ELSE "lock"]
  /\ UNCHANGED <<shared, locks, buf, wreg, rvars>>

\* The heads of both loops: leave when nothing is left, else ask for room.
WGetFreeSize(w) ==
  /\ wpc[w] = "loop"
  /\ buf[w] # << >>
  /\ rw_mutex = None
  /\ LET free == Size - count
     IN  /\ t_length' = [t_length EXCEPT ![w] = MIN(free, Len(buf[w]))]
         /\ wpc' = [wpc EXCEPT ![w] = IF free = 0 THEN "wait" ELSE "lock"]
  /\ UNCHANGED <<shared, locks, buf, wreg, rvars>>

WWait(w) ==
  /\ wpc[w] = "wait"
  /\ r_sem = 1
  /\ r_sem' = 0
  /\ wpc' = [wpc EXCEPT ![w] = "loop"]
  /\ UNCHANGED <<shared, cont_mutex, rw_mutex, w_sem, buf, t_length, wreg, rvars>>

WLock(w) ==
  /\ wpc[w] = "lock"
  /\ rw_mutex = None
  /\ rw_mutex' = w
  /\ wpc' = [wpc EXCEPT ![w] = "copy"]
  /\ UNCHANGED <<shared, cont_mutex, r_sem, w_sem, buf, t_length, wreg, rvars>>

WCopy(w) ==
  /\ wpc[w] = "copy"
  /\ LET n   == t_length[w]
         min == MIN(n, Size - write_ptr)
     IN  /\ mem' = Stored(write_ptr, buf[w], n, min)
         /\ write_ptr' = Advanced(write_ptr, n, min)
  /\ wreg' = count
  /\ wpc' = [wpc EXCEPT ![w] = "store"]
  /\ UNCHANGED <<read_ptr, count, locks, buf, t_length, rvars>>

\* Mutant: the reader is not told that there is data.
WStoreSilent(w) ==
  /\ wpc[w] = "store"
  /\ count' = wreg + t_length[w]
  /\ buf' = [buf EXCEPT ![w] = SubSeq(@, t_length[w] + 1, Len(@))]
  /\ rw_mutex' = None
  /\ wpc' = [wpc EXCEPT ![w] = "loop"]
  /\ t_length' = [t_length EXCEPT ![w] = 0]
  /\ wreg' = 0
  /\ UNCHANGED <<mem, write_ptr, read_ptr, cont_mutex, r_sem, w_sem, rvars>>

WStore(w) ==
  /\ wpc[w] = "store"
  /\ count' = wreg + t_length[w]
  /\ buf' = [buf EXCEPT ![w] = SubSeq(@, t_length[w] + 1, Len(@))]
  /\ w_sem' = 1
  /\ rw_mutex' = None
  /\ wpc' = [wpc EXCEPT ![w] = "loop"]
  /\ t_length' = [t_length EXCEPT ![w] = 0]
  /\ wreg' = 0
  /\ UNCHANGED <<mem, write_ptr, read_ptr, cont_mutex, r_sem, rvars>>

WReturn(w) ==
  /\ wpc[w] = "loop"
  /\ buf[w] = << >>
  /\ cont_mutex' = None
  /\ wpc' = [wpc EXCEPT ![w] = "idle"]
  /\ UNCHANGED <<shared, rw_mutex, r_sem, w_sem, buf, t_length, wreg, rvars>>

-----------------------------------------------------------------------------
(* ring_buf_read (t = FALSE) and ring_buf_read_timeout *)

RCall(n, t) ==
  /\ rpc = "idle"
  /\ rpc' = "size"
  /\ length' = n
  /\ timed' = t
  /\ out' = << >>
  /\ UNCHANGED <<shared, locks, wvars, data_size, rreg>>

RGetDataSize ==
  /\ rpc = "size"
  /\ rw_mutex = None
  /\ data_size' = count
  /\ rpc' = IF count < 1 THEN "wait" ELSE "lock"
  /\ UNCHANGED <<shared, locks, wvars, length, timed, rreg, out>>

RWait ==
  /\ rpc = "wait"
  /\ w_sem = 1
  /\ w_sem' = 0
  /\ rpc' = "size"
  /\ UNCHANGED <<shared, cont_mutex, rw_mutex, r_sem, wvars, length, timed, data_size, rreg, out>>

\* The timeout of xSemaphoreTake: it reports failure only while the
\* semaphore is empty.
RTimeout ==
  /\ rpc = "wait"
  /\ timed
  /\ w_sem = 0
  /\ rpc' = "idle"
  /\ length' = 0
  /\ timed' = FALSE
  /\ UNCHANGED <<shared, locks, wvars, data_size, rreg, out>>

\* Mutant: the reader moves the data without taking rw_mutex.
RLockSkipped ==
  /\ rpc = "lock"
  /\ rpc' = "copy"
  /\ UNCHANGED <<shared, locks, wvars, length, timed, data_size, rreg, out>>

RLock ==
  /\ rpc = "lock"
  /\ rw_mutex = None
  /\ rw_mutex' = Reader
  /\ rpc' = "copy"
  /\ UNCHANGED <<shared, cont_mutex, r_sem, w_sem, wvars, length, timed, data_size, rreg, out>>

RCopy ==
  /\ rpc = "copy"
  /\ LET n   == MIN(length, data_size)
         min == MIN(n, Size - read_ptr)
     IN  /\ length' = n
         /\ out' = Loaded(read_ptr, n, min)
         /\ read_ptr' = Advanced(read_ptr, n, min)
  /\ rreg' = count
  /\ rpc' = "store"
  /\ UNCHANGED <<mem, write_ptr, count, locks, wvars, timed, data_size>>

\* Mutant: the writers are told of room only when the read emptied the buffer.
RStoreWhenEmpty ==
  /\ rpc = "store"
  /\ count' = rreg - length
  /\ r_sem' = IF rreg = length THEN 1 ELSE r_sem
  /\ rw_mutex' = None
  /\ rpc' = "idle"
  /\ length' = 0
  /\ timed' = FALSE
  /\ data_size' = 0
  /\ rreg' = 0
  /\ UNCHANGED <<mem, write_ptr, read_ptr, cont_mutex, w_sem, wvars, out>>

RStore ==
  /\ rpc = "store"
  /\ count' = rreg - length
  /\ r_sem' = IF length > 0 THEN 1 ELSE r_sem
  /\ rw_mutex' = None
  /\ rpc' = "idle"
  /\ length' = 0
  /\ timed' = FALSE
  /\ data_size' = 0
  /\ rreg' = 0
  /\ UNCHANGED <<mem, write_ptr, read_ptr, cont_mutex, w_sem, wvars, out>>

-----------------------------------------------------------------------------

Write(w) ==
  \/ WEnter(w) \/ WGetFreeSize(w) \/ WWait(w) \/ WLock(w)
  \/ WCopy(w) \/ WStore(w) \/ WReturn(w)

Read == RGetDataSize \/ RWait \/ RTimeout \/ RLock \/ RCopy \/ RStore

Next ==
  \/ \E w \in Writers, m \in Messages : WCall(w, m)
  \/ \E w \in Writers : Write(w)
  \/ \E n \in ReadLens, t \in BOOLEAN : RCall(n, t)
  \/ Read

Spec == Init /\ [][Next]_vars

\* Every thread that can run does, in the end; a driver task reads in an
\* endless loop (usart.c:248-260); nothing makes the application write.
Fairness ==
  /\ \A w \in Writers : WF_vars(Write(w))
  /\ WF_vars(Read)
  /\ WF_vars(\E n \in ReadLens, t \in BOOLEAN : RCall(n, t))

FairSpec == Spec /\ Fairness

-----------------------------------------------------------------------------
(* Properties *)

TypeOK ==
  /\ mem \in [0 .. Size - 1 -> Byte]
  /\ write_ptr \in 0 .. Size /\ read_ptr \in 0 .. Size
  /\ count \in 0 .. Size
  /\ cont_mutex \in Writers \cup {None}
  /\ rw_mutex \in Writers \cup {Reader, None}
  /\ r_sem \in {0, 1} /\ w_sem \in {0, 1}
  /\ wpc \in [Writers -> {"idle", "enter", "loop", "wait", "lock", "copy", "store"}]
  /\ buf \in [Writers -> Seq(Byte)]
  /\ t_length \in [Writers -> 0 .. Size]
  /\ wreg \in 0 .. Size /\ rreg \in 0 .. Size
  /\ rpc \in {"idle", "size", "wait", "lock", "copy", "store"}
  /\ length \in Nat
  /\ timed \in BOOLEAN
  /\ data_size \in 0 .. Size
  /\ out \in Seq(Byte)

\* A writer blocked on r_sem while the buffer has room, and a reader blocked
\* on w_sem while it holds data, have their semaphore waiting for them: the
\* binary semaphores lose no wake-up although sizes are sampled before the
\* wait and stale tokens are left behind (ring_buf.c:76-78, 121-125).
NoLostWakeup ==
  /\ \A w \in Writers : wpc[w] = "wait" /\ count < Size => r_sem = 1
  /\ rpc = "wait" /\ count > 0 => w_sem = 1

\* The room a writer sampled before it took rw_mutex is still there when it
\* copies, and so is the data the reader sampled (ring_buf.c:76-82, 121-132):
\* nothing is overwritten before it is read and nothing is read twice.
SampledSizesHold ==
  /\ \A w \in Writers : wpc[w] \in {"lock", "copy"} => t_length[w] <= Size - count
  /\ rpc \in {"lock", "copy"} => data_size <= count

\* Every read delivers exactly the oldest bytes, whole messages enter one
\* after the other, nothing is lost, duplicated or reordered.
Level == IF rpc = "store" THEN count - length ELSE count
Wrap(k) == IF k >= Size THEN k - Size ELSE k
Cells(m, p, n) == [i \in 1 .. n |-> m[Wrap(p + i - 1)]]
Contents == Cells(mem, read_ptr, Level)
Remaining == IF cont_mutex = None THEN << >> ELSE buf[cont_mutex]

BQ == INSTANCE ByteQueue WITH
        queue <- Contents, turn <- cont_mutex, left <- Remaining, got <- out

ImplementsByteQueue == BQ!Spec

\* A writer that got hold of the buffer gets its whole message in, however
\* much longer than the buffer it is, and returns.
WriteReturns ==
  \A w \in Writers : cont_mutex = w ~> wpc[w] = "idle"

\* A reader whose buffer holds data delivers some of it.
ReadReturns == rpc # "idle" /\ count > 0 ~> rpc = "store" /\ out # << >>
=============================================================================
