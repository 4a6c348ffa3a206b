----------------------------- MODULE ByteQueue -----------------------------
(***************************************************************************)
(* What a ring_buf_t promises its callers, without pointers, counters,     *)
(* mutexes or semaphores: a bounded first-in first-out queue of bytes into *)
(* which whole messages go one after the other.  A message may enter in    *)
(* pieces, when the queue is full in between, but no byte of another       *)
(* message ever enters between two bytes of it.                            *)
(***************************************************************************)
EXTENDS Naturals, Sequences

CONSTANTS
  Size,       \* capacity of the queue
  Messages,   \* the messages a writer may send
  Writers,    \* the threads that write
  None        \* "no writer has the turn"

VARIABLES
  queue,      \* the bytes written and not yet read
  turn,       \* the writer whose message is entering the queue, or None
  left,       \* the bytes of that message that have not entered yet
  got         \* the bytes the latest read returned

qvars == <<queue, turn, left, got>>

Init ==
  /\ queue = << >>
  /\ turn = None
  /\ left = << >>
  /\ got = << >>

Begin(w, m) ==
  /\ turn = None
  /\ turn' = w
  /\ left' = m
  /\ UNCHANGED <<queue, got>>

\* The next n bytes of the message enter, as many as there is room for.
Put(n) ==
  /\ turn # None
  /\ n <= Len(left)
  /\ Len(queue) + n <= Size
  /\ queue' = queue \o SubSeq(left, 1, n)
  /\ left' = SubSeq(left, n + 1, Len(left))
  /\ UNCHANGED <<turn, got>>

End ==
  /\ turn # None
  /\ left = << >>
  /\ turn' = None
  /\ UNCHANGED <<queue, left, got>>

\* The oldest n bytes leave, in order.
Get(n) ==
  /\ n <= Len(queue)
  /\ got' = SubSeq(queue, 1, n)
  /\ queue' = SubSeq(queue, n + 1, Len(queue))
  /\ UNCHANGED <<turn, left>>

Next ==
  \/ \E w \in Writers, m \in Messages : Begin(w, m)
  \/ \E n \in 1 .. Size : Put(n)
  \/ End
  \/ \E n \in 0 .. Size : Get(n)

Spec == Init /\ [][Next]_qvars
=============================================================================
