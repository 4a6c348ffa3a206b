--------------------------- MODULE RingBufProofs ---------------------------
(***************************************************************************)
(* RingBuf is type correct, loses no wake-up, never copies over unread     *)
(* data, and implements ByteQueue, for every size, set of writers, set of  *)
(* messages and set of read lengths.                                       *)
(*                                                                         *)
(* The inductive invariant IInv adds to the properties that are checked    *)
(*   - who holds which mutex at which line (Owners),                       *)
(*   - what the sampled sizes and the loaded counter are good for (Sizes), *)
(*   - how far apart the two pointers are (Pointers),                      *)
(* and, for the refinement, where a writer's bytes lie between its copy    *)
(* and its store of the counter (Placed).                                  *)
(***************************************************************************)
EXTENDS RingBuf, SequenceTheorems, TLAPS

USE SizeAssumption, DataAssumption, ThreadAssumption

Inside == {"loop", "wait", "lock", "copy", "store"}

Owners ==
  /\ \A w \in Writers : cont_mutex = w <=> wpc[w] \in Inside
  /\ \A w \in Writers : rw_mutex = w <=> wpc[w] \in {"copy", "store"}
  /\ rw_mutex = Reader <=> rpc \in {"copy", "store"}

Sizes ==
  /\ \A w \in Writers :
       wpc[w] \in {"lock", "copy", "store"} =>
         /\ 1 <= t_length[w]
         /\ t_length[w] <= Len(buf[w])
         /\ t_length[w] <= Size - count
  /\ \A w \in Writers : wpc[w] = "store" => wreg = count
  /\ rpc \in {"lock", "copy"} => 1 <= data_size /\ data_size <= count
  /\ rpc = "store" => rreg = count /\ length <= count

\* The writer's pointer is k cells ahead of the reader's.
Ahead(k) == write_ptr = read_ptr + k \/ write_ptr = read_ptr + k - Size

Pointers ==
  /\ \A w \in Writers : wpc[w] = "store" => Ahead(count + t_length[w])
  /\ rpc = "store" => Ahead(count - length)
  /\ (rpc # "store" /\ \A w \in Writers : wpc[w] # "store") => Ahead(count)

\* A writer about to store the counter has its bytes in the cells behind the
\* last one counted; a message about to enter is one a caller passed.
Placed ==
  /\ \A w \in Writers : wpc[w] = "store" =>
       \A i \in 1 .. t_length[w] : mem[Wrap(read_ptr + count + i - 1)] = buf[w][i]
  /\ \A w \in Writers : wpc[w] = "enter" => buf[w] \in Messages

IInv == TypeOK /\ Owners /\ Sizes /\ Pointers /\ Placed /\ NoLostWakeup

-----------------------------------------------------------------------------
\* Moving n bytes into or out of the storage keeps the pointer inside it.
LEMMA AdvancedBounds ==
  ASSUME NEW p \in 0 .. Size, NEW n \in 0 .. Size
  PROVE  LET min == MIN(n, Size - p)
         IN  /\ min \in 0 .. n
             /\ min <= Size - p
             /\ Advanced(p, n, min) = IF p + n > Size THEN p + n - Size ELSE p + n
             /\ Advanced(p, n, min) \in 0 .. Size
  BY DEF MIN, Advanced

\* The storage holds bytes after a copy into it.
LEMMA StoredType ==
  ASSUME NEW p \in 0 .. Size, NEW src \in Seq(Byte), NEW n \in 0 .. Size,
         n <= Len(src), mem \in [0 .. Size - 1 -> Byte],
         NEW min \in 0 .. n, min <= Size - p
  PROVE  Stored(p, src, n, min) \in [0 .. Size - 1 -> Byte]
  <1>1. ASSUME NEW k \in 0 .. Size - 1
        PROVE  (IF p <= k /\ k < p + min THEN src[k - p + 1]
                ELSE IF k < n - min THEN src[min + k + 1]
                ELSE mem[k]) \in Byte
    <2>1. \A i \in 1 .. Len(src) : src[i] \in Byte
      BY ElementOfSeq
    <2>2. Len(src) \in Nat
      BY LenProperties
    <2> QED  BY <2>1, <2>2
  <1> QED  BY <1>1 DEF Stored

\* A copy out of the storage yields n bytes.
LEMMA LoadedType ==
  ASSUME NEW p \in 0 .. Size, NEW n \in 0 .. Size,
         mem \in [0 .. Size - 1 -> Byte],
         NEW min \in 0 .. n, min = MIN(n, Size - p)
  PROVE  /\ Loaded(p, n, min) \in Seq(Byte)
         /\ Len(Loaded(p, n, min)) = n
  <1>1. ASSUME NEW i \in 1 .. n
        PROVE  (IF i <= min THEN mem[p + i - 1] ELSE mem[i - min - 1]) \in Byte
    BY DEF MIN
  <1>2. Loaded(p, n, min) \in [1 .. n -> Byte]
    BY <1>1 DEF Loaded
  <1> QED  BY <1>2

-----------------------------------------------------------------------------
\* The type invariant, action by action.
LEMMA TypeStep == IInv /\ [Next]_vars => TypeOK'
  <1> SUFFICES ASSUME IInv, [Next]_vars PROVE TypeOK'
    OBVIOUS
  <1>0. TypeOK
    BY DEF IInv
  <1>1. ASSUME NEW w \in Writers, NEW m \in Messages, WCall(w, m) PROVE TypeOK'
    BY <1>0, <1>1 DEF TypeOK, WCall, shared, locks, rvars
  <1>2. ASSUME NEW w \in Writers, WEnter(w) PROVE TypeOK'
    BY <1>0, <1>2 DEF TypeOK, WEnter, shared, rvars
  <1>3. ASSUME NEW w \in Writers, WGetFreeSize(w) PROVE TypeOK'
    <2>1. Len(buf[w]) \in Nat
      BY <1>0, LenProperties DEF TypeOK
    <2>2. MIN(Size - count, Len(buf[w])) \in 0 .. Size
      BY <1>0, <2>1 DEF TypeOK, MIN
    <2> QED  BY <1>0, <1>3, <2>2 DEF TypeOK, WGetFreeSize, shared, locks, rvars
  <1>4. ASSUME NEW w \in Writers, WWait(w) PROVE TypeOK'
    BY <1>0, <1>4 DEF TypeOK, WWait, shared, rvars
  <1>5. ASSUME NEW w \in Writers, WLock(w) PROVE TypeOK'
    BY <1>0, <1>5 DEF TypeOK, WLock, shared, rvars
  <1>6. ASSUME NEW w \in Writers, WCopy(w) PROVE TypeOK'
    <2> DEFINE n   == t_length[w]
               min == MIN(n, Size - write_ptr)
    <2>1. /\ n \in 0 .. Size /\ n <= Len(buf[w])
          /\ write_ptr \in 0 .. Size /\ buf[w] \in Seq(Byte)
          /\ mem \in [0 .. Size - 1 -> Byte]
      BY <1>0, <1>6 DEF IInv, Sizes, TypeOK, WCopy
    <2>2. /\ min \in 0 .. n /\ min <= Size - write_ptr
          /\ Advanced(write_ptr, n, min) \in 0 .. Size
      BY <2>1, AdvancedBounds
    <2>3. Stored(write_ptr, buf[w], n, min) \in [0 .. Size - 1 -> Byte]
      BY <2>1, <2>2, StoredType
    <2> QED  BY <1>0, <1>6, <2>2, <2>3 DEF TypeOK, WCopy, locks, rvars
  <1>7. ASSUME NEW w \in Writers, WStore(w) PROVE TypeOK'
    <2>1. count' \in 0 .. Size
      BY <1>0, <1>7 DEF IInv, Sizes, TypeOK, WStore
    <2>2. /\ buf[w] \in Seq(Byte)
          /\ t_length[w] \in Nat
          /\ Len(buf[w]) \in Nat
          /\ \A i \in t_length[w] + 1 .. Len(buf[w]) : buf[w][i] \in Byte
      BY <1>0, LenProperties, ElementOfSeq DEF TypeOK
    <2>3. SubSeq(buf[w], t_length[w] + 1, Len(buf[w])) \in Seq(Byte)
      BY <2>2, SubSeqProperties
    <2> QED  BY <1>0, <1>7, <2>1, <2>3 DEF TypeOK, WStore, rvars
  <1>8. ASSUME NEW w \in Writers, WReturn(w) PROVE TypeOK'
    BY <1>0, <1>8 DEF TypeOK, WReturn, shared, rvars
  <1>9. ASSUME NEW n \in ReadLens, NEW t \in BOOLEAN, RCall(n, t) PROVE TypeOK'
    BY <1>0, <1>9 DEF TypeOK, RCall, shared, locks, wvars
  <1>10. CASE RGetDataSize
    BY <1>0, <1>10 DEF TypeOK, RGetDataSize, shared, locks, wvars
  <1>11. CASE RWait
    BY <1>0, <1>11 DEF TypeOK, RWait, shared, wvars
  <1>12. CASE RTimeout
    BY <1>0, <1>12 DEF TypeOK, RTimeout, shared, locks, wvars
  <1>13. CASE RLock
    BY <1>0, <1>13 DEF TypeOK, RLock, shared, wvars
  <1>14. CASE RCopy
    <2> DEFINE n   == MIN(length, data_size)
               min == MIN(n, Size - read_ptr)
    <2>1. n \in 0 .. Size /\ read_ptr \in 0 .. Size /\ mem \in [0 .. Size - 1 -> Byte]
      BY <1>0 DEF TypeOK, MIN
    <2>2. min \in 0 .. n /\ Advanced(read_ptr, n, min) \in 0 .. Size
      BY <2>1, AdvancedBounds
    <2>3. Loaded(read_ptr, n, min) \in Seq(Byte)
      BY <2>1, <2>2, LoadedType
    <2> QED  BY <1>0, <1>14, <2>1, <2>2, <2>3 DEF TypeOK, RCopy, locks, wvars
  <1>15. CASE RStore
    <2>1. count' \in 0 .. Size
      BY <1>0, <1>15 DEF IInv, Sizes, TypeOK, RStore
    <2>2. timed' \in BOOLEAN
      BY <1>15 DEF RStore
    <2>3. r_sem' \in {0, 1}
      BY <1>0, <1>15 DEF TypeOK, RStore
    <2> QED  BY <1>0, <1>15, <2>1, <2>2, <2>3 DEF TypeOK, RStore, wvars
  <1>16. CASE UNCHANGED vars
    BY <1>0, <1>16 DEF TypeOK, vars, shared, locks, wvars, rvars
  <1> QED
    BY <1>1, <1>2, <1>3, <1>4, <1>5, <1>6, <1>7, <1>8, <1>9, <1>10, <1>11,
       <1>12, <1>13, <1>14, <1>15, <1>16 DEF Next, Write, Read

\* Mutual exclusion: each mutex is held where the code holds it, by one thread.
LEMMA OwnersStep == IInv /\ [Next]_vars => Owners'
  <1> SUFFICES ASSUME IInv, [Next]_vars PROVE Owners'
    OBVIOUS
  <1>0. TypeOK /\ Owners
    BY DEF IInv
  <1>1. ASSUME NEW w \in Writers, NEW m \in Messages, WCall(w, m) PROVE Owners'
    BY <1>0, <1>1 DEF TypeOK, Owners, Inside, WCall, shared, locks, rvars
  <1>2. ASSUME NEW w \in Writers, WEnter(w) PROVE Owners'
    BY <1>0, <1>2 DEF TypeOK, Owners, Inside, WEnter, shared, locks, rvars
  <1>3. ASSUME NEW w \in Writers, WGetFreeSize(w) PROVE Owners'
    BY <1>0, <1>3 DEF TypeOK, Owners, Inside, WGetFreeSize, shared, locks, rvars
  <1>4. ASSUME NEW w \in Writers, WWait(w) PROVE Owners'
    BY <1>0, <1>4 DEF TypeOK, Owners, Inside, WWait, shared, locks, rvars
  <1>5. ASSUME NEW w \in Writers, WLock(w) PROVE Owners'
    BY <1>0, <1>5 DEF TypeOK, Owners, Inside, WLock, shared, locks, rvars
  <1>6. ASSUME NEW w \in Writers, WCopy(w) PROVE Owners'
    BY <1>0, <1>6 DEF TypeOK, Owners, Inside, WCopy, shared, locks, rvars
  <1>7. ASSUME NEW w \in Writers, WStore(w) PROVE Owners'
    BY <1>0, <1>7 DEF TypeOK, Owners, Inside, WStore, shared, locks, rvars
  <1>8. ASSUME NEW w \in Writers, WReturn(w) PROVE Owners'
    BY <1>0, <1>8 DEF TypeOK, Owners, Inside, WReturn, shared, locks, rvars
  <1>9. ASSUME NEW n \in ReadLens, NEW t \in BOOLEAN, RCall(n, t) PROVE Owners'
    BY <1>0, <1>9 DEF TypeOK, Owners, Inside, RCall, shared, locks, wvars
  <1>10. CASE RGetDataSize
    BY <1>0, <1>10 DEF TypeOK, Owners, Inside, RGetDataSize, shared, locks, wvars
  <1>11. CASE RWait
    BY <1>0, <1>11 DEF TypeOK, Owners, Inside, RWait, shared, locks, wvars
  <1>12. CASE RTimeout
    BY <1>0, <1>12 DEF TypeOK, Owners, Inside, RTimeout, shared, locks, wvars
  <1>13. CASE RLock
    BY <1>0, <1>13 DEF TypeOK, Owners, Inside, RLock, shared, locks, wvars
  <1>14. CASE RCopy
    BY <1>0, <1>14 DEF TypeOK, Owners, Inside, RCopy, shared, locks, wvars
  <1>15. CASE RStore
    BY <1>0, <1>15 DEF TypeOK, Owners, Inside, RStore, shared, locks, wvars
  <1>16. CASE UNCHANGED vars
    BY <1>0, <1>16 DEF TypeOK, Owners, Inside, vars, shared, locks, wvars, rvars
  <1> QED
    BY <1>1, <1>2, <1>3, <1>4, <1>5, <1>6, <1>7, <1>8,
       <1>9, <1>10, <1>11, <1>12, <1>13, <1>14, <1>15, <1>16
    DEF Next, Write, Read

\* No wake-up is lost: the step that makes room or brings data also gives the semaphore.
LEMMA WakeStep == IInv /\ [Next]_vars => NoLostWakeup'
  <1> SUFFICES ASSUME IInv, [Next]_vars PROVE NoLostWakeup'
    OBVIOUS
  <1>0. TypeOK /\ Owners /\ Sizes /\ NoLostWakeup
    BY DEF IInv
  <1>1. ASSUME NEW w \in Writers, NEW m \in Messages, WCall(w, m) PROVE NoLostWakeup'
    BY <1>0, <1>1 DEF TypeOK, Owners, Inside, Sizes, NoLostWakeup, WCall, shared, locks, rvars
  <1>2. ASSUME NEW w \in Writers, WEnter(w) PROVE NoLostWakeup'
    BY <1>0, <1>2 DEF TypeOK, Owners, Inside, Sizes, NoLostWakeup, WEnter, shared, locks, rvars
  <1>3. ASSUME NEW w \in Writers, WGetFreeSize(w) PROVE NoLostWakeup'
    BY <1>0, <1>3 DEF TypeOK, Owners, Inside, Sizes, NoLostWakeup, WGetFreeSize, shared, locks, rvars
  <1>4. ASSUME NEW w \in Writers, WWait(w) PROVE NoLostWakeup'
    BY <1>0, <1>4 DEF TypeOK, Owners, Inside, Sizes, NoLostWakeup, WWait, shared, locks, rvars
  <1>5. ASSUME NEW w \in Writers, WLock(w) PROVE NoLostWakeup'
    BY <1>0, <1>5 DEF TypeOK, Owners, Inside, Sizes, NoLostWakeup, WLock, shared, locks, rvars
  <1>6. ASSUME NEW w \in Writers, WCopy(w) PROVE NoLostWakeup'
    BY <1>0, <1>6 DEF TypeOK, Owners, Inside, Sizes, NoLostWakeup, WCopy, shared, locks, rvars
  <1>7. ASSUME NEW w \in Writers, WStore(w) PROVE NoLostWakeup'
    BY <1>0, <1>7 DEF TypeOK, Owners, Inside, Sizes, NoLostWakeup, WStore, shared, locks, rvars
  <1>8. ASSUME NEW w \in Writers, WReturn(w) PROVE NoLostWakeup'
    BY <1>0, <1>8 DEF TypeOK, Owners, Inside, Sizes, NoLostWakeup, WReturn, shared, locks, rvars
  <1>9. ASSUME NEW n \in ReadLens, NEW t \in BOOLEAN, RCall(n, t) PROVE NoLostWakeup'
    BY <1>0, <1>9 DEF TypeOK, Owners, Inside, Sizes, NoLostWakeup, RCall, shared, locks, wvars
  <1>10. CASE RGetDataSize
    BY <1>0, <1>10 DEF TypeOK, Owners, Inside, Sizes, NoLostWakeup, RGetDataSize, shared, locks, wvars
  <1>11. CASE RWait
    BY <1>0, <1>11 DEF TypeOK, Owners, Inside, Sizes, NoLostWakeup, RWait, shared, locks, wvars
  <1>12. CASE RTimeout
    BY <1>0, <1>12 DEF TypeOK, Owners, Inside, Sizes, NoLostWakeup, RTimeout, shared, locks, wvars
  <1>13. CASE RLock
    BY <1>0, <1>13 DEF TypeOK, Owners, Inside, Sizes, NoLostWakeup, RLock, shared, locks, wvars
  <1>14. CASE RCopy
    BY <1>0, <1>14 DEF TypeOK, Owners, Inside, Sizes, NoLostWakeup, RCopy, shared, locks, wvars
  <1>15. CASE RStore
    BY <1>0, <1>15 DEF TypeOK, Owners, Inside, Sizes, NoLostWakeup, RStore, shared, locks, wvars
  <1>16. CASE UNCHANGED vars
    BY <1>0, <1>16 DEF TypeOK, Owners, Inside, Sizes, NoLostWakeup, vars, shared, locks, wvars, rvars
  <1> QED
    BY <1>1, <1>2, <1>3, <1>4, <1>5, <1>6, <1>7, <1>8,
       <1>9, <1>10, <1>11, <1>12, <1>13, <1>14, <1>15, <1>16
    DEF Next, Write, Read

\* A sampled size still holds when it is used: only the reader takes bytes out
\* and only the holder of cont_mutex puts bytes in.
LEMMA SizesStep == IInv /\ [Next]_vars => Sizes'
  <1> SUFFICES ASSUME IInv, [Next]_vars PROVE Sizes'
    OBVIOUS
  <1>0. TypeOK /\ Owners /\ Sizes
    BY DEF IInv
  <1>1. ASSUME NEW w \in Writers, NEW m \in Messages, WCall(w, m) PROVE Sizes'
    BY <1>0, <1>1 DEF TypeOK, Owners, Inside, Sizes, WCall, shared, locks, rvars
  <1>2. ASSUME NEW w \in Writers, WEnter(w) PROVE Sizes'
    BY <1>0, <1>2 DEF TypeOK, Owners, Inside, Sizes, WEnter, shared, locks, rvars
  <1>3. ASSUME NEW w \in Writers, WGetFreeSize(w) PROVE Sizes'
    <2> DEFINE n == MIN(Size - count, Len(buf[w]))
    <2>1. Len(buf[w]) \in Nat \ {0}
      BY <1>0, <1>3, EmptySeq DEF TypeOK, WGetFreeSize
    <2>2. /\ n <= Len(buf[w]) /\ n <= Size - count
          /\ Size - count # 0 => 1 <= n
      BY <1>0, <2>1 DEF TypeOK, MIN
    <2>3. /\ t_length' = [t_length EXCEPT ![w] = n]
          /\ wpc' = [wpc EXCEPT ![w] = IF Size - count = 0 THEN "wait" ELSE "lock"]
          /\ UNCHANGED <<count, buf, wreg, rpc, length, data_size, rreg>>
      BY <1>3 DEF WGetFreeSize, shared, rvars
    <2> HIDE DEF n
    <2> QED  BY <1>0, <1>3, <2>2, <2>3 DEF TypeOK, Sizes, WGetFreeSize
  <1>4. ASSUME NEW w \in Writers, WWait(w) PROVE Sizes'
    BY <1>0, <1>4 DEF TypeOK, Owners, Inside, Sizes, WWait, shared, locks, rvars
  <1>5. ASSUME NEW w \in Writers, WLock(w) PROVE Sizes'
    BY <1>0, <1>5 DEF TypeOK, Owners, Inside, Sizes, WLock, shared, locks, rvars
  <1>6. ASSUME NEW w \in Writers, WCopy(w) PROVE Sizes'
    BY <1>0, <1>6 DEF TypeOK, Owners, Inside, Sizes, WCopy, shared, locks, rvars
  <1>7. ASSUME NEW w \in Writers, WStore(w) PROVE Sizes'
    BY <1>0, <1>7 DEF TypeOK, Owners, Inside, Sizes, WStore, shared, locks, rvars
  <1>8. ASSUME NEW w \in Writers, WReturn(w) PROVE Sizes'
    BY <1>0, <1>8 DEF TypeOK, Owners, Inside, Sizes, WReturn, shared, locks, rvars
  <1>9. ASSUME NEW n \in ReadLens, NEW t \in BOOLEAN, RCall(n, t) PROVE Sizes'
    BY <1>0, <1>9 DEF TypeOK, Owners, Inside, Sizes, RCall, shared, locks, wvars
  <1>10. CASE RGetDataSize
    BY <1>0, <1>10 DEF TypeOK, Owners, Inside, Sizes, RGetDataSize, shared, locks, wvars
  <1>11. CASE RWait
    BY <1>0, <1>11 DEF TypeOK, Owners, Inside, Sizes, RWait, shared, locks, wvars
  <1>12. CASE RTimeout
    BY <1>0, <1>12 DEF TypeOK, Owners, Inside, Sizes, RTimeout, shared, locks, wvars
  <1>13. CASE RLock
    BY <1>0, <1>13 DEF TypeOK, Owners, Inside, Sizes, RLock, shared, locks, wvars
  <1>14. CASE RCopy
    <2>1. /\ length' = MIN(length, data_size) /\ rreg' = count /\ rpc' = "store"
          /\ rpc = "copy" /\ UNCHANGED <<count, wpc, buf, t_length, wreg, data_size>>
      BY <1>14 DEF RCopy, wvars
    <2>2. length' <= count
      BY <1>0, <2>1 DEF TypeOK, Sizes, MIN
    <2> QED  BY <1>0, <2>1, <2>2 DEF TypeOK, Sizes
  <1>15. CASE RStore
    BY <1>0, <1>15 DEF TypeOK, Owners, Inside, Sizes, RStore, shared, locks, wvars
  <1>16. CASE UNCHANGED vars
    BY <1>0, <1>16 DEF TypeOK, Owners, Inside, Sizes, vars, shared, locks, wvars, rvars
  <1> QED
    BY <1>1, <1>2, <1>3, <1>4, <1>5, <1>6, <1>7, <1>8,
       <1>9, <1>10, <1>11, <1>12, <1>13, <1>14, <1>15, <1>16
    DEF Next, Write, Read

\* The pointers stay as far apart as the counter says.
LEMMA PointersStep == IInv /\ [Next]_vars => Pointers'
  <1> SUFFICES ASSUME IInv, [Next]_vars PROVE Pointers'
    OBVIOUS
  <1>0. TypeOK /\ Owners /\ Sizes /\ Pointers
    BY DEF IInv
  <1>1. ASSUME NEW w \in Writers, NEW m \in Messages, WCall(w, m) PROVE Pointers'
    BY <1>0, <1>1 DEF TypeOK, Owners, Sizes, Pointers, Ahead, WCall, shared, locks, rvars
  <1>2. ASSUME NEW w \in Writers, WEnter(w) PROVE Pointers'
    BY <1>0, <1>2 DEF TypeOK, Owners, Sizes, Pointers, Ahead, WEnter, shared, locks, rvars
  <1>3. ASSUME NEW w \in Writers, WGetFreeSize(w) PROVE Pointers'
    BY <1>0, <1>3 DEF TypeOK, Owners, Sizes, Pointers, Ahead, WGetFreeSize, shared, locks, rvars
  <1>4. ASSUME NEW w \in Writers, WWait(w) PROVE Pointers'
    BY <1>0, <1>4 DEF TypeOK, Owners, Sizes, Pointers, Ahead, WWait, shared, locks, rvars
  <1>5. ASSUME NEW w \in Writers, WLock(w) PROVE Pointers'
    BY <1>0, <1>5 DEF TypeOK, Owners, Sizes, Pointers, Ahead, WLock, shared, locks, rvars
  <1>6. ASSUME NEW w \in Writers, WCopy(w) PROVE Pointers'
    <2> DEFINE n == t_length[w]
    <2>1. /\ n \in 1 .. Size /\ n <= Size - count /\ write_ptr \in 0 .. Size
          /\ read_ptr \in 0 .. Size /\ count \in 0 .. Size
      BY <1>0, <1>6 DEF TypeOK, Sizes, WCopy
    <2>2. write_ptr' = IF write_ptr + n > Size THEN write_ptr + n - Size ELSE write_ptr + n
      <3>1. write_ptr' = Advanced(write_ptr, n, MIN(n, Size - write_ptr))
        BY <1>6 DEF WCopy
      <3> HIDE DEF n
      <3> QED  BY <2>1, <3>1, AdvancedBounds
    <2>3. rw_mutex = w /\ rpc # "store" /\ \A v \in Writers : wpc[v] # "store"
      BY <1>0, <1>6 DEF Owners, TypeOK, WCopy
    <2>4. Ahead(count)
      BY <1>0, <2>3 DEF Pointers
    <2>5. /\ UNCHANGED <<read_ptr, count, t_length, rpc, length>>
          /\ wpc' = [wpc EXCEPT ![w] = "store"]
      BY <1>6 DEF WCopy, rvars
    <2>6. Ahead(count + n)'
      BY <2>1, <2>2, <2>4, <2>5 DEF Ahead
    <2> QED  BY <1>0, <2>3, <2>5, <2>6 DEF TypeOK, Pointers, Ahead
  <1>7. ASSUME NEW w \in Writers, WStore(w) PROVE Pointers'
    BY <1>0, <1>7 DEF TypeOK, Owners, Sizes, Pointers, Ahead, WStore, shared, locks, rvars
  <1>8. ASSUME NEW w \in Writers, WReturn(w) PROVE Pointers'
    BY <1>0, <1>8 DEF TypeOK, Owners, Sizes, Pointers, Ahead, WReturn, shared, locks, rvars
  <1>9. ASSUME NEW n \in ReadLens, NEW t \in BOOLEAN, RCall(n, t) PROVE Pointers'
    BY <1>0, <1>9 DEF TypeOK, Owners, Sizes, Pointers, Ahead, RCall, shared, locks, wvars
  <1>10. CASE RGetDataSize
    BY <1>0, <1>10 DEF TypeOK, Owners, Sizes, Pointers, Ahead, RGetDataSize, shared, locks, wvars
  <1>11. CASE RWait
    BY <1>0, <1>11 DEF TypeOK, Owners, Sizes, Pointers, Ahead, RWait, shared, locks, wvars
  <1>12. CASE RTimeout
    BY <1>0, <1>12 DEF TypeOK, Owners, Sizes, Pointers, Ahead, RTimeout, shared, locks, wvars
  <1>13. CASE RLock
    BY <1>0, <1>13 DEF TypeOK, Owners, Sizes, Pointers, Ahead, RLock, shared, locks, wvars
  <1>14. CASE RCopy
    <2> DEFINE n == MIN(length, data_size)
    <2>1. /\ n \in 0 .. Size /\ n <= count /\ write_ptr \in 0 .. Size
          /\ read_ptr \in 0 .. Size /\ count \in 0 .. Size
      BY <1>0, <1>14 DEF TypeOK, Sizes, RCopy, MIN
    <2>2. /\ read_ptr' = Advanced(read_ptr, n, MIN(n, Size - read_ptr))
          /\ rpc' = "store" /\ length' = n /\ UNCHANGED <<count, write_ptr, wpc>>
      BY <1>14 DEF RCopy, wvars
    <2> HIDE DEF n
    <2>3. read_ptr' = IF read_ptr + n > Size THEN read_ptr + n - Size ELSE read_ptr + n
      BY <2>1, <2>2, AdvancedBounds
    <2>4. rw_mutex = Reader /\ rpc # "store" /\ \A v \in Writers : wpc[v] # "store"
      BY <1>0, <1>14 DEF Owners, TypeOK, RCopy
    <2>5. Ahead(count)
      BY <1>0, <2>4 DEF Pointers
    <2>6. Ahead(count - length)'
      BY <2>1, <2>2, <2>3, <2>5 DEF Ahead
    <2> QED  BY <2>2, <2>4, <2>6 DEF Pointers
  <1>15. CASE RStore
    BY <1>0, <1>15 DEF TypeOK, Owners, Sizes, Pointers, Ahead, RStore, shared, locks, wvars
  <1>16. CASE UNCHANGED vars
    BY <1>0, <1>16 DEF TypeOK, Owners, Sizes, Pointers, Ahead, vars, shared, locks, wvars, rvars
  <1> QED
    BY <1>1, <1>2, <1>3, <1>4, <1>5, <1>6, <1>7, <1>8,
       <1>9, <1>10, <1>11, <1>12, <1>13, <1>14, <1>15, <1>16
    DEF Next, Write, Read
-----------------------------------------------------------------------------
(* The bytes in the storage *)

\* n cells of the storage, from p on, are a sequence of bytes.
LEMMA CellsSeq ==
  ASSUME NEW m \in [0 .. Size - 1 -> Byte], NEW p \in 0 .. Size, NEW n \in 0 .. Size
  PROVE  /\ Cells(m, p, n) \in Seq(Byte)
         /\ Len(Cells(m, p, n)) = n
         /\ \A i \in 1 .. n : Cells(m, p, n)[i] = m[Wrap(p + i - 1)]
  <1>1. \A i \in 1 .. n : m[Wrap(p + i - 1)] \in Byte
    BY DEF Wrap
  <1>2. Cells(m, p, n) \in [1 .. n -> Byte]
    BY <1>1 DEF Cells
  <1> QED  BY <1>2 DEF Cells

\* What a copy of n bytes to write_ptr leaves in the n cells it fills, and that
\* it leaves the others alone.
LEMMA StoredCells ==
  ASSUME TypeOK, NEW n \in 1 .. Size, n <= Size - count, Ahead(count),
         NEW src, NEW min, min = MIN(n, Size - write_ptr),
         NEW i \in 1 .. count + n
  PROVE  Stored(write_ptr, src, n, min)[Wrap(read_ptr + i - 1)] =
           IF i <= count THEN mem[Wrap(read_ptr + i - 1)] ELSE src[i - count]
  <1> DEFINE k == Wrap(read_ptr + i - 1)
  <1>1. /\ write_ptr \in 0 .. Size /\ read_ptr \in 0 .. Size /\ count \in 0 .. Size
        /\ k \in 0 .. Size - 1
    BY DEF TypeOK, Wrap
  <1>2. Stored(write_ptr, src, n, min)[k] =
          IF write_ptr <= k /\ k < write_ptr + min THEN src[k - write_ptr + 1]
          ELSE IF k < n - min THEN src[min + k + 1]
          ELSE mem[k]
    BY <1>1 DEF Stored
  <1>3. CASE i <= count
    <2>1. ~(write_ptr <= k /\ k < write_ptr + min) /\ ~(k < n - min)
      BY <1>1, <1>3 DEF Ahead, Wrap, MIN
    <2> QED  BY <1>2, <1>3, <2>1
  <1>4. CASE i > count
    <2>1. CASE write_ptr <= k /\ k < write_ptr + min
      <3>1. k - write_ptr + 1 = i - count
        BY <1>1, <1>4, <2>1 DEF Ahead, Wrap, MIN
      <3> QED  BY <1>1, <1>2, <1>4, <2>1, <3>1
    <2>2. CASE ~(write_ptr <= k /\ k < write_ptr + min)
      <3>1. k < n - min /\ min + k + 1 = i - count
        BY <1>1, <1>4, <2>2 DEF Ahead, Wrap, MIN
      <3> QED  BY <1>1, <1>2, <1>4, <2>2, <3>1
    <2> QED  BY <2>1, <2>2
  <1> QED  BY <1>1, <1>3, <1>4

LEMMA StoredBytes ==
  ASSUME TypeOK, NEW n \in 1 .. Size, n <= Size - count, Ahead(count),
         NEW src, NEW min, min = MIN(n, Size - write_ptr),
         NEW i \in 1 .. n
  PROVE  Stored(write_ptr, src, n, min)[Wrap(read_ptr + count + i - 1)] = src[i]
  <1> DEFINE j == count + i
  <1>1. /\ j \in 1 .. count + n /\ ~(j <= count) /\ j - count = i
        /\ read_ptr + j - 1 = read_ptr + count + i - 1
    BY DEF TypeOK
  <1> HIDE DEF j
  <1>2. Stored(write_ptr, src, n, min)[Wrap(read_ptr + j - 1)] = src[j - count]
    BY <1>1, StoredCells
  <1> QED  BY <1>1, <1>2

\* A copy of n bytes out of the storage returns the n oldest ones.
LEMMA LoadedCells ==
  ASSUME TypeOK, NEW n \in 0 .. Size, NEW min, min = MIN(n, Size - read_ptr),
         NEW i \in 1 .. n
  PROVE  Loaded(read_ptr, n, min)[i] = mem[Wrap(read_ptr + i - 1)]
  BY DEF TypeOK, Loaded, Wrap, MIN

\* Reading moves read_ptr over the cells that were read.
LEMMA AdvancedCells ==
  ASSUME NEW p \in 0 .. Size, NEW n \in 0 .. Size, NEW i \in 1 .. Size - n
  PROVE  Wrap(Advanced(p, n, MIN(n, Size - p)) + i - 1) = Wrap(p + n + i - 1)
  BY DEF Advanced, MIN, Wrap

\* The bytes a writer copied stay in their cells until it counts them.
LEMMA PlacedStep == IInv /\ [Next]_vars => Placed'
  <1> SUFFICES ASSUME IInv, [Next]_vars PROVE Placed'
    OBVIOUS
  <1>0. TypeOK /\ Owners /\ Sizes /\ Pointers /\ Placed
    BY DEF IInv
  <1>1. ASSUME NEW w \in Writers, NEW m \in Messages, WCall(w, m) PROVE Placed'
    BY <1>0, <1>1 DEF TypeOK, Owners, Sizes, Placed, WCall, shared, locks, rvars
  <1>2. ASSUME NEW w \in Writers, WEnter(w) PROVE Placed'
    BY <1>0, <1>2 DEF TypeOK, Owners, Sizes, Placed, WEnter, shared, locks, rvars
  <1>3. ASSUME NEW w \in Writers, WGetFreeSize(w) PROVE Placed'
    BY <1>0, <1>3 DEF TypeOK, Owners, Sizes, Placed, WGetFreeSize, shared, locks, rvars
  <1>4. ASSUME NEW w \in Writers, WWait(w) PROVE Placed'
    BY <1>0, <1>4 DEF TypeOK, Owners, Sizes, Placed, WWait, shared, locks, rvars
  <1>5. ASSUME NEW w \in Writers, WLock(w) PROVE Placed'
    BY <1>0, <1>5 DEF TypeOK, Owners, Sizes, Placed, WLock, shared, locks, rvars
  <1>6. ASSUME NEW w \in Writers, WCopy(w) PROVE Placed'
    <2> DEFINE n == t_length[w]
               min == MIN(n, Size - write_ptr)
    <2>1. /\ mem' = Stored(write_ptr, buf[w], n, min)
          /\ wpc' = [wpc EXCEPT ![w] = "store"]
          /\ UNCHANGED <<read_ptr, count, buf, t_length>>
      BY <1>6 DEF WCopy
    <2>2. /\ n \in 1 .. Size /\ n <= Size - count /\ count \in 0 .. Size
          /\ \A v \in Writers : wpc[v] # "store"
      BY <1>0, <1>6 DEF TypeOK, Owners, Sizes, WCopy
    <2>3. rpc # "store"
      BY <1>0, <1>6 DEF TypeOK, Owners, WCopy
    <2>4. Ahead(count)
      BY <1>0, <2>2, <2>3 DEF Pointers
    <2>5. ASSUME NEW i \in 1 .. n
          PROVE  mem'[Wrap(read_ptr + count + i - 1)] = buf[w][i]
      <3>1. TypeOK /\ n \in 1 .. Size /\ n <= Size - count
        BY <1>0, <2>2
      <3>2. min = MIN(n, Size - write_ptr)
        OBVIOUS
      <3> HIDE DEF n, min
      <3>3. Stored(write_ptr, buf[w], n, min)[Wrap(read_ptr + count + i - 1)] = buf[w][i]
        BY <2>4, <3>1, <3>2, StoredBytes
      <3> QED  BY <2>1, <3>3
    <2> QED  BY <1>0, <2>1, <2>2, <2>5 DEF TypeOK, Placed
  <1>7. ASSUME NEW w \in Writers, WStore(w) PROVE Placed'
    BY <1>0, <1>7 DEF TypeOK, Owners, Sizes, Placed, WStore, shared, locks, rvars
  <1>8. ASSUME NEW w \in Writers, WReturn(w) PROVE Placed'
    BY <1>0, <1>8 DEF TypeOK, Owners, Sizes, Placed, WReturn, shared, locks, rvars
  <1>9. ASSUME NEW n \in ReadLens, NEW t \in BOOLEAN, RCall(n, t) PROVE Placed'
    BY <1>0, <1>9 DEF TypeOK, Owners, Sizes, Placed, RCall, shared, locks, wvars
  <1>10. CASE RGetDataSize
    BY <1>0, <1>10 DEF TypeOK, Owners, Sizes, Placed, RGetDataSize, shared, locks, wvars
  <1>11. CASE RWait
    BY <1>0, <1>11 DEF TypeOK, Owners, Sizes, Placed, RWait, shared, locks, wvars
  <1>12. CASE RTimeout
    BY <1>0, <1>12 DEF TypeOK, Owners, Sizes, Placed, RTimeout, shared, locks, wvars
  <1>13. CASE RLock
    BY <1>0, <1>13 DEF TypeOK, Owners, Sizes, Placed, RLock, shared, locks, wvars
  <1>14. CASE RCopy
    BY <1>0, <1>14 DEF TypeOK, Owners, Sizes, Placed, RCopy, shared, locks, wvars
  <1>15. CASE RStore
    BY <1>0, <1>15 DEF TypeOK, Owners, Sizes, Placed, RStore, shared, locks, wvars
  <1>16. CASE UNCHANGED vars
    BY <1>0, <1>16 DEF TypeOK, Owners, Sizes, Placed, vars, shared, locks, wvars, rvars
  <1> QED
    BY <1>1, <1>2, <1>3, <1>4, <1>5, <1>6, <1>7, <1>8,
       <1>9, <1>10, <1>11, <1>12, <1>13, <1>14, <1>15, <1>16
    DEF Next, Write, Read

-----------------------------------------------------------------------------
LEMMA InitIInv == Init => IInv
  <1> SUFFICES ASSUME Init PROVE IInv
    OBVIOUS
  <1>1. TypeOK
    <2>1. /\ << >> \in Seq(Byte)
          /\ [k \in 0 .. Size - 1 |-> 0] \in [0 .. Size - 1 -> Byte]
      OBVIOUS
    <2>2. timed \in BOOLEAN
      BY DEF Init
    <2> QED  BY <2>1, <2>2 DEF Init, TypeOK
  <1>2. Owners /\ Sizes /\ NoLostWakeup
    BY DEF Init, Owners, Inside, Sizes, NoLostWakeup
  <1>3. Pointers /\ Placed
    BY DEF Init, Pointers, Ahead, Placed
  <1> QED  BY <1>1, <1>2, <1>3 DEF IInv

\* Everything above, for every reachable state.
THEOREM Invariance == Spec => []IInv
  <1>1. IInv /\ [Next]_vars => IInv'
    BY TypeStep, OwnersStep, SizesStep, PointersStep, PlacedStep, WakeStep DEF IInv
  <1> QED  BY InitIInv, <1>1, PTL DEF Spec

\* The variables of ring_buf.c keep to their ranges: the counter never exceeds
\* the size and never goes below zero, no pointer leaves the storage.
THEOREM TypeCorrect == Spec => []TypeOK
  <1>1. IInv => TypeOK
    BY DEF IInv
  <1> QED  BY Invariance, <1>1, PTL

\* No writer sleeps while there is room and no reader while there is data.
THEOREM WakeupsKept == Spec => []NoLostWakeup
  <1>1. IInv => NoLostWakeup
    BY DEF IInv
  <1> QED  BY Invariance, <1>1, PTL

\* The sizes sampled outside rw_mutex are still good inside it.
THEOREM SamplesKept == Spec => []SampledSizesHold
  <1>1. IInv => SampledSizesHold
    BY DEF IInv, Sizes, SampledSizesHold
  <1> QED  BY Invariance, <1>1, PTL
-----------------------------------------------------------------------------
(* RingBuf implements ByteQueue *)

\* Steps of the code that ByteQueue does not see.
LEMMA ContentsKept ==
  ASSUME UNCHANGED <<mem, read_ptr>>, Level' = Level
  PROVE  Contents' = Contents
  BY DEF Contents, Cells

\* The reader's copy is the step at which the oldest bytes leave the queue.
LEMMA ReadRefines ==
  ASSUME IInv, IInv', RCopy
  PROVE  BQ!Get(MIN(length, data_size)) /\ MIN(length, data_size) \in 0 .. Size
  <1> DEFINE n == MIN(length, data_size)
  <1>0. TypeOK /\ Owners /\ Sizes /\ TypeOK' /\ Sizes'
    BY DEF IInv
  <1>1. /\ rpc = "copy" /\ rpc' = "store" /\ length' = n
        /\ out' = Loaded(read_ptr, n, MIN(n, Size - read_ptr))
        /\ read_ptr' = Advanced(read_ptr, n, MIN(n, Size - read_ptr))
        /\ UNCHANGED <<mem, count, cont_mutex, buf>>
    BY DEF RCopy, locks, wvars
  <1>2. /\ n \in 0 .. Size /\ n <= count /\ count \in 0 .. Size
        /\ read_ptr \in 0 .. Size /\ mem \in [0 .. Size - 1 -> Byte]
    BY <1>0, <1>1 DEF TypeOK, Sizes, MIN
  <1> HIDE DEF n
  <1>3. Level = count /\ Level' = count - n
    BY <1>1 DEF Level
  <1>4. /\ Contents \in Seq(Byte) /\ Len(Contents) = count
        /\ \A i \in 1 .. count : Contents[i] = mem[Wrap(read_ptr + i - 1)]
    <2>1. Contents = Cells(mem, read_ptr, count)
      BY <1>3 DEF Contents
    <2>2. read_ptr \in 0 .. Size /\ mem \in [0 .. Size - 1 -> Byte] /\ count \in 0 .. Size
      BY <1>2
    <2>3. /\ Cells(mem, read_ptr, count) \in Seq(Byte)
          /\ Len(Cells(mem, read_ptr, count)) = count
          /\ \A i \in 1 .. count :
               Cells(mem, read_ptr, count)[i] = mem[Wrap(read_ptr + i - 1)]
      BY <2>2, CellsSeq
    <2> QED  BY <2>1, <2>3
  <1>5. /\ Contents' \in Seq(Byte) /\ Len(Contents') = count - n
        /\ \A i \in 1 .. count - n : Contents'[i] = mem[Wrap(read_ptr' + i - 1)]
    <2>1. Contents' = Cells(mem, read_ptr', count - n)
      BY <1>1, <1>3 DEF Contents, Cells
    <2>2. count - n \in 0 .. Size
      BY <1>2
    <2>3. read_ptr' \in 0 .. Size
      BY <1>1, <1>2, AdvancedBounds
    <2>4. mem \in [0 .. Size - 1 -> Byte]
      BY <1>2
    <2> DEFINE p == read_ptr'
               k == count - n
    <2> HIDE DEF p, k
    <2>5. /\ Cells(mem, p, k) \in Seq(Byte)
          /\ Len(Cells(mem, p, k)) = k
          /\ \A i \in 1 .. k : Cells(mem, p, k)[i] = mem[Wrap(p + i - 1)]
      <3>1. p \in 0 .. Size /\ k \in 0 .. Size
        BY <2>2, <2>3 DEF p, k
      <3> QED  BY <2>4, <3>1, CellsSeq
    <2>6. Contents' = Cells(mem, p, k)
      BY <2>1 DEF p, k
    <2>7. /\ Contents' \in Seq(Byte) /\ Len(Contents') = k
          /\ \A i \in 1 .. k : Contents'[i] = mem[Wrap(p + i - 1)]
      BY <2>5, <2>6
    <2> QED  BY <2>7 DEF p, k
  <1>6. out' = SubSeq(Contents, 1, n)
    <2>1. /\ SubSeq(Contents, 1, n) \in Seq(Byte) /\ Len(SubSeq(Contents, 1, n)) = n
          /\ \A i \in 1 .. n : SubSeq(Contents, 1, n)[i] = Contents[i]
      BY <1>2, <1>4
    <2>2. /\ out' \in Seq(Byte) /\ Len(out') = n
      BY <1>0, <1>1, <1>2, AdvancedBounds, LoadedType DEF TypeOK
    <2>3. \A i \in 1 .. n : out'[i] = mem[Wrap(read_ptr + i - 1)]
      BY <1>0, <1>1, <1>2, LoadedCells
    <2>4. \A i \in 1 .. n : out'[i] = SubSeq(Contents, 1, n)[i]
      BY <1>2, <1>4, <2>1, <2>3
    <2> QED  BY <2>1, <2>2, <2>4, SeqEqual
  <1>7. Contents' = SubSeq(Contents, n + 1, Len(Contents))
    <2> DEFINE rest == SubSeq(Contents, n + 1, Len(Contents))
    <2>1. /\ rest \in Seq(Byte) /\ Len(rest) = count - n
          /\ \A i \in 1 .. count - n : rest[i] = Contents[n + i]
      BY <1>2, <1>4
    <2>2. ASSUME NEW i \in 1 .. count - n PROVE Contents'[i] = rest[i]
      <3>1. Wrap(read_ptr' + i - 1) = Wrap(read_ptr + n + i - 1)
        BY <1>1, <1>2, AdvancedCells
      <3>2. Contents[n + i] = mem[Wrap(read_ptr + n + i - 1)]
        BY <1>2, <1>4
      <3> QED  BY <1>5, <2>1, <3>1, <3>2
    <2> HIDE DEF rest
    <2>3. Contents' = rest
      BY <1>5, <2>1, <2>2, SeqEqual
    <2> QED  BY <2>3 DEF rest
  <1>8. Remaining' = Remaining
    BY <1>1 DEF Remaining
  <1> QED
    BY <1>1, <1>2, <1>4, <1>6, <1>7, <1>8 DEF BQ!Get, n

\* The writer's store of the counter is the step at which its bytes enter.
LEMMA WriteRefines ==
  ASSUME IInv, IInv', NEW w \in Writers, WStore(w)
  PROVE  BQ!Put(t_length[w]) /\ t_length[w] \in 1 .. Size
  <1> DEFINE n == t_length[w]
  <1>0. TypeOK /\ Owners /\ Sizes /\ Placed /\ TypeOK' /\ Sizes'
    BY DEF IInv
  <1>1. /\ wpc[w] = "store" /\ count' = count + n
        /\ buf' = [buf EXCEPT ![w] = SubSeq(@, n + 1, Len(@))]
        /\ UNCHANGED <<mem, read_ptr, cont_mutex, rpc, length, out>>
    BY <1>0 DEF WStore, rvars, Sizes
  <1>2. /\ n \in 1 .. Size /\ n <= Len(buf[w]) /\ count + n <= Size
        /\ count \in 0 .. Size /\ buf[w] \in Seq(Byte)
        /\ read_ptr \in 0 .. Size /\ mem \in [0 .. Size - 1 -> Byte]
    BY <1>0, <1>1 DEF TypeOK, Sizes
  <1>3. rpc # "store" /\ cont_mutex = w /\ w # None
    BY <1>0, <1>1 DEF TypeOK, Owners, Inside
  <1>4. \A i \in 1 .. n : mem[Wrap(read_ptr + count + i - 1)] = buf[w][i]
    BY <1>0, <1>1 DEF Placed
  <1> HIDE DEF n
  <1>5. Level = count /\ Level' = count + n
    BY <1>1, <1>3 DEF Level
  <1>6. /\ Contents \in Seq(Byte) /\ Len(Contents) = count
        /\ \A i \in 1 .. count : Contents[i] = mem[Wrap(read_ptr + i - 1)]
    <2>1. Contents = Cells(mem, read_ptr, count)
      BY <1>5 DEF Contents
    <2>2. read_ptr \in 0 .. Size /\ mem \in [0 .. Size - 1 -> Byte] /\ count \in 0 .. Size
      BY <1>2
    <2>3. /\ Cells(mem, read_ptr, count) \in Seq(Byte)
          /\ Len(Cells(mem, read_ptr, count)) = count
          /\ \A i \in 1 .. count :
               Cells(mem, read_ptr, count)[i] = mem[Wrap(read_ptr + i - 1)]
      BY <2>2, CellsSeq
    <2> QED  BY <2>1, <2>3
  <1>7. /\ Contents' \in Seq(Byte) /\ Len(Contents') = count + n
        /\ \A i \in 1 .. count + n : Contents'[i] = mem[Wrap(read_ptr + i - 1)]
    <2>1. Contents' = Cells(mem, read_ptr, count + n)
      BY <1>1, <1>5 DEF Contents, Cells
    <2>2. read_ptr \in 0 .. Size /\ mem \in [0 .. Size - 1 -> Byte] /\ count + n \in 0 .. Size
      BY <1>0, <1>2 DEF TypeOK
    <2> DEFINE k == count + n
    <2>3. k \in 0 .. Size
      BY <2>2
    <2> HIDE DEF k
    <2>4. /\ Cells(mem, read_ptr, k) \in Seq(Byte)
          /\ Len(Cells(mem, read_ptr, k)) = k
          /\ \A i \in 1 .. k : Cells(mem, read_ptr, k)[i] = mem[Wrap(read_ptr + i - 1)]
      BY <2>2, <2>3, CellsSeq
    <2> QED  BY <2>1, <2>4 DEF k
  <1>8. Contents' = Contents \o SubSeq(buf[w], 1, n)
    <2> DEFINE piece == SubSeq(buf[w], 1, n)
               both  == Contents \o piece
    <2>1. /\ piece \in Seq(Byte) /\ Len(piece) = n
          /\ \A i \in 1 .. n : piece[i] = buf[w][i]
      BY <1>2
    <2> HIDE DEF piece
    <2>2. /\ both \in Seq(Byte) /\ Len(both) = count + n
          /\ \A i \in 1 .. count + n :
               both[i] = IF i <= count THEN Contents[i] ELSE piece[i - count]
      <3>1. Contents \in Seq(Byte) /\ piece \in Seq(Byte)
        BY <1>6, <2>1
      <3>2. /\ both \in Seq(Byte)
            /\ Len(both) = Len(Contents) + Len(piece)
            /\ \A i \in 1 .. Len(Contents) + Len(piece) :
                 both[i] = IF i <= Len(Contents) THEN Contents[i]
                           ELSE piece[i - Len(Contents)]
        BY <3>1, ConcatProperties
      <3> HIDE DEF both
      <3>3. Len(Contents) = count /\ Len(piece) = n
        BY <1>6, <2>1
      <3> QED  BY <3>2, <3>3
    <2> HIDE DEF both
    <2>3. ASSUME NEW i \in 1 .. count + n PROVE Contents'[i] = both[i]
      <3>1. CASE i <= count
        <4>1. i \in 1 .. count
          BY <1>2, <3>1
        <4> QED  BY <1>6, <1>7, <2>2, <3>1, <4>1
      <3>2. CASE ~(i <= count)
        <4> DEFINE j == i - count
        <4>1. j \in 1 .. n /\ read_ptr + count + j - 1 = read_ptr + i - 1
          BY <1>0, <1>2, <3>2 DEF TypeOK
        <4>2. piece[j] = mem[Wrap(read_ptr + count + j - 1)]
          BY <1>4, <2>1, <4>1
        <4> QED  BY <1>7, <2>2, <3>2, <4>1, <4>2
      <3> QED  BY <3>1, <3>2
    <2>4. Contents' = both
      BY <1>7, <2>2, <2>3, SeqEqual
    <2> QED  BY <2>4 DEF both, piece
  <1>9. Remaining = buf[w] /\ Remaining' = SubSeq(buf[w], n + 1, Len(buf[w]))
    BY <1>0, <1>1, <1>3 DEF TypeOK, Remaining
  <1> QED
    BY <1>1, <1>2, <1>3, <1>6, <1>8, <1>9 DEF BQ!Put, n
\* Every step of the code is a step of ByteQueue or one it does not see.
LEMMA StepRefines ==
  ASSUME IInv, IInv', [Next]_vars
  PROVE  [BQ!Next]_(BQ!qvars)
  <1>0. TypeOK /\ Owners /\ Sizes /\ Placed
    BY DEF IInv
  <1>1. ASSUME UNCHANGED <<mem, read_ptr, cont_mutex, out>>, Level' = Level,
               Remaining' = Remaining
        PROVE  UNCHANGED BQ!qvars
    BY <1>1, ContentsKept DEF BQ!qvars
  <1>2. ASSUME NEW w \in Writers, NEW m \in Messages, WCall(w, m)
        PROVE  [BQ!Next]_(BQ!qvars)
    <2>1. cont_mutex # w
      BY <1>0, <1>2 DEF TypeOK, Owners, Inside, WCall
    <2>2. Remaining' = Remaining
      BY <1>0, <1>2, <2>1 DEF TypeOK, Remaining, WCall, locks
    <2>3. UNCHANGED <<mem, read_ptr, cont_mutex, out>> /\ Level' = Level
      BY <1>2 DEF WCall, shared, locks, rvars, Level
    <2> QED  BY <1>1, <2>2, <2>3
  <1>3. ASSUME NEW w \in Writers, WEnter(w)
        PROVE  [BQ!Next]_(BQ!qvars)
    <2>1. buf[w] \in Messages /\ cont_mutex = None /\ cont_mutex' = w /\ w # None
      BY <1>0, <1>3 DEF Placed, WEnter
    <2>2. Remaining' = buf[w]
      BY <1>3, <2>1 DEF Remaining, WEnter
    <2>3. UNCHANGED <<Contents, out>>
      <3>1. UNCHANGED <<mem, read_ptr, out>> /\ Level' = Level
        BY <1>3 DEF WEnter, shared, rvars, Level
      <3> QED  BY <3>1, ContentsKept
    <2> QED  BY <2>1, <2>2, <2>3 DEF BQ!Next, BQ!Begin
  <1>4. ASSUME NEW w \in Writers, WGetFreeSize(w) \/ WWait(w) \/ WLock(w)
        PROVE  [BQ!Next]_(BQ!qvars)
    <2>1. UNCHANGED <<mem, read_ptr, cont_mutex, out, buf>> /\ Level' = Level
      BY <1>4 DEF WGetFreeSize, WWait, WLock, shared, locks, rvars, Level
    <2> QED  BY <1>1, <2>1 DEF Remaining
  <1>5. ASSUME NEW w \in Writers, WCopy(w)
        PROVE  [BQ!Next]_(BQ!qvars)
    <2> DEFINE n == t_length[w]
               min == MIN(n, Size - write_ptr)
    <2>1. /\ mem' = Stored(write_ptr, buf[w], n, min)
          /\ UNCHANGED <<read_ptr, count, cont_mutex, buf, rpc, length, out>>
      BY <1>5 DEF WCopy, locks, rvars
    <2>2. /\ n \in 1 .. Size /\ n <= Size - count /\ count \in 0 .. Size
          /\ \A v \in Writers : wpc[v] # "store"
      BY <1>0, <1>5 DEF TypeOK, Owners, Sizes, WCopy
    <2>3. rpc # "store"
      BY <1>0, <1>5 DEF TypeOK, Owners, WCopy
    <2>4. Ahead(count)
      BY <2>2, <2>3 DEF IInv, Pointers
    <2>5. Level = count /\ Level' = count
      BY <2>1, <2>3 DEF Level
    <2> HIDE DEF n, min
    <2>6. min = MIN(n, Size - write_ptr)
      BY DEF min
    <2>7. ASSUME NEW i \in 1 .. count
          PROVE  mem'[Wrap(read_ptr + i - 1)] = mem[Wrap(read_ptr + i - 1)]
      <3>1. i \in 1 .. count + n /\ i <= count
        BY <2>2
      <3>2. \A m, src : m = MIN(n, Size - write_ptr) =>
              Stored(write_ptr, src, n, m)[Wrap(read_ptr + i - 1)] =
                IF i <= count THEN mem[Wrap(read_ptr + i - 1)] ELSE src[i - count]
        BY <1>0, <2>2, <2>4, <3>1, StoredCells
      <3> QED  BY <2>1, <2>6, <3>1, <3>2
    <2>8. Contents' = Contents
      BY <2>1, <2>5, <2>7 DEF Contents, Cells
    <2> QED  BY <2>1, <2>8 DEF BQ!qvars, Remaining
  <1>6. ASSUME NEW w \in Writers, WStore(w)
        PROVE  [BQ!Next]_(BQ!qvars)
    BY <1>6, WriteRefines DEF BQ!Next
  <1>7. ASSUME NEW w \in Writers, WReturn(w)
        PROVE  [BQ!Next]_(BQ!qvars)
    <2>1. cont_mutex = w /\ cont_mutex' = None /\ w # None /\ buf[w] = << >>
      BY <1>0, <1>7 DEF TypeOK, Owners, Inside, WReturn
    <2>2. Remaining = << >> /\ Remaining' = << >>
      BY <2>1 DEF Remaining
    <2>3. UNCHANGED <<Contents, out>>
      <3>1. UNCHANGED <<mem, read_ptr, out>> /\ Level' = Level
        BY <1>7 DEF WReturn, shared, rvars, Level
      <3> QED  BY <3>1, ContentsKept
    <2> QED  BY <2>1, <2>2, <2>3 DEF BQ!Next, BQ!End
  <1>8. ASSUME NEW n \in ReadLens, NEW t \in BOOLEAN, RCall(n, t)
        PROVE  [BQ!Next]_(BQ!qvars)
    <2>1. /\ UNCHANGED <<mem, read_ptr, count, cont_mutex, buf>> /\ out' = << >>
          /\ rpc = "idle" /\ rpc' = "size"
      BY <1>8 DEF RCall, shared, locks, wvars
    <2>2. Level = count /\ Level' = count
      BY <2>1 DEF Level
    <2>3. UNCHANGED <<Contents, Remaining>>
      BY <2>1, <2>2, ContentsKept DEF Remaining
    <2>4. Contents \in Seq(Byte)
      BY <1>0, <2>2, CellsSeq DEF TypeOK, Contents
    <2>5. SubSeq(Contents, 1, 0) = << >> /\ SubSeq(Contents, 1, Len(Contents)) = Contents
          /\ Len(Contents) \in Nat
      BY <2>4, SubSeqEmpty, SubSeqFull, LenProperties
    <2>6. BQ!Get(0)
      BY <2>1, <2>3, <2>5 DEF BQ!Get
    <2> QED  BY <2>6 DEF BQ!Next
  <1>9. ASSUME RGetDataSize \/ RWait \/ RTimeout \/ RLock
        PROVE  [BQ!Next]_(BQ!qvars)
    <2>1. UNCHANGED <<mem, read_ptr, cont_mutex, out, buf>> /\ Level' = Level
      BY <1>9 DEF RGetDataSize, RWait, RTimeout, RLock, shared, locks, wvars, Level
    <2> QED  BY <1>1, <2>1 DEF Remaining
  <1>10. ASSUME RCopy
         PROVE  [BQ!Next]_(BQ!qvars)
    BY <1>10, ReadRefines DEF BQ!Next
  <1>11. ASSUME RStore
         PROVE  [BQ!Next]_(BQ!qvars)
    <2>1. UNCHANGED <<mem, read_ptr, cont_mutex, out, buf>> /\ Level' = Level
      BY <1>0, <1>11 DEF RStore, wvars, Level, Sizes
    <2> QED  BY <1>1, <2>1 DEF Remaining
  <1>12. CASE UNCHANGED vars
    <2>1. UNCHANGED <<mem, read_ptr, cont_mutex, out, buf>> /\ Level' = Level
      BY <1>12 DEF vars, shared, locks, wvars, rvars, Level
    <2> QED  BY <1>1, <2>1 DEF Remaining
  <1> QED
    BY <1>2, <1>3, <1>4, <1>5, <1>6, <1>7, <1>8, <1>9, <1>10, <1>11, <1>12
    DEF Next, Write, Read

LEMMA InitRefines == Init => BQ!Init
  <1> SUFFICES ASSUME Init PROVE BQ!Init
    OBVIOUS
  <1>1. Contents = << >>
    <2>1. Level = 0 /\ read_ptr = 0
      BY DEF Init, Level
    <2> QED  BY <2>1 DEF Contents, Cells
  <1> QED  BY <1>1 DEF Init, BQ!Init, Remaining

\* The ring buffer is a bounded first-in first-out queue of whole messages:
\* pointers, wrap-around, chunks, mutexes and semaphores do not show.
THEOREM Implementation == Spec => ImplementsByteQueue
  <1>1. IInv /\ IInv' /\ [Next]_vars => [BQ!Next]_(BQ!qvars)
    BY StepRefines
  <1> QED  BY InitRefines, Invariance, <1>1, PTL DEF Spec, ImplementsByteQueue, BQ!Spec
=============================================================================
