---------------------------- MODULE DeviceProofs ----------------------------
(***************************************************************************)
(* Proofs about what the driver of one device, and the decoder of another, *)
(* keep between two reads: how full the decoder's frame buffers get and    *)
(* which frames it finds, for buffers of every size, every stream of bytes *)
(* and every way to cut it into reads (UbloxFraming), and which conversion *)
(* of the barometer each of its raw values comes from (Ms5611).            *)
(***************************************************************************)
EXTENDS UbloxFraming, SequenceTheorems, WellFoundedInduction, TLAPS

-----------------------------------------------------------------------------
(* The decoder's invariant *)

Byte == 0 .. 255

\* The byte to be processed next is in rx_buf, unless no read has returned any yet.
LineInv ==
  /\ stream \in Seq(Byte) /\ given \in 0 .. Len(stream)
  /\ faults \in 0 .. MaxFaults /\ stale \in BOOLEAN
  /\ pc \in {"returned", "read", "process"}
  /\ rx_buf \in Seq(Byte)
  /\ rx_curr_len \in Chunks \cup {0} /\ (rx_curr_len # 0 => rx_curr_len = Len(rx_buf))
  /\ rx_buf_index \in 0 .. 256
  /\ pc = "process" => IF rx_curr_len = 0 THEN rx_buf_index = 0 ELSE rx_buf_index < rx_curr_len

\* A frame whose end is awaited has a length that was let through.
FrameInv ==
  /\ rx_state \in States
  /\ ubx_buf \in Seq(Byte) /\ rtcm_buf \in Seq(Byte) /\ Len(output) \in {0, 1}
  /\ rx_state \in {"WAIT_START_SC", "UBX_WAIT_SC2"} => ubx_buf = << >> /\ rtcm_buf = << >>
  /\ rx_state = "UBX_WAIT_LENGTH" => Len(ubx_buf) < 4
  /\ rx_state = "UBX_WAIT_REST" => Len(ubx_buf) \in 4 .. UbxLen(ubx_buf) + 5
                                   /\ UbxLen(ubx_buf) <= UbxRoom
  /\ rx_state = "RTCM_WAIT_LENGTH" => Len(rtcm_buf) \in 1 .. 2
  /\ rx_state = "RTCM_WAIT_REST" => Len(rtcm_buf) \in 3 .. RtcmLen(rtcm_buf) + 5
                                    /\ RtcmLen(rtcm_buf) <= RtcmRoom

\* RTCM frames are bounded as if their checksum were two bytes shorter than it is.
RtcmOverrun == Len(rtcm_buf) <= RtcmMax + 2

FramingInv == LineInv /\ FrameInv /\ UbxFits /\ RtcmOverrun

-----------------------------------------------------------------------------
(* One byte more *)

LEMMA Rooms ==
  /\ UbxMax \in Nat /\ UbxMax >= 6 /\ UbxRoom \in Nat /\ UbxRoom = UbxMax - 6
  /\ RtcmMax \in Nat /\ RtcmMax >= 4 /\ RtcmRoom \in Nat /\ RtcmRoom = RtcmMax - 4
  /\ Chunks \subseteq 1 .. 256 /\ MaxFaults \in Nat /\ \A s \in Streams : s \in Seq(Byte)
  BY FramingAssumption DEF UbxRoom, RtcmRoom, Byte

LEMMA OneMore ==
  ASSUME NEW s \in Seq(Byte), NEW c \in Byte
  PROVE  /\ Append(s, c) \in Seq(Byte) /\ Len(s) \in Nat /\ Len(Append(s, c)) = Len(s) + 1
         /\ Len(s) >= 4 => UbxLen(Append(s, c)) = UbxLen(s)
         /\ Len(s) >= 3 => RtcmLen(Append(s, c)) = RtcmLen(s)
  <1>1. /\ Append(s, c) \in Seq(Byte) /\ Len(s) \in Nat /\ Len(Append(s, c)) = Len(s) + 1
        /\ \A i \in 1 .. Len(s) : Append(s, c)[i] = s[i]
    BY AppendProperties
  <1> QED  BY <1>1 DEF UbxLen, RtcmLen

LEMMA LengthTypes ==
  ASSUME NEW s \in Seq(Byte)
  PROVE  /\ Len(s) \in Nat
         /\ Len(s) >= 4 => UbxLen(s) \in Nat
         /\ Len(s) >= 3 => RtcmLen(s) \in Nat
  <1>1. Len(s) \in Nat /\ \A i \in 1 .. Len(s) : s[i] \in Nat
    <2>1. Len(s) \in Nat /\ \A i \in 1 .. Len(s) : s[i] \in Byte
      OBVIOUS
    <2>2. \A b \in Byte : b \in Nat
      BY DEF Byte
    <2> QED  BY <2>1, <2>2
  <1>2. Len(s) >= 4 => s[3] \in Nat /\ s[4] \in Nat
    BY <1>1
  <1>3. Len(s) >= 3 => s[2] \in Nat /\ s[3] \in Nat
    BY <1>1
  <1> QED  BY <1>1, <1>2, <1>3 DEF UbxLen, RtcmLen

\* The byte that ubx_process looks at.
LEMMA NextByte ==
  ASSUME LineInv, pc = "process"
  PROVE  (IF rx_buf = << >> THEN 0 ELSE rx_buf[rx_buf_index + 1]) \in Byte
  <1>1. CASE rx_buf = << >>
    BY <1>1 DEF Byte
  <1>2. CASE rx_buf # << >>
    <2>1. PICK s : s = rx_buf
      OBVIOUS
    <2>2. s \in Seq(Byte) /\ Len(s) \in Nat \ {0}
      BY <1>2, <2>1, EmptySeq DEF LineInv
    <2>3. rx_buf_index + 1 \in 1 .. Len(s)
      BY <2>1, <2>2, Rooms DEF LineInv
    <2> QED  BY <1>2, <2>1, <2>2, <2>3
  <1> QED  BY <1>1, <1>2

LEMMA ByteKept ==
  ASSUME FrameInv, UbxFits, RtcmOverrun, NEW c \in Byte,
         WaitStart(c) \/ UbxWaitSC2(c) \/ UbxWaitLength(c) \/ UbxWaitRest(c)
           \/ RtcmWaitLength(c) \/ RtcmWaitRest(c)
  PROVE  FrameInv' /\ UbxFits' /\ RtcmOverrun'
  <1>0. /\ ubx_buf \in Seq(Byte) /\ Len(ubx_buf) \in Nat
        /\ rtcm_buf \in Seq(Byte) /\ Len(rtcm_buf) \in Nat
    BY LengthTypes DEF FrameInv
  <1>1. CASE WaitStart(c)
    <2>1. << >> \in Seq(Byte) /\ Len(<< >>) = 0 /\ <<c>> \in Seq(Byte) /\ Len(<<c>>) = 1
      OBVIOUS
    <2>2. /\ ubx_buf' = << >>
          /\ rtcm_buf' = IF c = PREAMBLE THEN <<c>> ELSE << >>
      <3>1. /\ ubx_buf' = << >>
            /\ rtcm_buf' = IF c = PREAMBLE THEN Append(<< >>, c) ELSE << >>
        BY <1>1 DEF WaitStart, FrameInv
      <3> QED  BY <3>1
    <2>3. output' = output
      BY <1>1 DEF WaitStart
    <2>4. rx_state' = CASE c = SC1 -> "UBX_WAIT_SC2"
                        [] c = PREAMBLE -> "RTCM_WAIT_LENGTH"
                        [] OTHER -> "WAIT_START_SC"
      BY <1>1 DEF WaitStart
    <2>5. CASE c = PREAMBLE
      <3>1. rx_state' = "RTCM_WAIT_LENGTH"
        BY <2>4, <2>5 DEF PREAMBLE, SC1
      <3> QED
        BY <2>1, <2>2, <2>3, <2>5, <3>1, Rooms DEF FrameInv, States, UbxFits, RtcmOverrun
    <2>6. CASE c # PREAMBLE
      <3>1. rx_state' \in {"UBX_WAIT_SC2", "WAIT_START_SC"}
        BY <2>4, <2>6
      <3> QED
        BY <2>1, <2>2, <2>3, <2>6, <3>1, Rooms DEF FrameInv, States, UbxFits, RtcmOverrun
    <2> QED  BY <2>5, <2>6
  <1>2. CASE UbxWaitSC2(c)
    <2>1. << >> \in Seq(Byte) /\ Len(<< >>) = 0
      OBVIOUS
    <2> QED
      BY <1>2, <2>1 DEF UbxWaitSC2, FrameInv, States, UbxFits, RtcmOverrun
  <1>3. CASE UbxWaitLength(c)
    <2>1. /\ ubx_buf' \in Seq(Byte) /\ Len(ubx_buf) \in Nat /\ Len(ubx_buf') = Len(ubx_buf) + 1
          /\ rx_state = "UBX_WAIT_LENGTH" /\ UNCHANGED <<rtcm_buf, output>>
      BY <1>0, <1>3, OneMore DEF UbxWaitLength
    <2>2. Len(ubx_buf') \in 1 .. 4
      BY <2>1 DEF FrameInv
    <2>3. CASE Len(ubx_buf') < 4
      <3>1. rx_state' = "UBX_WAIT_LENGTH"
        BY <1>3, <2>1, <2>3 DEF UbxWaitLength
      <3> QED  BY <2>1, <2>2, <2>3, <3>1, Rooms DEF FrameInv, UbxFits, RtcmOverrun
    <2>4. CASE ~(Len(ubx_buf') < 4)
      <3>1. Len(ubx_buf') = 4 /\ UbxLen(ubx_buf') \in Nat
        BY <2>1, <2>2, <2>4, LengthTypes
      <3>2. rx_state' = IF UbxLen(ubx_buf') > UbxRoom THEN "RESET" ELSE "UBX_WAIT_REST"
        BY <1>3, <2>4 DEF UbxWaitLength
      <3>3. \/ rx_state' = "RESET"
            \/ rx_state' = "UBX_WAIT_REST" /\ UbxLen(ubx_buf') <= UbxRoom
        BY <3>1, <3>2, Rooms
      <3>4. UbxFits' /\ RtcmOverrun'
        BY <1>0, <2>1, <3>1, Rooms DEF UbxFits, RtcmOverrun
      <3>5. Len(output') \in {0, 1}
        BY <2>1 DEF FrameInv
      <3>6. Len(ubx_buf') \in 4 .. UbxLen(ubx_buf') + 5
        BY <3>1
      <3> QED  BY <1>0, <2>1, <3>3, <3>4, <3>5, <3>6 DEF FrameInv, States
    <2> QED  BY <2>3, <2>4
  <1>4. CASE UbxWaitRest(c)
    <2>1. /\ ubx_buf' \in Seq(Byte) /\ Len(ubx_buf) \in Nat /\ Len(ubx_buf') = Len(ubx_buf) + 1
          /\ rx_state = "UBX_WAIT_REST" /\ rtcm_buf' = rtcm_buf
          /\ Len(ubx_buf) >= 4 => UbxLen(ubx_buf') = UbxLen(ubx_buf) /\ UbxLen(ubx_buf) \in Nat
      BY <1>0, <1>4, OneMore, LengthTypes DEF UbxWaitRest
    <2>2. /\ UbxLen(ubx_buf') = UbxLen(ubx_buf) /\ UbxLen(ubx_buf) \in Nat
          /\ Len(ubx_buf') \in 5 .. UbxLen(ubx_buf') + 6 /\ UbxLen(ubx_buf') <= UbxRoom
      BY <2>1 DEF FrameInv
    <2>3. UbxFits' /\ RtcmOverrun'
      BY <2>1, <2>2, Rooms DEF UbxFits, RtcmOverrun
    <2>4. Len(output') \in {0, 1}
      <3>1. output' = output \/ output' = <<ubx_buf'>>
        BY <1>4 DEF UbxWaitRest
      <3>2. \A b : Len(<<b>>) = 1
        OBVIOUS
      <3> QED  BY <3>1, <3>2 DEF FrameInv
    <2>5. \/ rx_state' = "RESET"
          \/ rx_state' = "UBX_WAIT_REST" /\ Len(ubx_buf') # UbxLen(ubx_buf') + 6
      BY <1>4, <2>1 DEF UbxWaitRest
    <2> QED  BY <2>1, <2>2, <2>3, <2>4, <2>5 DEF FrameInv, States
  <1>5. CASE RtcmWaitLength(c)
    <2>1. /\ rtcm_buf' \in Seq(Byte) /\ Len(rtcm_buf) \in Nat /\ Len(rtcm_buf') = Len(rtcm_buf) + 1
          /\ rx_state = "RTCM_WAIT_LENGTH" /\ UNCHANGED <<ubx_buf, output>>
      BY <1>0, <1>5, OneMore DEF RtcmWaitLength
    <2>2. Len(rtcm_buf') \in 2 .. 3
      <3>1. Len(rtcm_buf) \in 1 .. 2
        BY <2>1 DEF FrameInv
      <3>2. PICK n : n = Len(rtcm_buf)
        OBVIOUS
      <3>3. n \in 1 .. 2
        BY <3>1, <3>2
      <3>4. Len(rtcm_buf') = n + 1
        BY <2>1, <3>2
      <3> QED  BY <3>3, <3>4
    <2>3. CASE Len(rtcm_buf') < 3
      <3>1. rx_state' = "RTCM_WAIT_LENGTH"
        BY <1>5, <2>1, <2>3 DEF RtcmWaitLength
      <3> QED  BY <2>1, <2>2, <2>3, <3>1, Rooms DEF FrameInv, UbxFits, RtcmOverrun
    <2>4. CASE ~(Len(rtcm_buf') < 3)
      <3>1. Len(rtcm_buf') = 3 /\ RtcmLen(rtcm_buf') \in Nat
        BY <2>1, <2>2, <2>4, LengthTypes
      <3>2. rx_state' = IF RtcmLen(rtcm_buf') > RtcmRoom THEN "RESET" ELSE "RTCM_WAIT_REST"
        BY <1>5, <2>4 DEF RtcmWaitLength
      <3>3. \/ rx_state' = "RESET"
            \/ rx_state' = "RTCM_WAIT_REST" /\ RtcmLen(rtcm_buf') <= RtcmRoom
        BY <3>1, <3>2, Rooms
      <3>4. UbxFits' /\ RtcmOverrun'
        BY <1>0, <2>1, <3>1, Rooms DEF UbxFits, RtcmOverrun
      <3>5. Len(output') \in {0, 1}
        BY <2>1 DEF FrameInv
      <3>6. Len(rtcm_buf') \in 3 .. RtcmLen(rtcm_buf') + 5
        BY <3>1
      <3> QED  BY <1>0, <2>1, <3>3, <3>4, <3>5, <3>6 DEF FrameInv, States
    <2> QED  BY <2>3, <2>4
  <1>6. CASE RtcmWaitRest(c)
    <2>1. /\ rtcm_buf' \in Seq(Byte) /\ Len(rtcm_buf) \in Nat /\ Len(rtcm_buf') = Len(rtcm_buf) + 1
          /\ rx_state = "RTCM_WAIT_REST" /\ ubx_buf' = ubx_buf
          /\ Len(rtcm_buf) >= 3 => RtcmLen(rtcm_buf') = RtcmLen(rtcm_buf) /\ RtcmLen(rtcm_buf) \in Nat
      BY <1>0, <1>6, OneMore, LengthTypes DEF RtcmWaitRest
    <2>2. /\ RtcmLen(rtcm_buf') = RtcmLen(rtcm_buf) /\ RtcmLen(rtcm_buf) \in Nat
          /\ Len(rtcm_buf') \in 4 .. RtcmLen(rtcm_buf') + 6 /\ RtcmLen(rtcm_buf') <= RtcmRoom
      BY <2>1 DEF FrameInv
    <2>3. UbxFits' /\ RtcmOverrun'
      BY <2>1, <2>2, Rooms DEF UbxFits, RtcmOverrun
    <2>4. Len(output') \in {0, 1}
      <3>1. output' = output \/ output' = <<rtcm_buf'>>
        BY <1>6 DEF RtcmWaitRest
      <3>2. \A b : Len(<<b>>) = 1
        OBVIOUS
      <3> QED  BY <3>1, <3>2 DEF FrameInv
    <2>5. \/ rx_state' = "RESET"
          \/ rx_state' = "RTCM_WAIT_REST" /\ Len(rtcm_buf') # RtcmLen(rtcm_buf') + 6
      BY <1>6, <2>1 DEF RtcmWaitRest
    <2> QED  BY <2>1, <2>2, <2>3, <2>4, <2>5 DEF FrameInv, States
  <1> QED  BY <1>1, <1>2, <1>3, <1>4, <1>5, <1>6

LEMMA ProcessKept ==
  ASSUME FramingInv, ubx_process
  PROVE  FramingInv'
  <1>1. LineInv /\ FrameInv /\ UbxFits /\ RtcmOverrun /\ pc = "process"
    BY DEF FramingInv, ubx_process
  <1>2. PICK c \in Byte :
          WaitStart(c) \/ UbxWaitSC2(c) \/ UbxWaitLength(c) \/ UbxWaitRest(c)
            \/ RtcmWaitLength(c) \/ RtcmWaitRest(c)
    <2>1. (IF rx_buf = << >> THEN 0 ELSE rx_buf[rx_buf_index + 1]) \in Byte
      BY <1>1, NextByte
    <2> QED  BY <2>1 DEF ubx_process
  <1>3. FrameInv' /\ UbxFits' /\ RtcmOverrun'
    BY <1>1, <1>2, ByteKept
  <1>4. LineInv'
    <2>1. /\ stream' = stream /\ given' = given /\ faults' = faults
          /\ rx_buf' = rx_buf /\ rx_curr_len' = rx_curr_len
          /\ rx_buf_index' = rx_buf_index + 1 /\ stale' = (stale \/ rx_curr_len = 0)
          /\ pc' = IF output' # << >> THEN "returned"
                   ELSE IF rx_buf_index' >= rx_curr_len THEN "read" ELSE "process"
      BY DEF ubx_process, line
    <2>2. rx_buf_index \in 0 .. 255 /\ rx_curr_len \in Nat
      BY <1>1, Rooms DEF LineInv
    <2>3. stale' \in BOOLEAN
      BY <1>1, <2>1 DEF LineInv
    <2>4. pc' \in {"returned", "read", "process"}
      BY <2>1
    <2>5. rx_buf_index' \in 0 .. 256
      BY <2>1, <2>2
    <2>6. pc' = "process" => rx_curr_len # 0 /\ rx_buf_index' < rx_curr_len
      BY <2>1, <2>2
    <2> QED  BY <1>1, <2>1, <2>3, <2>4, <2>5, <2>6 DEF LineInv
  <1> QED  BY <1>3, <1>4 DEF FramingInv

LEMMA ReadKept ==
  ASSUME LineInv, NEW n \in Chunks \cup {0}, Read(n), faults' \in 0 .. MaxFaults
  PROVE  LineInv'
  <1>1. PICK s, g : s = stream /\ g = given
    OBVIOUS
  <1>2. s \in Seq(Byte) /\ Len(s) \in Nat /\ g \in 0 .. Len(s) /\ n \in 0 .. 256 /\ g + n <= Len(s)
    BY <1>1, LengthTypes, Rooms DEF LineInv, Read
  <1>3. given' \in 0 .. Len(stream') /\ stream' \in Seq(Byte)
    BY <1>1, <1>2 DEF Read
  <1>4. rx_buf' \in Seq(Byte) /\ (n # 0 => n = Len(rx_buf'))
    <2>1. CASE n = 0
      BY <2>1 DEF Read, LineInv
    <2>2. CASE n # 0
      <3>1. PICK m, k : m = g + 1 /\ k = g + n
        OBVIOUS
      <3>2. m \in Int /\ k \in Int /\ m <= k /\ k - m + 1 = n
        BY <1>2, <2>2, <3>1
      <3>3. \A i \in m .. k : s[i] \in Byte
        BY <1>2, <3>1
      <3>4. SubSeq(s, m, k) \in Seq(Byte) /\ Len(SubSeq(s, m, k)) = IF m <= k THEN k - m + 1 ELSE 0
        BY <3>2, <3>3, SubSeqProperties
      <3>5. rx_buf' = SubSeq(s, m, k)
        BY <1>1, <2>2, <3>1 DEF Read
      <3> QED  BY <3>2, <3>4, <3>5
    <2> QED  BY <2>1, <2>2
  <1>5. /\ rx_curr_len' = n /\ rx_buf_index' = 0 /\ pc' = "process" /\ stale' = stale
    BY DEF Read
  <1>6. IF n = 0 THEN 0 = 0 ELSE 0 < n
    BY <1>2
  <1> QED  BY <1>3, <1>4, <1>5, <1>6 DEF LineInv

LEMMA FramingNext == ASSUME FramingInv, [Next]_vars PROVE FramingInv'
  <1>1. LineInv /\ FrameInv /\ UbxFits /\ RtcmOverrun
    BY DEF FramingInv
  <1>2. ASSUME UNCHANGED <<rx_state, ubx_buf, rtcm_buf>>, output' = output \/ output' = << >>, LineInv'
        PROVE  FramingInv'
    <2>1. Len(output') \in {0, 1}
      <3>1. Len(<< >>) = 0
        OBVIOUS
      <3> QED  BY <1>1, <1>2, <3>1 DEF FrameInv
    <2> QED  BY <1>1, <1>2, <2>1 DEF FramingInv, FrameInv, UbxFits, RtcmOverrun
  <1>3. CASE Call
    <2>1. /\ UNCHANGED <<stream, given, faults, stale, rx_buf, rx_curr_len, rx_buf_index>>
          /\ UNCHANGED <<rx_state, ubx_buf, rtcm_buf>> /\ output' = << >>
          /\ pc' = IF rx_buf_index >= rx_curr_len THEN "read" ELSE "process"
      BY <1>3 DEF Call, line
    <2>2. rx_buf_index \in Nat /\ rx_curr_len \in Nat
      BY <1>1, Rooms DEF LineInv
    <2>3. /\ pc' \in {"returned", "read", "process"}
          /\ pc' = "process" => rx_curr_len # 0 /\ rx_buf_index < rx_curr_len
      BY <2>1, <2>2
    <2>4. LineInv'
      BY <1>1, <2>1, <2>3 DEF LineInv
    <2> QED  BY <1>2, <2>1, <2>4
  <1>4. CASE ReadSome
    <2>1. PICK n \in Chunks : Read(n) /\ faults' = faults
      BY <1>4 DEF ReadSome
    <2>2. faults' \in 0 .. MaxFaults
      BY <1>1, <2>1 DEF LineInv
    <2> QED  BY <1>1, <1>2, <2>1, <2>2, ReadKept DEF Read, frame
  <1>5. CASE ReadNothing
    <2>1. faults' \in 0 .. MaxFaults
      BY <1>1, <1>5, Rooms DEF ReadNothing, LineInv
    <2>2. Read(0)
      BY <1>5 DEF ReadNothing
    <2> QED  BY <1>1, <1>2, <2>1, <2>2, ReadKept DEF Read, frame
  <1>6. CASE ReadFails
    <2>1. faults' \in 0 .. MaxFaults
      BY <1>1, <1>6, Rooms DEF ReadFails, LineInv
    <2>2. /\ UNCHANGED <<stream, given, stale, rx_buf, rx_curr_len, rx_buf_index>>
          /\ UNCHANGED <<rx_state, ubx_buf, rtcm_buf, output>> /\ pc' = "returned"
      BY <1>6 DEF ReadFails, frame
    <2>3. LineInv'
      BY <1>1, <2>1, <2>2 DEF LineInv
    <2> QED  BY <1>2, <2>2, <2>3
  <1>7. CASE UNCHANGED vars
    <2>1. UNCHANGED <<stream, given, faults, stale, pc, rx_buf, rx_curr_len, rx_buf_index, rx_state,
                      ubx_buf, rtcm_buf, output>>
      BY <1>7 DEF vars
    <2>2. LineInv'
      BY <1>1, <2>1 DEF LineInv
    <2> QED  BY <1>2, <2>1, <2>2
  <1> QED  BY <1>3, <1>4, <1>5, <1>6, <1>7, ProcessKept DEF Next

LEMMA FramingInit == ASSUME Init PROVE FramingInv
  <1>1. << >> \in Seq(Byte) /\ Len(<< >>) = 0
    OBVIOUS
  <1>2. LineInv
    <2>1. stream \in Seq(Byte) /\ Len(stream) \in Nat
      <3>1. stream \in Seq(Byte)
        BY Rooms DEF Init
      <3> QED  BY <3>1, LengthTypes
    <2>2. 0 \in 0 .. Len(stream) /\ 0 \in 0 .. MaxFaults /\ 0 \in 0 .. 256
      BY <2>1, Rooms
    <2> QED  BY <1>1, <2>1, <2>2 DEF Init, LineInv
  <1>3. FrameInv
    BY <1>1 DEF Init, FrameInv, States
  <1>4. UbxFits /\ RtcmOverrun
    BY <1>1, Rooms DEF Init, UbxFits, RtcmOverrun
  <1> QED  BY <1>2, <1>3, <1>4 DEF FramingInv

\* The decoder's invariant holds in every state, whatever the line carries.
THEOREM FramingInvariance == Spec => []FramingInv
  BY FramingInit, FramingNext, PTL DEF Spec

\* ublox_protocol_rx_framing_exec.c:127: whatever the line carries and however it is
\* cut into reads, a UBX frame stays within ubx_buf, for every ubx_frame_size of at
\* least a frame without payload.
THEOREM UbxFramesFit == Spec => []UbxFits
  BY FramingInvariance, PTL DEF FramingInv

\* ublox_protocol_rx_framing_exec.c:141: the RTCM frame that runs past the end of
\* rtcm_buf (run rtcm_overflow) does so by two bytes at most, for every
\* rtcm_frame_size.
THEOREM RtcmOverrunBounded == Spec => []RtcmOverrun
  BY FramingInvariance, PTL DEF FramingInv

\* ublox_protocol_rx_framing_exec.c: the states of ubx_process, the buffers' types and
\* how full each is in each state, for every stream.
THEOREM FramingTypeCorrect == Spec => []TypeOK
  <1>1. FramingInv => TypeOK
    <2> SUFFICES ASSUME LineInv, FrameInv PROVE TypeOK
      BY DEF FramingInv
    <2>1. \A b \in {rx_buf, ubx_buf, rtcm_buf} : b \in Seq(0 .. 255)
      BY DEF LineInv, FrameInv, Byte
    <2>2. Len(output) <= 1
      <3>1. PICK n : n = Len(output)
        OBVIOUS
      <3>2. n \in {0, 1}
        BY <3>1 DEF FrameInv
      <3> QED  BY <3>1, <3>2
    <2>3. rx_state = "RTCM_WAIT_LENGTH" => Len(rtcm_buf) \in {1, 2}
      BY DEF FrameInv
    <2> QED  BY <2>1, <2>2, <2>3 DEF LineInv, FrameInv, TypeOK
  <1> QED  BY <1>1, FramingInvariance, PTL

-----------------------------------------------------------------------------
(* The recursion of FramesFrom: a function as FramesFrom(s) is defined by     *)
(* exists, so what CHOOSE names is one.                                       *)

\* What holds of N, and of each index when it holds of all above, holds of all.
LEMMA Downwards ==
  ASSUME NEW N \in Nat, NEW T,
         \A i \in 1 .. N : (\A j \in i + 1 .. N : j \in T) => i \in T
  PROVE  1 .. N \subseteq T
  <1> SUFFICES ASSUME ~(1 .. N \subseteq T) PROVE FALSE
    OBVIOUS
  <1> DEFINE D == {d \in 0 .. N : N - d \in (1 .. N) \ T}
  <1>1. D \subseteq Nat /\ D # {}
    <2>1. PICK i \in 1 .. N : i \notin T
      OBVIOUS
    <2>2. N - i \in 0 .. N /\ N - (N - i) = i
      OBVIOUS
    <2>3. N - i \in D
      BY <2>1, <2>2
    <2>4. \A d \in 0 .. N : d \in Nat
      OBVIOUS
    <2> QED  BY <2>3, <2>4, Zenon
  <1>2. IsWellFoundedOn(OpToRel(<, Nat), Nat)
    BY NatLessThanWellFounded, Zenon
  <1>3. PICK d \in D : \A y \in D : ~(<<y, d>> \in OpToRel(<, Nat))
    <2> HIDE DEF D
    <2> QED  BY <1>1, <1>2, WFMin, Zenon
  <1>4. \A y \in D : ~(y < d)
    <2> SUFFICES ASSUME NEW y \in D, y < d PROVE <<y, d>> \in OpToRel(<, Nat)
      BY <1>3, Zenon
    <2>1. <<y, d>> \in Nat \X Nat /\ <<y, d>>[1] = y /\ <<y, d>>[2] = d
      BY <1>1
    <2> QED  BY <2>1, Zenon DEF OpToRel
  <1>5. PICK i : i = N - d
    OBVIOUS
  <1>6. i \in 1 .. N /\ i \notin T /\ d \in 0 .. N
    BY <1>5
  <1>7. PICK j \in i + 1 .. N : j \notin T
    BY <1>6
  <1>8. N - j \in 0 .. N /\ N - (N - j) = j /\ N - j < d
    BY <1>5, <1>6, <1>7
  <1>9. N - j \in D
    BY <1>6, <1>7, <1>8
  <1> QED  BY <1>4, <1>8, <1>9

\* g satisfies the recursion on lo .. N that ends in E and goes up by next elsewhere.
Recurs(g, lo, N, E, a, next) ==
  g = [i \in lo .. N |-> IF i \in E THEN << >> ELSE a[i] \o g[next[i]]]

\* Built from N downwards, one position at a time.
LEMMA RecursionExists ==
  ASSUME NEW N \in Nat \ {0}, NEW E, NEW a, NEW next,
         \A i \in (1 .. N) \ E : next[i] \in i + 1 .. N
  PROVE  \E g : Recurs(g, 1, N, E, a, next)
  <1> DEFINE Def(g, k) == Recurs(g, k, N, E, a, next)
             T == {k \in 1 .. N : \E g : Def(g, k)}
  <1>1. ASSUME NEW k \in 1 .. N, \A j \in k + 1 .. N : j \in T PROVE k \in T
    <2>1. CASE k = N
      <3>1. k \in E
        BY <2>1
      <3> DEFINE h == [i \in k .. N |-> << >>]
      <3>2. Def(h, k)
        BY <2>1, <3>1 DEF Recurs
      <3> QED  BY <3>2
    <2>2. CASE k # N
      <3>1. k + 1 \in k + 1 .. N /\ k + 1 \in 1 .. N
        BY <2>2
      <3>2. PICK g : Def(g, k + 1)
        BY <1>1, <3>1
      <3> DEFINE h == [i \in k .. N |-> IF i \in k + 1 .. N THEN g[i]
                                        ELSE IF i \in E THEN << >> ELSE a[i] \o g[next[i]]]
      <3>3. \A i \in k .. N : i \notin E => next[i] \in k + 1 .. N /\ h[next[i]] = g[next[i]]
        <4>1. TAKE i \in k .. N
        <4>2. HAVE i \notin E
        <4>3. i \in 1 .. N
          OBVIOUS
        <4>4. next[i] \in i + 1 .. N
          BY <4>2, <4>3
        <4>5. next[i] \in k + 1 .. N /\ next[i] \in k .. N
          BY <4>4
        <4> QED  BY <4>5
      <3>4. \A i \in k .. N : h[i] = IF i \in E THEN << >> ELSE a[i] \o g[next[i]]
        BY <3>2 DEF Recurs
      <3>5. Def(h, k)
        <4>1. \A i \in k .. N : h[i] = IF i \in E THEN << >> ELSE a[i] \o h[next[i]]
          <5> HIDE DEF h
          <5> QED  BY <3>3, <3>4
        <4>2. h = [i \in k .. N |-> h[i]]
          OBVIOUS
        <4> HIDE DEF h
        <4> QED  BY <4>1, <4>2 DEF Recurs
      <3> HIDE DEF h, Def
      <3> QED  BY <3>5
    <2> QED  BY <2>1, <2>2
  <1>2. 1 .. N \subseteq T
    <2> HIDE DEF T
    <2> QED  BY <1>1, Downwards
  <1>3. 1 \in T
    <2> HIDE DEF T
    <2> QED  BY <1>2
  <1> QED  BY <1>3

\* The function FramesFrom(s) satisfies the equation that defines it.
LEMMA Unfolding ==
  ASSUME NEW s, Len(s) \in Nat,
         \A i \in 1 .. Len(s) + 1 : ~Incomplete(s, i) => UnitSize(s, i) \in Nat \ {0}
  PROVE  FramesFrom(s) =
           [i \in 1 .. Len(s) + 1 |->
              IF Incomplete(s, i) THEN << >>
              ELSE FrameOf(SubSeq(s, i, i + UnitSize(s, i) - 1))
                   \o FramesFrom(s)[i + UnitSize(s, i)]]
  <1> DEFINE S == 1 .. Len(s) + 1
             E == {i \in S : Incomplete(s, i)}
             next == [i \in S |-> i + UnitSize(s, i)]
             a == [i \in S |-> FrameOf(SubSeq(s, i, i + UnitSize(s, i) - 1))]
             Def(g) == g = [i \in S |->
               IF Incomplete(s, i) THEN << >>
               ELSE FrameOf(SubSeq(s, i, i + UnitSize(s, i) - 1)) \o g[i + UnitSize(s, i)]]
  <1>1. \A i \in S \ E : next[i] \in i + 1 .. Len(s) + 1
    BY DEF Incomplete
  <1>2. \E g : Recurs(g, 1, Len(s) + 1, E, a, next)
    <2>1. Len(s) + 1 \in Nat \ {0}
      OBVIOUS
    <2> HIDE DEF E, next, a
    <2> QED  BY <1>1, <2>1, RecursionExists
  <1>3. \E g : Def(g)
    <2>1. PICK g : g = [i \in S |-> IF i \in E THEN << >> ELSE a[i] \o g[next[i]]]
      BY <1>2 DEF Recurs
    <2>2. \A i \in S : (IF i \in E THEN << >> ELSE a[i] \o g[next[i]])
              = IF Incomplete(s, i) THEN << >>
                ELSE FrameOf(SubSeq(s, i, i + UnitSize(s, i) - 1)) \o g[i + UnitSize(s, i)]
      OBVIOUS
    <2> QED  BY <2>1, <2>2
  <1>4. FramesFrom(s) = CHOOSE g : Def(g)
    BY DEF FramesFrom
  <1>5. Def(FramesFrom(s))
    <2> HIDE DEF Def
    <2> QED  BY <1>3, <1>4
  <1> QED  BY <1>5

-----------------------------------------------------------------------------
(* The units of a byte sequence *)

LEMMA FrameOfType == ASSUME NEW u \in Seq(Byte) PROVE FrameOf(u) \in Seq(Seq(Byte))
  <1>1. PICK n : n = Len(u)
    OBVIOUS
  <1>2. SubSeq(u, 3, n) \in Seq(Byte)
    <2>1. n \in Nat /\ \A i \in 3 .. n : u[i] \in Byte
      BY <1>1
    <2> QED  BY <2>1, SubSeqProperties
  <1>3. \A f \in Seq(Byte) : <<f>> \in Seq(Seq(Byte))
    OBVIOUS
  <1>4. << >> \in Seq(Seq(Byte))
    OBVIOUS
  <1>5. FrameOf(u) \in {<< >>, <<u>>, <<SubSeq(u, 3, Len(u))>>}
    BY DEF FrameOf
  <1> QED  BY <1>1, <1>2, <1>3, <1>4, <1>5

\* The cases of UnitSize.
LEMMA UnitSizeCases ==
  ASSUME NEW s, NEW i
  PROVE  /\ s[i] \notin {SC1, PREAMBLE} => UnitSize(s, i) = 1
         /\ s[i] = SC1 => UnitSize(s, i) =
              IF ~(i + 1 <= Len(s)) \/ s[i + 1] # SC2 THEN 2
              ELSE IF ~(i + 5 <= Len(s)) \/ UbxLenAt(s, i) > UbxRoom THEN 6
              ELSE 8 + UbxLenAt(s, i)
         /\ s[i] = PREAMBLE => UnitSize(s, i) =
              IF ~(i + 2 <= Len(s)) \/ RtcmLenAt(s, i) > RtcmRoom THEN 3
              ELSE 6 + RtcmLenAt(s, i)
  BY DEF UnitSize, SC1, PREAMBLE

LEMMA UnitSizeType ==
  ASSUME NEW s \in Seq(Byte), NEW i \in 1 .. Len(s)
  PROVE  UnitSize(s, i) \in Nat \ {0}
  <1>1. Len(s) \in Nat /\ \A k \in 1 .. Len(s) : s[k] \in Nat
    <2>1. \A b \in Byte : b \in Nat
      BY DEF Byte
    <2> QED  BY <2>1
  <1>2. i + 5 <= Len(s) => UbxLenAt(s, i) \in Nat
    <2>1. i + 5 <= Len(s) => s[i + 4] \in Nat /\ s[i + 5] \in Nat
      BY <1>1
    <2> QED  BY <2>1 DEF UbxLenAt, RtcmLenAt
  <1>3. i + 2 <= Len(s) => RtcmLenAt(s, i) \in Nat
    <2>1. i + 2 <= Len(s) => s[i + 1] \in Nat /\ s[i + 2] \in Nat
      BY <1>1
    <2> QED  BY <2>1 DEF UbxLenAt, RtcmLenAt
  <1>4. CASE s[i] \notin {SC1, PREAMBLE}
    BY <1>4, UnitSizeCases
  <1>5. CASE s[i] = SC1
    <2>1. CASE i + 5 <= Len(s)
      BY <1>2, <1>5, <2>1, UnitSizeCases
    <2>2. CASE ~(i + 5 <= Len(s))
      BY <1>5, <2>2, UnitSizeCases
    <2> QED  BY <2>1, <2>2
  <1>6. CASE s[i] = PREAMBLE
    <2>1. CASE i + 2 <= Len(s)
      BY <1>3, <1>6, <2>1, UnitSizeCases
    <2>2. CASE ~(i + 2 <= Len(s))
      BY <1>6, <2>2, UnitSizeCases
    <2> QED  BY <2>1, <2>2
  <1> QED  BY <1>4, <1>5, <1>6

LEMMA FramesUnfold ==
  ASSUME NEW s \in Seq(Byte), NEW i \in 1 .. Len(s) + 1
  PROVE  FramesFrom(s)[i] =
           IF Incomplete(s, i) THEN << >>
           ELSE FrameOf(SubSeq(s, i, i + UnitSize(s, i) - 1))
                \o FramesFrom(s)[i + UnitSize(s, i)]
  <1>1. Len(s) \in Nat
    OBVIOUS
  <1>2. \A k \in 1 .. Len(s) + 1 : ~Incomplete(s, k) => UnitSize(s, k) \in Nat \ {0}
    <2> SUFFICES ASSUME NEW k \in 1 .. Len(s) + 1, ~Incomplete(s, k)
                 PROVE  UnitSize(s, k) \in Nat \ {0}
      OBVIOUS
    <2>1. k \in 1 .. Len(s)
      BY <1>1 DEF Incomplete
    <2> QED  BY <2>1, UnitSizeType
  <1>3. PICK f : f = FramesFrom(s)
    OBVIOUS
  <1>4. f = [k \in 1 .. Len(s) + 1 |->
               IF Incomplete(s, k) THEN << >>
               ELSE FrameOf(SubSeq(s, k, k + UnitSize(s, k) - 1)) \o f[k + UnitSize(s, k)]]
    BY <1>1, <1>2, <1>3, Unfolding
  <1> QED  BY <1>3, <1>4

LEMMA FramesFromType ==
  ASSUME NEW s \in Seq(Byte), NEW i \in 1 .. Len(s) + 1
  PROVE  FramesFrom(s)[i] \in Seq(Seq(Byte))
  <1>1. PICK N : N = Len(s) + 1
    OBVIOUS
  <1>2. Len(s) \in Nat /\ N \in Nat /\ i \in 1 .. N
    BY <1>1
  <1> DEFINE T == {k \in 1 .. N : FramesFrom(s)[k] \in Seq(Seq(Byte))}
  <1>3. ASSUME NEW k \in 1 .. N, \A j \in k + 1 .. N : j \in T PROVE k \in T
    <2>0. k \in 1 .. Len(s) + 1
      BY <1>1
    <2>1. CASE Incomplete(s, k)
      <3>1. FramesFrom(s)[k] = << >>
        BY <2>0, <2>1, FramesUnfold
      <3>2. FramesFrom(s)[k] \in Seq(Seq(Byte))
        BY <3>1, EmptySeq
      <3> QED  BY <3>2
    <2>2. CASE ~Incomplete(s, k)
      <3>1. PICK n : n = UnitSize(s, k)
        OBVIOUS
      <3>2. k \in 1 .. Len(s) /\ k + n <= Len(s) + 1
        <4>1. ~(k > Len(s)) /\ ~(k + n > Len(s) + 1)
          BY <2>2, <3>1 DEF Incomplete
        <4>2. PICK m : m = Len(s)
          OBVIOUS
        <4>3. k \in 1 .. m
          BY <1>1, <1>2, <4>1, <4>2
        <4>4. UnitSize(s, k) \in Nat
          BY <4>2, <4>3, UnitSizeType
        <4> QED  BY <1>2, <3>1, <4>1, <4>2, <4>3, <4>4
      <3>3. n \in Nat \ {0}
        BY <3>1, <3>2, UnitSizeType
      <3>4. k + n \in T
        BY <1>1, <1>2, <1>3, <3>2, <3>3
      <3>5. SubSeq(s, k, k + n - 1) \in Seq(Byte)
        <4>1. PICK l : l = k + n - 1
          OBVIOUS
        <4>2. k \in Int /\ l \in Int /\ \A j \in k .. l : s[j] \in Byte
          BY <1>2, <3>2, <3>3, <4>1
        <4>3. SubSeq(s, k, l) \in Seq(Byte)
          BY <4>2, SubSeqProperties
        <4> QED  BY <4>1, <4>3
      <3>6. FrameOf(SubSeq(s, k, k + n - 1)) \in Seq(Seq(Byte))
        BY <3>5, FrameOfType
      <3>7. FramesFrom(s)[k] = FrameOf(SubSeq(s, k, k + n - 1)) \o FramesFrom(s)[k + n]
        BY <2>0, <2>2, <3>1, FramesUnfold
      <3>8. FramesFrom(s)[k] \in Seq(Seq(Byte))
        BY <3>4, <3>6, <3>7, ConcatProperties
      <3> QED  BY <3>8
    <2> QED  BY <2>1, <2>2
  <1>4. 1 .. N \subseteq T
    <2> HIDE DEF T
    <2> QED  BY <1>2, <1>3, Downwards
  <1> QED  BY <1>2, <1>4

\* The length that the header of a UBX unit claims.
Claimed(u) == u[5] + 256 * u[6]

\* The byte sequences that are a unit each, and
Whole(u) ==
  \/ Len(u) = 1 /\ u[1] \notin {SC1, PREAMBLE}
  \/ Len(u) = 2 /\ u[1] = SC1 /\ u[2] # SC2
  \/ Len(u) = 6 /\ u[1] = SC1 /\ u[2] = SC2 /\ Claimed(u) > UbxRoom
  \/ /\ Len(u) >= 6 /\ Len(u) = 8 + Claimed(u)
     /\ u[1] = SC1 /\ u[2] = SC2 /\ Claimed(u) <= UbxRoom
  \/ Len(u) = 3 /\ u[1] = PREAMBLE /\ RtcmLen(u) > RtcmRoom
  \/ /\ Len(u) >= 3 /\ Len(u) = 6 + RtcmLen(u)
     /\ u[1] = PREAMBLE /\ RtcmLen(u) <= RtcmRoom

\* those that more bytes may make one.
Partial(u) ==
  \/ Len(u) = 0
  \/ Len(u) = 1 /\ u[1] = SC1
  \/ Len(u) \in 2 .. 5 /\ u[1] = SC1 /\ u[2] = SC2
  \/ /\ Len(u) >= 6 /\ Len(u) < 8 + Claimed(u)
     /\ u[1] = SC1 /\ u[2] = SC2 /\ Claimed(u) <= UbxRoom
  \/ Len(u) \in 1 .. 2 /\ u[1] = PREAMBLE
  \/ /\ Len(u) >= 3 /\ Len(u) < 6 + RtcmLen(u)
     /\ u[1] = PREAMBLE /\ RtcmLen(u) <= RtcmRoom

\* The bytes of s from i on begin with u.
Begins(s, i, u) == i + Len(u) <= Len(s) + 1 /\ \A k \in 1 .. Len(u) : s[i + k - 1] = u[k]

LEMMA BeginsByte ==
  ASSUME NEW s \in Seq(Byte), NEW u \in Seq(Byte), NEW i \in Nat \ {0}, Begins(s, i, u)
  PROVE  /\ Len(s) \in Nat /\ Len(u) \in Nat /\ i + Len(u) <= Len(s) + 1
         /\ \A k \in 1 .. Len(u) : s[i + k - 1] = u[k] /\ u[k] \in Nat
         /\ Len(u) >= 1 => s[i] = u[1]
         /\ Len(u) >= 2 => s[i + 1] = u[2]
         /\ Len(u) >= 3 => RtcmLenAt(s, i) = RtcmLen(u) /\ RtcmLen(u) \in Nat
         /\ Len(u) >= 6 => UbxLenAt(s, i) = Claimed(u) /\ Claimed(u) \in Nat
  <1>1. Len(s) \in Nat /\ Len(u) \in Nat /\ i + Len(u) <= Len(s) + 1
    BY DEF Begins
  <1>2. \A k \in 1 .. Len(u) : s[i + k - 1] = u[k] /\ u[k] \in Nat
    <2>1. \A b \in Byte : b \in Nat
      BY DEF Byte
    <2> QED  BY <2>1 DEF Begins
  <1>3. \A k \in 1 .. Len(u), j \in Nat : j = i + k - 1 => s[j] = u[k] /\ u[k] \in Nat
    BY <1>2
  <1>4. Len(u) >= 1 => s[i] = u[1]
    BY <1>1, <1>3
  <1>5. Len(u) >= 2 => s[i + 1] = u[2] /\ u[2] \in Nat
    BY <1>1, <1>3
  <1>6. Len(u) >= 3 => s[i + 2] = u[3] /\ u[3] \in Nat
    BY <1>1, <1>3
  <1>7. Len(u) >= 6 => s[i + 4] = u[5] /\ s[i + 5] = u[6] /\ u[5] \in Nat /\ u[6] \in Nat
    BY <1>1, <1>3
  <1>8. Len(u) >= 3 => RtcmLenAt(s, i) = RtcmLen(u) /\ RtcmLen(u) \in Nat
    <2> SUFFICES ASSUME Len(u) >= 3 PROVE RtcmLenAt(s, i) = RtcmLen(u) /\ RtcmLen(u) \in Nat
      OBVIOUS
    <2>1. s[i + 1] = u[2] /\ s[i + 2] = u[3] /\ u[2] \in Nat /\ u[3] \in Nat
      BY <1>1, <1>5, <1>6
    <2> QED  BY <2>1 DEF RtcmLenAt, RtcmLen
  <1>9. Len(u) >= 6 => UbxLenAt(s, i) = Claimed(u) /\ Claimed(u) \in Nat
    <2> SUFFICES ASSUME Len(u) >= 6 PROVE UbxLenAt(s, i) = Claimed(u) /\ Claimed(u) \in Nat
      OBVIOUS
    <2>1. s[i + 4] = u[5] /\ s[i + 5] = u[6] /\ u[5] \in Nat /\ u[6] \in Nat
      BY <1>7
    <2> QED  BY <2>1 DEF UbxLenAt, Claimed
  <1> QED  BY <1>1, <1>2, <1>4, <1>5, <1>8, <1>9

\* A unit that is all there has the size that UnitSize says, whatever follows it.
LEMMA WholeSize ==
  ASSUME NEW s \in Seq(Byte), NEW u \in Seq(Byte), NEW i \in Nat \ {0}, Begins(s, i, u), Whole(u)
  PROVE  UnitSize(s, i) = Len(u)
  <1>1. PICK n : n = Len(u)
    OBVIOUS
  <1>2. /\ Len(s) \in Nat /\ n \in Nat /\ i + n <= Len(s) + 1
        /\ n >= 1 => s[i] = u[1]
        /\ n >= 2 => s[i + 1] = u[2]
        /\ n >= 3 => RtcmLenAt(s, i) = RtcmLen(u) /\ RtcmLen(u) \in Nat
        /\ n >= 6 => UbxLenAt(s, i) = Claimed(u) /\ Claimed(u) \in Nat
    BY <1>1, BeginsByte
  <1>3. UbxRoom \in Nat /\ RtcmRoom \in Nat
    BY Rooms
  <1>4. CASE n = 1 /\ u[1] \notin {SC1, PREAMBLE}
    BY <1>1, <1>2, <1>4, UnitSizeCases
  <1>5. CASE n = 2 /\ u[1] = SC1 /\ u[2] # SC2
    BY <1>1, <1>2, <1>5, UnitSizeCases DEF SC1, PREAMBLE
  <1>6. CASE n = 6 /\ u[1] = SC1 /\ u[2] = SC2 /\ Claimed(u) > UbxRoom
    <2>1. /\ s[i] = SC1 /\ s[i + 1] = SC2 /\ i + 1 <= Len(s)
          /\ UbxLenAt(s, i) = Claimed(u)
      BY <1>2, <1>6
    <2> QED  BY <1>1, <1>6, <2>1, UnitSizeCases
  <1>7. CASE n >= 6 /\ n = 8 + Claimed(u) /\ u[1] = SC1 /\ u[2] = SC2 /\ Claimed(u) <= UbxRoom
    <2>1. /\ s[i] = SC1 /\ s[i + 1] = SC2 /\ i + 1 <= Len(s) /\ i + 5 <= Len(s)
          /\ UbxLenAt(s, i) = Claimed(u) /\ ~(Claimed(u) > UbxRoom)
      <3>1. s[i] = SC1 /\ s[i + 1] = SC2 /\ UbxLenAt(s, i) = Claimed(u) /\ Claimed(u) \in Nat
        BY <1>2, <1>7
      <3>2. i + 1 <= Len(s) /\ i + 5 <= Len(s)
        BY <1>2, <1>7
      <3>3. ~(Claimed(u) > UbxRoom)
        BY <1>3, <1>7, <3>1
      <3> QED  BY <3>1, <3>2, <3>3
    <2>2. UnitSize(s, i) = 8 + Claimed(u)
      BY <2>1, UnitSizeCases
    <2> QED  BY <1>1, <1>7, <2>2
  <1>8. CASE n = 3 /\ u[1] = PREAMBLE /\ RtcmLen(u) > RtcmRoom
    <2>1. s[i] = PREAMBLE /\ RtcmLenAt(s, i) = RtcmLen(u)
      BY <1>2, <1>8
    <2> QED  BY <1>1, <1>8, <2>1, UnitSizeCases
  <1>9. CASE n >= 3 /\ n = 6 + RtcmLen(u) /\ u[1] = PREAMBLE /\ RtcmLen(u) <= RtcmRoom
    <2>1. /\ s[i] = PREAMBLE /\ i + 2 <= Len(s)
          /\ RtcmLenAt(s, i) = RtcmLen(u) /\ ~(RtcmLen(u) > RtcmRoom)
      <3>1. s[i] = PREAMBLE /\ RtcmLenAt(s, i) = RtcmLen(u) /\ RtcmLen(u) \in Nat
        BY <1>2, <1>9
      <3>2. i + 2 <= Len(s)
        BY <1>2, <1>9
      <3>3. ~(RtcmLen(u) > RtcmRoom)
        BY <1>3, <1>9, <3>1
      <3> QED  BY <3>1, <3>2, <3>3
    <2>2. UnitSize(s, i) = 6 + RtcmLen(u)
      BY <2>1, UnitSizeCases
    <2> QED  BY <1>1, <1>9, <2>2
  <1> QED  BY <1>1, <1>4, <1>5, <1>6, <1>7, <1>8, <1>9 DEF Whole

\* Where s ends within a unit, that unit is incomplete.
LEMMA PartialIncomplete ==
  ASSUME NEW s \in Seq(Byte), NEW u \in Seq(Byte), NEW i \in Nat \ {0}, Begins(s, i, u), Partial(u),
         i + Len(u) = Len(s) + 1
  PROVE  Incomplete(s, i)
  <1>1. PICK n : n = Len(u)
    OBVIOUS
  <1>2. /\ Len(s) \in Nat /\ n \in Nat /\ i + n = Len(s) + 1
        /\ n >= 1 => s[i] = u[1]
        /\ n >= 2 => s[i + 1] = u[2]
        /\ n >= 3 => RtcmLenAt(s, i) = RtcmLen(u) /\ RtcmLen(u) \in Nat
        /\ n >= 6 => UbxLenAt(s, i) = Claimed(u) /\ Claimed(u) \in Nat
    BY <1>1, BeginsByte
  <1>3. UbxRoom \in Nat /\ RtcmRoom \in Nat
    BY Rooms
  <1>4. CASE n = 0
    BY <1>2, <1>4 DEF Incomplete
  <1>5. CASE n = 1 /\ u[1] = SC1
    <2>1. UnitSize(s, i) = 2
      BY <1>2, <1>5, UnitSizeCases DEF SC1, PREAMBLE
    <2> QED  BY <1>2, <1>5, <2>1 DEF Incomplete
  <1>6. CASE n \in 2 .. 5 /\ u[1] = SC1 /\ u[2] = SC2
    <2>1. UnitSize(s, i) = 6
      BY <1>2, <1>6, UnitSizeCases DEF SC1, PREAMBLE
    <2> QED  BY <1>2, <1>6, <2>1 DEF Incomplete
  <1>7. CASE n >= 6 /\ n < 8 + Claimed(u) /\ u[1] = SC1 /\ u[2] = SC2 /\ Claimed(u) <= UbxRoom
    <2>1. /\ s[i] = SC1 /\ s[i + 1] = SC2 /\ i + 1 <= Len(s) /\ i + 5 <= Len(s)
          /\ UbxLenAt(s, i) = Claimed(u) /\ ~(Claimed(u) > UbxRoom)
      <3>1. s[i] = SC1 /\ s[i + 1] = SC2 /\ UbxLenAt(s, i) = Claimed(u) /\ Claimed(u) \in Nat
        BY <1>2, <1>7
      <3>2. i + 1 <= Len(s) /\ i + 5 <= Len(s)
        BY <1>2, <1>7
      <3>3. ~(Claimed(u) > UbxRoom)
        BY <1>3, <1>7, <3>1
      <3> QED  BY <3>1, <3>2, <3>3
    <2>2. UnitSize(s, i) = 8 + Claimed(u)
      BY <2>1, UnitSizeCases
    <2> QED  BY <1>2, <1>7, <2>2 DEF Incomplete
  <1>8. CASE n \in 1 .. 2 /\ u[1] = PREAMBLE
    <2>1. UnitSize(s, i) = 3
      BY <1>2, <1>8, UnitSizeCases DEF SC1, PREAMBLE
    <2> QED  BY <1>2, <1>8, <2>1 DEF Incomplete
  <1>9. CASE n >= 3 /\ n < 6 + RtcmLen(u) /\ u[1] = PREAMBLE /\ RtcmLen(u) <= RtcmRoom
    <2>1. /\ s[i] = PREAMBLE /\ i + 2 <= Len(s)
          /\ RtcmLenAt(s, i) = RtcmLen(u) /\ ~(RtcmLen(u) > RtcmRoom)
      <3>1. s[i] = PREAMBLE /\ RtcmLenAt(s, i) = RtcmLen(u) /\ RtcmLen(u) \in Nat
        BY <1>2, <1>9
      <3>2. i + 2 <= Len(s)
        BY <1>2, <1>9
      <3>3. ~(RtcmLen(u) > RtcmRoom)
        BY <1>3, <1>9, <3>1
      <3> QED  BY <3>1, <3>2, <3>3
    <2>2. UnitSize(s, i) = 6 + RtcmLen(u)
      BY <2>1, UnitSizeCases
    <2> QED  BY <1>2, <1>9, <2>2 DEF Incomplete
  <1> QED  BY <1>1, <1>4, <1>5, <1>6, <1>7, <1>8, <1>9 DEF Partial

-----------------------------------------------------------------------------
(* The unit that is being read *)

\* Its bytes so far.
Unit ==
  CASE rx_state \in {"RESET", "WAIT_START_SC"} -> << >>
    [] rx_state = "UBX_WAIT_SC2" -> <<SC1>>
    [] rx_state \in {"UBX_WAIT_LENGTH", "UBX_WAIT_REST"} -> <<SC1, SC2>> \o ubx_buf
    [] rx_state \in {"RTCM_WAIT_LENGTH", "RTCM_WAIT_REST"} -> rtcm_buf

\* rtcm_buf, unlike ubx_buf, begins with the byte that started the frame.
HeadInv == rx_state \in {"RTCM_WAIT_LENGTH", "RTCM_WAIT_REST"} => rtcm_buf[1] = PREAMBLE

LEMMA ByteCodes == SC1 \in Byte /\ SC2 \in Byte /\ PREAMBLE \in Byte
  BY DEF SC1, SC2, PREAMBLE, Byte

\* A UBX unit: the two start bytes, then ubx_buf.
LEMMA UbxUnit ==
  ASSUME NEW b \in Seq(Byte)
  PROVE  /\ <<SC1, SC2>> \o b \in Seq(Byte)
         /\ Len(b) \in Nat /\ Len(<<SC1, SC2>> \o b) = Len(b) + 2
         /\ (<<SC1, SC2>> \o b)[1] = SC1 /\ (<<SC1, SC2>> \o b)[2] = SC2
         /\ \A i \in 1 .. Len(b) : (<<SC1, SC2>> \o b)[i + 2] = b[i]
         /\ Len(b) >= 4 => Claimed(<<SC1, SC2>> \o b) = UbxLen(b)
         /\ SubSeq(<<SC1, SC2>> \o b, 3, Len(b) + 2) = b
  <1>1. <<SC1, SC2>> \in Seq(Byte) /\ Len(<<SC1, SC2>>) = 2
    BY ByteCodes
  <1>2. PICK u : u = <<SC1, SC2>> \o b
    OBVIOUS
  <1>3. PICK n : n = Len(b)
    OBVIOUS
  <1>4. n \in Nat
    BY <1>3
  <1>5. /\ u \in Seq(Byte) /\ Len(u) = n + 2
        /\ \A i \in 1 .. 2 + n : u[i] = IF i <= 2 THEN <<SC1, SC2>>[i] ELSE b[i - 2]
    BY <1>1, <1>2, <1>3, <1>4, ConcatProperties
  <1>6. u[1] = SC1 /\ u[2] = SC2
    <2>1. 1 \in 1 .. 2 + n /\ 2 \in 1 .. 2 + n
      BY <1>4
    <2> QED  BY <1>5, <2>1
  <1>7. \A i \in 1 .. n : u[i + 2] = b[i]
    <2>1. TAKE i \in 1 .. n
    <2>2. PICK j : j = i + 2
      OBVIOUS
    <2>3. j \in 1 .. 2 + n /\ ~(j <= 2) /\ j - 2 = i
      BY <1>4, <2>2
    <2>4. u[j] = b[i]
      BY <1>5, <2>3
    <2> QED  BY <2>2, <2>4
  <1>8. n >= 4 => u[5] = b[3] /\ u[6] = b[4]
    <2> SUFFICES ASSUME n >= 4 PROVE u[5] = b[3] /\ u[6] = b[4]
      OBVIOUS
    <2>1. 3 \in 1 .. n /\ 4 \in 1 .. n
      BY <1>4
    <2>2. u[3 + 2] = b[3] /\ u[4 + 2] = b[4]
      BY <1>7, <2>1
    <2> QED  BY <2>2
  <1>9. n >= 4 => Claimed(u) = UbxLen(b)
    BY <1>8 DEF Claimed, UbxLen
  <1>10. SubSeq(u, 3, n + 2) = b
    <2>1. PICK m : m = n + 2
      OBVIOUS
    <2>2. m \in Int /\ \A i \in 3 .. m : u[i] \in Byte
      BY <1>4, <1>5, <2>1
    <2>3. /\ SubSeq(u, 3, m) \in Seq(Byte)
          /\ Len(SubSeq(u, 3, m)) = IF 3 <= m THEN m - 3 + 1 ELSE 0
          /\ \A i \in 1 .. m - 3 + 1 : SubSeq(u, 3, m)[i] = u[3 + i - 1]
      BY <2>2, SubSeqProperties
    <2>4. Len(SubSeq(u, 3, m)) = n
      BY <1>4, <2>1, <2>3
    <2>5. \A i \in 1 .. n : SubSeq(u, 3, m)[i] = b[i]
      <3>1. TAKE i \in 1 .. n
      <3>2. i \in 1 .. m - 3 + 1 /\ 3 + i - 1 = i + 2
        BY <1>4, <2>1
      <3> QED  BY <1>7, <2>3, <3>2
    <2>6. SubSeq(u, 3, m) = b
      BY <1>3, <2>3, <2>4, <2>5, SeqEqual
    <2> QED  BY <2>1, <2>6
  <1> QED  BY <1>2, <1>3, <1>4, <1>5, <1>6, <1>7, <1>9, <1>10

\* The unit of each state.
LEMMA UnitCases ==
  /\ rx_state \in {"RESET", "WAIT_START_SC"} => Unit = << >>
  /\ rx_state = "UBX_WAIT_SC2" => Unit = <<SC1>>
  /\ rx_state \in {"UBX_WAIT_LENGTH", "UBX_WAIT_REST"} => Unit = <<SC1, SC2>> \o ubx_buf
  /\ rx_state \in {"RTCM_WAIT_LENGTH", "RTCM_WAIT_REST"} => Unit = rtcm_buf
  BY DEF Unit

\* It lacks bytes.
LEMMA UnitPartial ==
  ASSUME FrameInv, HeadInv
  PROVE  Unit \in Seq(Byte) /\ Partial(Unit)
  <1>0. ubx_buf \in Seq(Byte) /\ rtcm_buf \in Seq(Byte)
    BY DEF FrameInv
  <1>1. CASE rx_state \in {"RESET", "WAIT_START_SC"}
    <2>1. << >> \in Seq(Byte) /\ Len(<< >>) = 0
      OBVIOUS
    <2> QED  BY <1>1, <2>1, UnitCases DEF Partial
  <1>2. CASE rx_state = "UBX_WAIT_SC2"
    <2>1. <<SC1>> \in Seq(Byte) /\ Len(<<SC1>>) = 1 /\ <<SC1>>[1] = SC1
      BY ByteCodes
    <2> QED  BY <1>2, <2>1, UnitCases DEF Partial
  <1>3. CASE rx_state \in {"UBX_WAIT_LENGTH", "UBX_WAIT_REST"}
    <2>1. PICK u : u = Unit
      OBVIOUS
    <2>2. /\ u \in Seq(Byte) /\ Len(ubx_buf) \in Nat /\ Len(u) = Len(ubx_buf) + 2
          /\ u[1] = SC1 /\ u[2] = SC2 /\ (Len(ubx_buf) >= 4 => Claimed(u) = UbxLen(ubx_buf))
      BY <1>0, <1>3, <2>1, UnitCases, UbxUnit
    <2>3. CASE rx_state = "UBX_WAIT_LENGTH"
      <3>1. Len(u) \in 2 .. 5
        BY <2>2, <2>3 DEF FrameInv
      <3> QED  BY <2>1, <2>2, <3>1 DEF Partial
    <2>4. CASE rx_state = "UBX_WAIT_REST"
      <3>1. Len(ubx_buf) \in 4 .. UbxLen(ubx_buf) + 5 /\ UbxLen(ubx_buf) <= UbxRoom
        BY <2>4 DEF FrameInv
      <3>2. Len(ubx_buf) >= 4 /\ UbxLen(ubx_buf) \in Nat
        BY <1>0, <2>2, <3>1, LengthTypes
      <3>3. Len(u) >= 6 /\ Len(u) < 8 + Claimed(u) /\ Claimed(u) <= UbxRoom
        BY <2>2, <3>1, <3>2
      <3> QED  BY <2>1, <2>2, <3>3 DEF Partial
    <2> QED  BY <1>3, <2>3, <2>4
  <1>4. CASE rx_state = "RTCM_WAIT_LENGTH"
    BY <1>0, <1>4, UnitCases DEF FrameInv, HeadInv, Partial
  <1>5. CASE rx_state = "RTCM_WAIT_REST"
    <2>1. PICK u : u = Unit
      OBVIOUS
    <2>2. /\ u = rtcm_buf /\ u \in Seq(Byte) /\ u[1] = PREAMBLE
          /\ Len(u) \in 3 .. RtcmLen(u) + 5 /\ RtcmLen(u) <= RtcmRoom
      BY <1>0, <1>5, <2>1, UnitCases DEF FrameInv, HeadInv
    <2>3. Len(u) \in Nat /\ Len(u) >= 3
      BY <2>2
    <2>4. RtcmLen(u) \in Nat
      BY <2>2, <2>3, LengthTypes
    <2>5. Len(u) < 6 + RtcmLen(u)
      BY <2>2, <2>3, <2>4
    <2> QED  BY <2>1, <2>2, <2>3, <2>5 DEF Partial
  <1> QED  BY <1>1, <1>2, <1>3, <1>4, <1>5 DEF FrameInv, States

LEMMA AppendToUbx ==
  ASSUME NEW b \in Seq(Byte), NEW c \in Byte
  PROVE  Append(<<SC1, SC2>> \o b, c) = <<SC1, SC2>> \o Append(b, c)
  <1>1. <<SC1, SC2>> \in Seq(Byte) /\ <<c>> \in Seq(Byte)
    BY ByteCodes
  <1>2. PICK h : h = <<SC1, SC2>>
    OBVIOUS
  <1>3. h \in Seq(Byte) /\ h \o b \in Seq(Byte)
    BY <1>1, <1>2, ConcatProperties
  <1>4. Append(h \o b, c) = (h \o b) \o <<c>> /\ Append(b, c) = b \o <<c>>
    BY <1>3, AppendIsConcat
  <1>5. (h \o b) \o <<c>> = h \o (b \o <<c>>)
    BY <1>1, <1>3, ConcatAssociative
  <1> QED  BY <1>2, <1>4, <1>5

\* A header that claims too much, and bytes that start nothing, are no frame.
LEMMA NoFrame ==
  ASSUME NEW u \in Seq(Byte),
         \/ u[1] \notin {SC1, PREAMBLE}
         \/ u[1] = SC1 /\ ~(Len(u) >= 8)
         \/ u[1] = PREAMBLE /\ ~(Len(u) >= 6)
  PROVE  FrameOf(u) = << >>
  <1>1. SC1 # PREAMBLE
    BY DEF SC1, PREAMBLE
  <1>2. ~(u[1] = SC1 /\ Len(u) >= 8) /\ ~(u[1] = PREAMBLE /\ Len(u) >= 6)
    BY <1>1
  <1> QED  BY <1>2 DEF FrameOf

\* A byte goes to the unit that is being read, or ends it.
Grows(c) == Unit' = Append(Unit, c) /\ output' = << >>
EndsUnit(c) ==
  /\ Whole(Append(Unit, c))
  /\ Unit' = << >> /\ output' = FrameOf(Append(Unit, c))

\* One turn of the loop of ubx_process, for each case of its switch.
LEMMA ByteStep ==
  ASSUME FrameInv, HeadInv, output = << >>, NEW c \in Byte,
         WaitStart(c) \/ UbxWaitSC2(c) \/ UbxWaitLength(c) \/ UbxWaitRest(c)
           \/ RtcmWaitLength(c) \/ RtcmWaitRest(c)
  PROVE  HeadInv' /\ (Grows(c) \/ EndsUnit(c))
  <1>0. /\ ubx_buf \in Seq(Byte) /\ Len(ubx_buf) \in Nat
        /\ rtcm_buf \in Seq(Byte) /\ Len(rtcm_buf) \in Nat
    BY LengthTypes DEF FrameInv
  <1>u. /\ rx_state' \in {"RESET", "WAIT_START_SC"} => Unit' = << >>
        /\ rx_state' = "UBX_WAIT_SC2" => Unit' = <<SC1>>
        /\ rx_state' \in {"UBX_WAIT_LENGTH", "UBX_WAIT_REST"} => Unit' = <<SC1, SC2>> \o ubx_buf'
        /\ rx_state' \in {"RTCM_WAIT_LENGTH", "RTCM_WAIT_REST"} => Unit' = rtcm_buf'
    BY DEF Unit
  <1>r. UbxRoom \in Nat /\ RtcmRoom \in Nat
    BY Rooms
  <1>1. CASE WaitStart(c)
    <2>1. Unit = << >> /\ output' = << >>
      BY <1>1, UnitCases DEF WaitStart
    <2>2. /\ Append(Unit, c) = <<c>> /\ <<c>> \in Seq(Byte) /\ Len(<<c>>) = 1 /\ <<c>>[1] = c
      BY <2>1
    <2>3. rtcm_buf' = IF c = PREAMBLE THEN <<c>> ELSE << >>
      <3>1. rtcm_buf' = IF c = PREAMBLE THEN Append(<< >>, c) ELSE << >>
        BY <1>1 DEF WaitStart, FrameInv
      <3> QED  BY <3>1
    <2>4. rx_state' = CASE c = SC1 -> "UBX_WAIT_SC2"
                        [] c = PREAMBLE -> "RTCM_WAIT_LENGTH"
                        [] OTHER -> "WAIT_START_SC"
      BY <1>1 DEF WaitStart
    <2>5. CASE c = SC1
      <3>1. rx_state' = "UBX_WAIT_SC2"
        BY <2>4, <2>5 DEF SC1, PREAMBLE
      <3> QED  BY <1>u, <2>1, <2>2, <2>5, <3>1 DEF Grows, HeadInv
    <2>6. CASE c = PREAMBLE
      <3>1. rx_state' = "RTCM_WAIT_LENGTH"
        BY <2>4, <2>6 DEF SC1, PREAMBLE
      <3>2. Unit' = <<c>> /\ rtcm_buf'[1] = PREAMBLE
        BY <1>u, <2>2, <2>3, <2>6, <3>1
      <3> QED  BY <2>1, <2>2, <3>2 DEF Grows, HeadInv
    <2>7. CASE c \notin {SC1, PREAMBLE}
      <3>1. rx_state' = "WAIT_START_SC"
        BY <2>4, <2>7
      <3>2. FrameOf(<<c>>) = << >>
        BY <2>2, <2>7, NoFrame
      <3>3. Whole(<<c>>)
        BY <2>2, <2>7 DEF Whole
      <3> QED  BY <1>u, <2>1, <2>2, <3>1, <3>2, <3>3 DEF EndsUnit, HeadInv
    <2> QED  BY <2>5, <2>6, <2>7
  <1>2. CASE UbxWaitSC2(c)
    <2>1. /\ Unit = <<SC1>> /\ output' = << >> /\ ubx_buf' = << >>
          /\ rx_state' = IF c = SC2 THEN "UBX_WAIT_LENGTH" ELSE "RESET"
      BY <1>2, UnitCases DEF UbxWaitSC2, FrameInv
    <2>2. /\ Append(Unit, c) = <<SC1, c>> /\ <<SC1, c>> \in Seq(Byte) /\ Len(<<SC1, c>>) = 2
          /\ <<SC1, c>>[1] = SC1 /\ <<SC1, c>>[2] = c
      <3>1. <<SC1>> \in Seq(Byte) /\ Len(<<SC1>>) = 1 /\ <<SC1>>[1] = SC1
        BY ByteCodes
      <3>2. <<SC1, c>> \in Seq(Byte)
        BY ByteCodes
      <3>3. Len(<<SC1, c>>) = 2 /\ <<SC1, c>>[1] = SC1 /\ <<SC1, c>>[2] = c
        OBVIOUS
      <3>4. PICK a, b : a = Append(<<SC1>>, c) /\ b = <<SC1, c>>
        OBVIOUS
      <3>5. a \in Seq(Byte) /\ Len(a) = 2 /\ a[1] = SC1 /\ a[2] = c
        <4>1. 1 \in 1 .. Len(<<SC1>>) /\ Len(<<SC1>>) + 1 = 2
          BY <3>1
        <4> QED  BY <3>1, <3>4, <4>1, AppendProperties
      <3>6. \A i \in 1 .. 2 : a[i] = b[i]
        <4>1. a[1] = b[1] /\ a[2] = b[2]
          BY <3>3, <3>4, <3>5
        <4> QED  BY <4>1
      <3>7. a = b
        BY <3>2, <3>3, <3>4, <3>5, <3>6, SeqEqual
      <3> QED  BY <2>1, <3>2, <3>3, <3>4, <3>7
    <2>3. CASE c = SC2
      <3>1. Unit' = <<SC1, SC2>> \o << >> /\ rx_state' = "UBX_WAIT_LENGTH"
        BY <1>u, <2>1, <2>3
      <3>2. <<SC1, SC2>> \o << >> = <<SC1, SC2>>
        BY <2>2, <2>3, ConcatEmptySeq
      <3> QED  BY <2>1, <2>2, <2>3, <3>1, <3>2 DEF Grows, HeadInv
    <2>4. CASE c # SC2
      <3>1. Unit' = << >> /\ rx_state' = "RESET"
        BY <1>u, <2>1, <2>4
      <3>2. FrameOf(<<SC1, c>>) = << >>
        <4>1. PICK u : u = <<SC1, c>>
          OBVIOUS
        <4>2. u \in Seq(Byte) /\ u[1] = SC1 /\ ~(Len(u) >= 8)
          BY <2>2, <4>1
        <4>3. FrameOf(u) = << >>
          BY <4>2, NoFrame
        <4> QED  BY <4>1, <4>3
      <3>3. Whole(<<SC1, c>>)
        BY <2>2, <2>4 DEF Whole
      <3> QED  BY <2>1, <2>2, <3>1, <3>2, <3>3 DEF EndsUnit, HeadInv
    <2> QED  BY <2>3, <2>4
  <1>3. ASSUME UbxWaitLength(c) \/ UbxWaitRest(c)
        PROVE  /\ ubx_buf' \in Seq(Byte) /\ Len(ubx_buf') = Len(ubx_buf) + 1
               /\ Append(Unit, c) = <<SC1, SC2>> \o ubx_buf' /\ Append(Unit, c) \in Seq(Byte)
               /\ Len(Append(Unit, c)) = Len(ubx_buf') + 2
               /\ Append(Unit, c)[1] = SC1 /\ Append(Unit, c)[2] = SC2
               /\ Len(ubx_buf') >= 4 => Claimed(Append(Unit, c)) = UbxLen(ubx_buf')
               /\ SubSeq(Append(Unit, c), 3, Len(ubx_buf') + 2) = ubx_buf'
    <2>1. ubx_buf' = Append(ubx_buf, c) /\ Unit = <<SC1, SC2>> \o ubx_buf
      BY <1>3, UnitCases DEF UbxWaitLength, UbxWaitRest
    <2>2. PICK b : b = Append(ubx_buf, c)
      OBVIOUS
    <2>3. b \in Seq(Byte) /\ Len(b) = Len(ubx_buf) + 1
      BY <1>0, <2>2, OneMore
    <2>4. Append(Unit, c) = <<SC1, SC2>> \o b
      BY <1>0, <2>1, <2>2, AppendToUbx
    <2> QED  BY <2>1, <2>2, <2>3, <2>4, UbxUnit
  <1>4. CASE UbxWaitLength(c)
    <2>1. PICK u : u = Append(Unit, c)
      OBVIOUS
    <2>2. /\ ubx_buf' \in Seq(Byte) /\ Len(ubx_buf') \in 1 .. 4
          /\ u = <<SC1, SC2>> \o ubx_buf' /\ u \in Seq(Byte) /\ Len(u) = Len(ubx_buf') + 2
          /\ u[1] = SC1 /\ u[2] = SC2 /\ (Len(ubx_buf') >= 4 => Claimed(u) = UbxLen(ubx_buf'))
          /\ output' = << >>
      <3>1. Len(ubx_buf) < 4
        BY <1>4 DEF UbxWaitLength, FrameInv
      <3>2. Len(ubx_buf) + 1 \in 1 .. 4
        BY <1>0, <3>1
      <3>3. output' = << >>
        BY <1>4 DEF UbxWaitLength
      <3> QED  BY <1>3, <1>4, <2>1, <3>2, <3>3
    <2>3. rx_state' = IF Len(ubx_buf') < 4 THEN "UBX_WAIT_LENGTH"
                      ELSE IF UbxLen(ubx_buf') > UbxRoom THEN "RESET" ELSE "UBX_WAIT_REST"
      BY <1>4 DEF UbxWaitLength
    <2>4. CASE rx_state' = "RESET"
      <3>1. Len(ubx_buf') = 4 /\ UbxLen(ubx_buf') > UbxRoom
        <4>1. ~(Len(ubx_buf') < 4) /\ UbxLen(ubx_buf') > UbxRoom
          BY <2>3, <2>4
        <4>2. PICK l : l = Len(ubx_buf')
          OBVIOUS
        <4>3. l \in 1 .. 4 /\ ~(l < 4)
          BY <2>2, <4>1, <4>2
        <4>4. l = 4
          BY <4>3
        <4> QED  BY <4>1, <4>2, <4>4
      <3>2. Len(u) = 6 /\ Claimed(u) > UbxRoom
        BY <2>2, <3>1
      <3>3. Whole(u)
        BY <2>2, <3>2 DEF Whole
      <3>4. FrameOf(u) = << >>
        <4>1. ~(Len(u) >= 8)
          BY <3>2
        <4> QED  BY <2>2, <4>1, NoFrame
      <3> QED  BY <1>u, <2>1, <2>2, <2>4, <3>3, <3>4 DEF EndsUnit, HeadInv
    <2>5. CASE rx_state' \in {"UBX_WAIT_LENGTH", "UBX_WAIT_REST"}
      BY <1>u, <2>1, <2>2, <2>5 DEF Grows, HeadInv
    <2> QED  BY <2>3, <2>4, <2>5
  <1>5. CASE UbxWaitRest(c)
    <2>1. PICK u : u = Append(Unit, c)
      OBVIOUS
    <2>2. PICK b : b = ubx_buf'
      OBVIOUS
    <2>3. /\ b \in Seq(Byte) /\ Len(b) \in Nat /\ Len(b) >= 4
          /\ u = <<SC1, SC2>> \o b /\ u \in Seq(Byte) /\ Len(u) = Len(b) + 2
          /\ u[1] = SC1 /\ u[2] = SC2 /\ Claimed(u) = UbxLen(b)
          /\ SubSeq(u, 3, Len(b) + 2) = b
          /\ UbxLen(b) \in Nat /\ UbxLen(b) <= UbxRoom
      <3>1. /\ Len(ubx_buf) \in 4 .. UbxLen(ubx_buf) + 5 /\ UbxLen(ubx_buf) <= UbxRoom
            /\ b = Append(ubx_buf, c)
        BY <1>5, <2>2 DEF UbxWaitRest, FrameInv
      <3>2. Len(ubx_buf) >= 4
        BY <1>0, <3>1
      <3>3. UbxLen(b) = UbxLen(ubx_buf) /\ UbxLen(ubx_buf) \in Nat
        BY <1>0, <3>1, <3>2, OneMore, LengthTypes
      <3>4. Len(b) = Len(ubx_buf) + 1 /\ Len(b) \in Nat /\ Len(b) >= 4
        BY <1>0, <1>3, <1>5, <2>2, <3>2
      <3> QED  BY <1>3, <1>5, <2>1, <2>2, <3>1, <3>3, <3>4
    <2>4. CASE Len(b) # UbxLen(b) + 6
      <3>1. rx_state' = "UBX_WAIT_REST" /\ output' = << >>
        BY <1>5, <2>2, <2>4 DEF UbxWaitRest
      <3> QED  BY <1>u, <2>1, <2>2, <2>3, <3>1 DEF Grows, HeadInv
    <2>5. CASE Len(b) = UbxLen(b) + 6
      <3>1. PICK n : n = UbxLen(b) + 4
        OBVIOUS
      <3>2. /\ rx_state' = "RESET"
            /\ output' = IF SubSeq(b, n + 1, n + 2) = ubx_calc_crc(SubSeq(b, 1, n))
                         THEN <<b>> ELSE << >>
        BY <1>5, <2>2, <2>5, <3>1 DEF UbxWaitRest
      <3>3. /\ Len(u) = 8 + Claimed(u) /\ Len(u) >= 8 /\ Len(u) - 4 = n /\ Len(u) = Len(b) + 2
        BY <2>3, <2>5, <3>1
      <3>4. FrameOf(u) = IF SubSeq(b, n + 1, n + 2) = ubx_calc_crc(SubSeq(b, 1, n))
                         THEN <<b>> ELSE << >>
        <4>1. SubSeq(u, 3, Len(u)) = b
          BY <2>3, <3>3
        <4>2. u[1] # PREAMBLE
          BY <2>3 DEF SC1, PREAMBLE
        <4> QED  BY <2>3, <3>3, <4>1, <4>2 DEF FrameOf
      <3>5. Whole(u)
        BY <2>3, <3>3 DEF Whole
      <3> QED  BY <1>u, <2>1, <3>2, <3>4, <3>5 DEF EndsUnit, HeadInv
    <2> QED  BY <2>4, <2>5
  <1>6. ASSUME RtcmWaitLength(c) \/ RtcmWaitRest(c)
        PROVE  /\ rtcm_buf' \in Seq(Byte) /\ Len(rtcm_buf') = Len(rtcm_buf) + 1
               /\ Unit = rtcm_buf /\ rtcm_buf' = Append(Unit, c) /\ rtcm_buf'[1] = PREAMBLE
    <2>1. /\ rtcm_buf' = Append(rtcm_buf, c) /\ Unit = rtcm_buf /\ rtcm_buf[1] = PREAMBLE
          /\ rx_state \in {"RTCM_WAIT_LENGTH", "RTCM_WAIT_REST"}
      BY <1>6, UnitCases DEF RtcmWaitLength, RtcmWaitRest, HeadInv
    <2>2. PICK n : n = Len(rtcm_buf)
      OBVIOUS
    <2>3. n >= 1
      <3>1. CASE rx_state = "RTCM_WAIT_LENGTH"
        BY <1>0, <2>2, <3>1 DEF FrameInv
      <3>2. CASE rx_state = "RTCM_WAIT_REST"
        <4>1. n \in 3 .. RtcmLen(rtcm_buf) + 5
          BY <2>2, <3>2 DEF FrameInv
        <4> QED  BY <1>0, <2>2, <4>1
      <3> QED  BY <2>1, <3>1, <3>2
    <2>4. 1 \in 1 .. Len(rtcm_buf)
      BY <1>0, <2>2, <2>3
    <2> QED  BY <1>0, <2>1, <2>4, AppendProperties
  <1>7. CASE RtcmWaitLength(c)
    <2>1. PICK u : u = Append(Unit, c)
      OBVIOUS
    <2>2. /\ rtcm_buf' = u /\ u \in Seq(Byte) /\ Len(u) \in 2 .. 3 /\ u[1] = PREAMBLE
          /\ output' = << >>
      <3>1. Len(rtcm_buf) \in 1 .. 2 /\ output' = << >>
        BY <1>7 DEF RtcmWaitLength, FrameInv
      <3>2. PICK n : n = Len(rtcm_buf)
        OBVIOUS
      <3>3. n + 1 \in 2 .. 3
        BY <3>1, <3>2
      <3> QED  BY <1>6, <1>7, <2>1, <3>1, <3>2, <3>3
    <2>3. rx_state' = IF Len(u) < 3 THEN "RTCM_WAIT_LENGTH"
                      ELSE IF RtcmLen(u) > RtcmRoom THEN "RESET" ELSE "RTCM_WAIT_REST"
      BY <1>7, <2>2 DEF RtcmWaitLength
    <2>4. CASE rx_state' = "RESET"
      <3>1. Len(u) = 3 /\ RtcmLen(u) > RtcmRoom
        <4>1. PICK n : n = Len(u)
          OBVIOUS
        <4>2. n \in 2 .. 3 /\ ~(n < 3) /\ RtcmLen(u) > RtcmRoom
          BY <2>2, <2>3, <2>4, <4>1
        <4> QED  BY <4>1, <4>2
      <3>2. Whole(u)
        BY <2>2, <3>1 DEF Whole
      <3>3. FrameOf(u) = << >>
        <4>1. ~(Len(u) >= 6)
          BY <3>1
        <4> QED  BY <2>2, <4>1, NoFrame
      <3> QED  BY <1>u, <2>1, <2>2, <2>4, <3>2, <3>3 DEF EndsUnit, HeadInv
    <2>5. CASE rx_state' \in {"RTCM_WAIT_LENGTH", "RTCM_WAIT_REST"}
      BY <1>u, <2>1, <2>2, <2>5 DEF Grows, HeadInv
    <2> QED  BY <2>3, <2>4, <2>5
  <1>8. CASE RtcmWaitRest(c)
    <2>1. PICK u : u = Append(Unit, c)
      OBVIOUS
    <2>2. /\ rtcm_buf' = u /\ u \in Seq(Byte) /\ Len(u) \in Nat /\ Len(u) >= 3 /\ u[1] = PREAMBLE
          /\ RtcmLen(u) \in Nat /\ RtcmLen(u) <= RtcmRoom
      <3>1. /\ Len(rtcm_buf) \in 3 .. RtcmLen(rtcm_buf) + 5 /\ RtcmLen(rtcm_buf) <= RtcmRoom
            /\ rtcm_buf' = Append(rtcm_buf, c)
        BY <1>8 DEF RtcmWaitRest, FrameInv
      <3>2. Len(rtcm_buf) >= 3
        BY <1>0, <3>1
      <3>3. RtcmLen(rtcm_buf') = RtcmLen(rtcm_buf) /\ RtcmLen(rtcm_buf) \in Nat
        BY <1>0, <3>1, <3>2, OneMore, LengthTypes
      <3>4. Len(rtcm_buf') \in Nat /\ Len(rtcm_buf') >= 3
        BY <1>0, <1>6, <1>8, <3>2
      <3> QED  BY <1>6, <1>8, <2>1, <3>1, <3>3, <3>4
    <2>3. CASE Len(u) # RtcmLen(u) + 6
      <3>1. rx_state' = "RTCM_WAIT_REST" /\ output' = << >>
        BY <1>8, <2>2, <2>3 DEF RtcmWaitRest
      <3> QED  BY <1>u, <2>1, <2>2, <3>1 DEF Grows, HeadInv
    <2>4. CASE Len(u) = RtcmLen(u) + 6
      <3>1. rx_state' = "RESET" /\ output' = <<u>>
        BY <1>8, <2>2, <2>4 DEF RtcmWaitRest
      <3>2. Len(u) >= 6 /\ Len(u) = 6 + RtcmLen(u)
        BY <2>2, <2>4
      <3>3. FrameOf(u) = <<u>>
        <4>1. u[1] # SC1
          BY <2>2 DEF SC1, PREAMBLE
        <4> QED  BY <2>2, <3>2, <4>1 DEF FrameOf
      <3>4. Whole(u)
        BY <2>2, <3>2 DEF Whole
      <3> QED  BY <1>u, <2>1, <3>1, <3>3, <3>4 DEF EndsUnit, HeadInv
    <2> QED  BY <2>3, <2>4
  <1> QED  BY <1>1, <1>2, <1>4, <1>5, <1>7, <1>8

-----------------------------------------------------------------------------
(* The frames of every longer part of the stream *)

\* How many bytes ubx_process has been through, and the first m bytes.
Count == given - (IF rx_buf_index < rx_curr_len THEN rx_curr_len - rx_buf_index ELSE 0)
Prefix(m) == SubSeq(stream, 1, m)

\* rx_buf holds the bytes of the stream that were read last.
BufferInv ==
  /\ pc = "read" => rx_buf_index >= rx_curr_len
  /\ rx_curr_len # 0 =>
       /\ rx_curr_len <= given
       /\ \A i \in 1 .. rx_curr_len : rx_buf[i] = stream[given - rx_curr_len + i]

OutputInv ==
  /\ output \in Seq(Seq(Byte)) /\ taken \in Seq(Seq(Byte))
  /\ pc # "returned" => output = << >>

\* The last bytes processed are those of the unit that is being read.
UnitInv ==
  /\ Len(Unit) <= Count
  /\ \A k \in 1 .. Len(Unit) : stream[Count - Len(Unit) + k] = Unit[k]

\* Whatever part of the rest of the stream is still to come, its frames are those
\* found so far and those from that unit on.
AheadInv ==
  \A m \in Count .. Len(stream) :
    Frames(Prefix(m)) = (taken \o output) \o FramesFrom(Prefix(m))[Count - Len(Unit) + 1]

OrderInv == HeadInv /\ BufferInv /\ OutputInv /\ (stale \/ (UnitInv /\ AheadInv))

LEMMA PrefixType ==
  ASSUME NEW s \in Seq(Byte), NEW m \in 0 .. Len(s)
  PROVE  /\ SubSeq(s, 1, m) \in Seq(Byte) /\ Len(SubSeq(s, 1, m)) = m
         /\ \A i \in 1 .. m : SubSeq(s, 1, m)[i] = s[i]
  <1>1. Len(s) \in Nat /\ m \in Nat /\ \A i \in 1 .. m : s[i] \in Byte
    OBVIOUS
  <1>2. /\ SubSeq(s, 1, m) \in Seq(Byte)
        /\ Len(SubSeq(s, 1, m)) = IF 1 <= m THEN m - 1 + 1 ELSE 0
        /\ \A i \in 1 .. m - 1 + 1 : SubSeq(s, 1, m)[i] = s[1 + i - 1]
    BY <1>1, SubSeqProperties
  <1>3. m - 1 + 1 = m /\ \A i \in 1 .. m : 1 + i - 1 = i
    BY <1>1
  <1>4. Len(SubSeq(s, 1, m)) = m
    BY <1>1, <1>2
  <1> QED  BY <1>2, <1>3, <1>4

\* A unit at the end of the first n bytes begins there in every longer part.
LEMMA UnitBegins ==
  ASSUME NEW s \in Seq(Byte), NEW n \in Nat, NEW u \in Seq(Byte), Len(u) <= n,
         \A k \in 1 .. Len(u) : s[n - Len(u) + k] = u[k],
         NEW m \in n .. Len(s)
  PROVE  n - Len(u) + 1 \in Nat \ {0} /\ Begins(SubSeq(s, 1, m), n - Len(u) + 1, u)
  <1>1. PICK p : p = SubSeq(s, 1, m)
    OBVIOUS
  <1>2. PICK l : l = Len(u)
    OBVIOUS
  <1>3. l \in Nat /\ l <= n /\ Len(s) \in Nat /\ m \in 0 .. Len(s)
    BY <1>2
  <1>4. Len(p) = m /\ \A i \in 1 .. m : p[i] = s[i]
    BY <1>1, <1>3, PrefixType
  <1>5. \A k \in 1 .. l : p[n - l + 1 + k - 1] = u[k]
    <2>1. TAKE k \in 1 .. l
    <2>2. n - l + 1 + k - 1 = n - l + k /\ n - l + k \in 1 .. m
      BY <1>3
    <2>3. s[n - l + k] = u[k]
      BY <1>2
    <2> QED  BY <1>4, <2>2, <2>3
  <1>6. n - l + 1 \in Nat \ {0} /\ n - l + 1 + l <= m + 1
    BY <1>3
  <1> QED  BY <1>1, <1>2, <1>4, <1>5, <1>6 DEF Begins

\* The frames from the start of a unit on are its own and those from behind it on.
LEMMA BehindUnit ==
  ASSUME NEW s \in Seq(Byte), NEW n \in Nat, NEW v \in Seq(Byte), Len(v) <= n, Whole(v),
         \A k \in 1 .. Len(v) : s[n - Len(v) + k] = v[k],
         NEW m \in n .. Len(s)
  PROVE  FramesFrom(SubSeq(s, 1, m))[n - Len(v) + 1]
           = FrameOf(v) \o FramesFrom(SubSeq(s, 1, m))[n + 1]
  <1>1. PICK p, i, l : p = SubSeq(s, 1, m) /\ i = n - Len(v) + 1 /\ l = Len(v)
    OBVIOUS
  <1>2. /\ Len(s) \in Nat /\ m \in 0 .. Len(s) /\ n <= m /\ l \in Nat /\ l <= n /\ l >= 1
    <2>1. l \in Nat
      BY <1>1
    <2>2. l >= 1
      BY <1>1, <2>1 DEF Whole
    <2> QED  BY <1>1, <2>1, <2>2
  <1>3. p \in Seq(Byte) /\ Len(p) = m
    BY <1>1, <1>2, PrefixType
  <1>4. i \in Nat \ {0} /\ Begins(p, i, v)
    BY <1>1, UnitBegins
  <1>5. UnitSize(p, i) = l
    BY <1>1, <1>3, <1>4, WholeSize
  <1>6. i + l = n + 1 /\ i \in 1 .. Len(p) + 1 /\ i <= Len(p)
    BY <1>1, <1>2, <1>3
  <1>7. ~Incomplete(p, i)
    BY <1>2, <1>3, <1>5, <1>6 DEF Incomplete
  <1>8. SubSeq(p, i, i + l - 1) = v
    <2>1. i + l - 1 = n /\ i \in Int /\ n - i + 1 = l /\ i <= n
      BY <1>1, <1>2, <1>6
    <2>2. \A j \in i .. n : p[j] \in Byte
      BY <1>2, <1>3, <1>4
    <2>3. /\ SubSeq(p, i, n) \in Seq(Byte)
          /\ Len(SubSeq(p, i, n)) = IF i <= n THEN n - i + 1 ELSE 0
          /\ \A k \in 1 .. n - i + 1 : SubSeq(p, i, n)[k] = p[i + k - 1]
      BY <2>1, <2>2, SubSeqProperties
    <2>4. \A k \in 1 .. l : SubSeq(p, i, n)[k] = v[k]
      BY <1>1, <1>4, <2>1, <2>3 DEF Begins
    <2>5. SubSeq(p, i, n) = v
      BY <1>1, <2>1, <2>3, <2>4, SeqEqual
    <2> QED  BY <2>1, <2>5
  <1>9. FramesFrom(p)[i] = FrameOf(v) \o FramesFrom(p)[i + l]
    BY <1>3, <1>5, <1>6, <1>7, <1>8, FramesUnfold
  <1> QED  BY <1>1, <1>6, <1>9

LEMMA CountType ==
  ASSUME LineInv, BufferInv
  PROVE  Count \in Nat /\ Len(stream) \in Nat /\ Count <= given /\ given <= Len(stream)
  <1>1. rx_curr_len \in Nat /\ rx_buf_index \in Nat /\ Len(stream) \in Nat /\ given \in 0 .. Len(stream)
    BY Rooms DEF LineInv
  <1>2. rx_curr_len # 0 => rx_curr_len <= given
    BY DEF BufferInv
  <1> QED  BY <1>1, <1>2 DEF Count

\* The unit that is being read has no frame yet.
LEMMA InvChunk == ASSUME FramingInv, OrderInv PROVE ChunkIndependent
  <1> SUFFICES ASSUME ~stale PROVE taken \o output = Frames(Processed)
    BY DEF ChunkIndependent
  <1>1. LineInv /\ FrameInv /\ HeadInv /\ BufferInv /\ OutputInv /\ UnitInv /\ AheadInv
    BY DEF FramingInv, OrderInv
  <1>2. PICK s, n, u : s = stream /\ n = Count /\ u = Unit
    OBVIOUS
  <1>3. s \in Seq(Byte) /\ n \in 0 .. Len(s) /\ n \in n .. Len(s) /\ n \in Nat
    BY <1>1, <1>2, CountType DEF LineInv
  <1>4. u \in Seq(Byte) /\ Partial(u) /\ Len(u) \in Nat /\ Len(u) <= n
        /\ \A k \in 1 .. Len(u) : s[n - Len(u) + k] = u[k]
    BY <1>1, <1>2, UnitPartial DEF UnitInv
  <1>5. PICK p, i : p = SubSeq(s, 1, n) /\ i = n - Len(u) + 1
    OBVIOUS
  <1>6. p \in Seq(Byte) /\ Len(p) = n
    BY <1>3, <1>5, PrefixType
  <1>7. i \in Nat \ {0} /\ Begins(p, i, u)
    BY <1>3, <1>4, <1>5, UnitBegins
  <1>8. i + Len(u) = Len(p) + 1 /\ i \in 1 .. Len(p) + 1
    BY <1>3, <1>4, <1>5, <1>6
  <1>9. Incomplete(p, i)
    BY <1>4, <1>6, <1>7, <1>8, PartialIncomplete
  <1>10. FramesFrom(p)[i] = << >>
    BY <1>6, <1>8, <1>9, FramesUnfold
  <1>11. Frames(p) = (taken \o output) \o FramesFrom(p)[i]
    BY <1>1, <1>2, <1>3, <1>5 DEF AheadInv, Prefix
  <1>12. (taken \o output) \o << >> = taken \o output
    <2>1. taken \o output \in Seq(Seq(Byte))
      BY <1>1, ConcatProperties DEF OutputInv
    <2> QED  BY <2>1, ConcatEmptySeq
  <1>13. Processed = p
    BY <1>2, <1>5 DEF Processed, Count
  <1> QED  BY <1>10, <1>11, <1>12, <1>13

-----------------------------------------------------------------------------
(* What each step does to it *)

LEMMA InitOrder == ASSUME Init PROVE OrderInv
  <1>0. FramingInv
    BY FramingInit
  <1>1. HeadInv
    BY DEF Init, HeadInv
  <1>2. BufferInv
    BY DEF Init, BufferInv
  <1>3. taken = << >> /\ output = << >> /\ << >> \in Seq(Seq(Byte)) /\ << >> \o << >> = << >>
    <2>1. << >> \in Seq(Seq(Byte))
      BY EmptySeq
    <2> QED  BY <2>1, ConcatEmptySeq DEF Init
  <1>4. OutputInv
    BY <1>3 DEF OutputInv
  <1>5. Unit = << >> /\ Len(<< >>) = 0 /\ Count = 0
    BY UnitCases DEF Init, Count
  <1>6. UnitInv
    BY <1>5 DEF UnitInv
  <1>7. AheadInv
    <2> SUFFICES ASSUME NEW m \in Count .. Len(stream)
                 PROVE  Frames(Prefix(m)) = (taken \o output)
                          \o FramesFrom(Prefix(m))[Count - Len(Unit) + 1]
      BY DEF AheadInv
    <2>1. PICK s : s = stream
      OBVIOUS
    <2>2. s \in Seq(Byte) /\ m \in 0 .. Len(s) /\ Len(s) \in Nat
      BY <1>0, <1>5, <2>1, LengthTypes DEF FramingInv, LineInv
    <2>3. PICK p : p = SubSeq(s, 1, m)
      OBVIOUS
    <2>4. p \in Seq(Byte) /\ Len(p) = m /\ 1 \in 1 .. Len(p) + 1
      BY <2>2, <2>3, PrefixType
    <2>5. FramesFrom(p)[1] \in Seq(Seq(Byte))
      BY <2>4, FramesFromType
    <2>6. << >> \o FramesFrom(p)[1] = FramesFrom(p)[1]
      BY <2>5, ConcatEmptySeq
    <2>7. Count - Len(Unit) + 1 = 1
      BY <1>5
    <2> QED  BY <1>3, <2>1, <2>3, <2>6, <2>7 DEF Frames, Prefix
  <1> QED  BY <1>1, <1>2, <1>4, <1>6, <1>7 DEF OrderInv

\* A step that neither processes a byte nor loses a frame.
LEMMA OrderCarried ==
  ASSUME HeadInv, stale \/ (UnitInv /\ AheadInv),
         UNCHANGED <<stream, stale, rx_state, ubx_buf, rtcm_buf>>,
         Count' = Count, taken' \o output' = taken \o output, BufferInv', OutputInv'
  PROVE  OrderInv'
  <1>1. HeadInv'
    BY DEF HeadInv
  <1>2. Unit' = Unit
    BY DEF Unit
  <1>3. UnitInv => UnitInv'
    BY <1>2 DEF UnitInv
  <1>4. AheadInv => AheadInv'
    BY <1>2 DEF AheadInv, Prefix
  <1>5. stale' = stale
    OBVIOUS
  <1> QED  BY <1>1, <1>3, <1>4, <1>5 DEF OrderInv

LEMMA CallOrder == ASSUME FramingInv, OrderInv, Call PROVE OrderInv'
  <1>1. /\ UNCHANGED <<stream, given, faults, stale, rx_buf, rx_curr_len, rx_buf_index>>
        /\ UNCHANGED <<rx_state, ubx_buf, rtcm_buf>>
        /\ taken' = taken \o output /\ output' = << >>
        /\ pc' = IF rx_buf_index >= rx_curr_len THEN "read" ELSE "process"
    BY DEF Call, line
  <1>2. output \in Seq(Seq(Byte)) /\ taken \in Seq(Seq(Byte))
    BY DEF OrderInv, OutputInv
  <1>3. taken \o output \in Seq(Seq(Byte)) /\ << >> \in Seq(Seq(Byte))
    BY <1>2, ConcatProperties, EmptySeq
  <1>4. taken' \o output' = taken \o output
    BY <1>1, <1>3, ConcatEmptySeq
  <1>5. OutputInv'
    BY <1>1, <1>3 DEF OutputInv
  <1>6. BufferInv'
    BY <1>1 DEF OrderInv, BufferInv
  <1>7. Count' = Count
    BY <1>1 DEF Count
  <1> QED  BY <1>1, <1>4, <1>5, <1>6, <1>7, OrderCarried DEF OrderInv

LEMMA ReadOrder ==
  ASSUME FramingInv, OrderInv, NEW n \in Chunks \cup {0}, Read(n)
  PROVE  OrderInv'
  <1>1. LineInv /\ BufferInv /\ OutputInv
    BY DEF FramingInv, OrderInv
  <1>2. PICK s, g : s = stream /\ g = given
    OBVIOUS
  <1>3. s \in Seq(Byte) /\ Len(s) \in Nat /\ g \in 0 .. Len(s) /\ n \in 0 .. 256 /\ g + n <= Len(s)
    BY <1>1, <1>2, LengthTypes, Rooms DEF LineInv, Read
  <1>4. /\ given' = g + n /\ rx_curr_len' = n /\ rx_buf_index' = 0 /\ pc' = "process"
        /\ UNCHANGED <<stream, stale, rx_state, ubx_buf, rtcm_buf, output, taken>> /\ pc = "read"
    BY <1>2 DEF Read, frame
  <1>5. Count' = Count
    <2>1. Count = g
      <3>1. rx_buf_index >= rx_curr_len /\ rx_buf_index \in Nat /\ rx_curr_len \in Nat
        BY <1>1, <1>4, Rooms DEF BufferInv, LineInv
      <3>2. ~(rx_buf_index < rx_curr_len)
        BY <3>1
      <3> QED  BY <1>2, <1>3, <3>2 DEF Count
    <2>2. Count' = g
      BY <1>3, <1>4 DEF Count
    <2> QED  BY <2>1, <2>2
  <1>6. OutputInv'
    BY <1>1, <1>4 DEF OutputInv
  <1>7. BufferInv'
    <2>1. CASE n = 0
      BY <1>4, <2>1 DEF BufferInv
    <2>2. CASE n # 0
      <3>1. PICK m, k : m = g + 1 /\ k = g + n
        OBVIOUS
      <3>2. m \in Int /\ k \in Int /\ k - m + 1 = n /\ \A i \in m .. k : s[i] \in Byte
        BY <1>3, <2>2, <3>1
      <3>3. \A i \in 1 .. k - m + 1 : SubSeq(s, m, k)[i] = s[m + i - 1]
        BY <3>2, SubSeqProperties
      <3>4. rx_buf' = SubSeq(s, m, k)
        BY <1>2, <2>2, <3>1 DEF Read
      <3>5. \A i \in 1 .. n : m + i - 1 = given' - n + i
        BY <1>3, <1>4, <3>1
      <3>6. \A i \in 1 .. n : rx_buf'[i] = stream'[given' - n + i]
        BY <1>2, <1>4, <3>2, <3>3, <3>4, <3>5
      <3>7. n <= given'
        BY <1>3, <1>4
      <3> QED  BY <1>4, <3>6, <3>7 DEF BufferInv
    <2> QED  BY <2>1, <2>2
  <1>8. taken' \o output' = taken \o output
    BY <1>4
  <1> QED  BY <1>4, <1>5, <1>6, <1>7, <1>8, OrderCarried DEF OrderInv

\* The byte that is processed is the next one of the stream.
LEMMA NextOfStream ==
  ASSUME FramingInv, OrderInv, ubx_process, rx_curr_len # 0
  PROVE  /\ Count + 1 <= Len(stream) /\ Count' = Count + 1
         /\ (IF rx_buf = << >> THEN 0 ELSE rx_buf[rx_buf_index + 1]) = stream[Count + 1]
  <1>1. LineInv /\ BufferInv /\ pc = "process"
    BY DEF FramingInv, OrderInv, ubx_process
  <1>2. PICK x, l, g : x = rx_buf_index /\ l = rx_curr_len /\ g = given
    OBVIOUS
  <1>3. /\ x \in Nat /\ l \in Nat /\ x < l /\ Len(stream) \in Nat /\ g \in 0 .. Len(stream)
        /\ l <= g /\ l = Len(rx_buf)
    BY <1>1, <1>2, Rooms DEF LineInv, BufferInv
  <1>4. Count = g - (l - x)
    BY <1>2, <1>3 DEF Count
  <1>5. rx_buf_index' = x + 1 /\ rx_curr_len' = l /\ given' = g
    BY <1>2 DEF ubx_process, line
  <1>6. Count' = g - (IF x + 1 < l THEN l - (x + 1) ELSE 0)
    BY <1>5 DEF Count
  <1>7. rx_buf # << >>
    <2>1. Len(<< >>) = 0
      OBVIOUS
    <2> QED  BY <1>3, <2>1
  <1>8. rx_buf[x + 1] = stream[Count + 1]
    <2>1. x + 1 \in 1 .. l /\ g - l + (x + 1) = Count + 1
      BY <1>3, <1>4
    <2>2. rx_buf[x + 1] = stream[g - l + (x + 1)]
      BY <1>1, <1>2, <1>3, <2>1 DEF BufferInv
    <2> QED  BY <2>1, <2>2
  <1>9. Count + 1 <= Len(stream) /\ Count' = Count + 1
    <2>1. CASE x + 1 < l
      BY <1>3, <1>4, <1>6, <2>1
    <2>2. CASE ~(x + 1 < l)
      <3>1. x + 1 = l
        BY <1>3, <2>2
      <3> QED  BY <1>3, <1>4, <1>6, <2>2, <3>1
    <2> QED  BY <2>1, <2>2
  <1>10. (IF rx_buf = << >> THEN 0 ELSE rx_buf[rx_buf_index + 1]) = stream[Count + 1]
    BY <1>2, <1>7, <1>8
  <1> QED  BY <1>9, <1>10

LEMMA ProcessOrder == ASSUME FramingInv, OrderInv, ubx_process PROVE OrderInv'
  <1>1. LineInv /\ FrameInv /\ HeadInv /\ BufferInv /\ OutputInv /\ pc = "process" /\ output = << >>
    BY DEF FramingInv, OrderInv, OutputInv, ubx_process
  <1>2. /\ UNCHANGED <<stream, given, rx_buf, rx_curr_len, taken>>
        /\ stale' = (stale \/ rx_curr_len = 0)
        /\ rx_buf_index' = rx_buf_index + 1
        /\ pc' = IF output' # << >> THEN "returned"
                 ELSE IF rx_buf_index' >= rx_curr_len THEN "read" ELSE "process"
    BY DEF ubx_process, line
  <1>3. PICK c : c = IF rx_buf = << >> THEN 0 ELSE rx_buf[rx_buf_index + 1]
    OBVIOUS
  <1>4. c \in Byte
    BY <1>1, <1>3, NextByte
  <1>5. WaitStart(c) \/ UbxWaitSC2(c) \/ UbxWaitLength(c) \/ UbxWaitRest(c)
          \/ RtcmWaitLength(c) \/ RtcmWaitRest(c)
    BY <1>3 DEF ubx_process
  <1>6. HeadInv' /\ (Grows(c) \/ EndsUnit(c))
    BY <1>1, <1>4, <1>5, ByteStep
  <1>7. PICK u, v : u = Unit /\ v = Append(Unit, c)
    OBVIOUS
  <1>8. /\ u \in Seq(Byte) /\ v \in Seq(Byte) /\ Len(u) \in Nat /\ Len(v) = Len(u) + 1
        /\ \A k \in 1 .. Len(u) : v[k] = u[k]
        /\ v[Len(u) + 1] = c
    <2>1. u \in Seq(Byte)
      BY <1>1, <1>7, UnitPartial
    <2> QED  BY <1>4, <1>7, <2>1, AppendProperties
  <1>9. FrameOf(v) \in Seq(Seq(Byte)) /\ << >> \in Seq(Seq(Byte))
    BY <1>8, FrameOfType, EmptySeq
  <1>10. OutputInv'
    <2>1. output' \in Seq(Seq(Byte))
      BY <1>6, <1>7, <1>9 DEF Grows, EndsUnit
    <2> QED  BY <1>1, <1>2, <2>1 DEF OutputInv
  <1>11. BufferInv'
    BY <1>1, <1>2 DEF BufferInv
  <1>12. ASSUME ~stale' PROVE UnitInv' /\ AheadInv'
    <2>1. UnitInv /\ AheadInv /\ rx_curr_len # 0
      BY <1>2, <1>12 DEF OrderInv
    <2>2. PICK s, n : s = stream /\ n = Count
      OBVIOUS
    <2>3. /\ s \in Seq(Byte) /\ n \in Nat /\ Len(s) \in Nat /\ n + 1 <= Len(s)
          /\ Count' = n + 1 /\ c = s[n + 1] /\ stream' = s
      <3>1. s \in Seq(Byte) /\ n \in Nat /\ Len(s) \in Nat
        BY <1>1, <2>2, CountType DEF LineInv
      <3>2. n + 1 <= Len(s) /\ Count' = n + 1 /\ c = s[n + 1]
        BY <1>3, <2>1, <2>2, NextOfStream
      <3> QED  BY <1>2, <2>2, <3>1, <3>2
    <2>4. Len(u) <= n /\ \A k \in 1 .. Len(u) : s[n - Len(u) + k] = u[k]
      BY <1>7, <2>1, <2>2 DEF UnitInv
    <2>5. PICK l : l = Len(u)
      OBVIOUS
    <2>6. l \in Nat /\ l <= n /\ Len(v) = l + 1 /\ Len(v) <= n + 1
          /\ n + 1 - Len(v) + 1 = n - l + 1
      BY <1>8, <2>3, <2>4, <2>5
    <2>7. \A k \in 1 .. Len(v) : s[n + 1 - Len(v) + k] = v[k]
      <3>1. TAKE k \in 1 .. Len(v)
      <3>2. n + 1 - Len(v) + k = n - l + k
        BY <2>3, <2>6
      <3>3. CASE k = l + 1
        <4>1. n - l + k = n + 1
          BY <2>3, <2>6, <3>3
        <4> QED  BY <1>8, <2>3, <2>5, <3>2, <3>3, <4>1
      <3>4. CASE k # l + 1
        <4>1. k \in 1 .. l
          BY <2>6, <3>4
        <4> QED  BY <1>8, <2>4, <2>5, <3>2, <4>1
      <3> QED  BY <3>3, <3>4
    <2>8. CASE Grows(c)
      <3>1. Unit' = v /\ output' = output
        BY <1>1, <1>7, <2>8 DEF Grows
      <3>2. UnitInv'
        BY <2>3, <2>6, <2>7, <3>1 DEF UnitInv
      <3>3. AheadInv'
        <4>1. Count' - Len(Unit') + 1 = n - l + 1
          BY <2>3, <2>6, <3>1
        <4> SUFFICES ASSUME NEW m \in n + 1 .. Len(s)
                     PROVE  Frames(SubSeq(s, 1, m)) = (taken \o output)
                              \o FramesFrom(SubSeq(s, 1, m))[n - l + 1]
          BY <1>2, <2>3, <3>1, <4>1 DEF AheadInv, Prefix
        <4>2. m \in n .. Len(s)
          BY <2>3
        <4> QED  BY <1>7, <2>1, <2>2, <2>5, <4>2 DEF AheadInv, Prefix
      <3> QED  BY <3>2, <3>3
    <2>9. CASE EndsUnit(c)
      <3>1. Unit' = << >> /\ Whole(v) /\ output' = FrameOf(v) /\ Len(<< >>) = 0
        BY <1>7, <2>9 DEF EndsUnit
      <3>2. UnitInv'
        BY <2>3, <3>1 DEF UnitInv
      <3>3. AheadInv'
        <4>1. Count' - Len(Unit') + 1 = n + 2
          BY <2>3, <3>1
        <4> SUFFICES ASSUME NEW m \in n + 1 .. Len(s)
                     PROVE  Frames(SubSeq(s, 1, m)) = (taken \o FrameOf(v))
                              \o FramesFrom(SubSeq(s, 1, m))[n + 2]
          BY <1>2, <2>3, <3>1, <4>1 DEF AheadInv, Prefix
        <4>2. PICK p : p = SubSeq(s, 1, m)
          OBVIOUS
        <4>3. Frames(p) = (taken \o << >>) \o FramesFrom(p)[n - l + 1]
          <5>1. m \in n .. Len(s)
            BY <2>3
          <5> QED  BY <1>1, <1>7, <2>1, <2>2, <2>5, <4>2, <5>1 DEF AheadInv, Prefix
        <4>4. FramesFrom(p)[n - l + 1] = FrameOf(v) \o FramesFrom(p)[n + 2]
          <5>1. PICK k : k = n + 1
            OBVIOUS
          <5>2. /\ k \in Nat /\ k + 1 = n + 2 /\ m \in k .. Len(s) /\ Len(v) <= k
                /\ k - Len(v) + 1 = n - l + 1
            BY <2>3, <2>6, <5>1
          <5>3. \A j \in 1 .. Len(v) : s[k - Len(v) + j] = v[j]
            <6>1. TAKE j \in 1 .. Len(v)
            <6>2. s[n + 1 - Len(v) + j] = v[j]
              BY <2>7
            <6>3. k - Len(v) + j = n + 1 - Len(v) + j
              BY <2>3, <2>6, <5>1
            <6> QED  BY <6>2, <6>3
          <5>4. FramesFrom(SubSeq(s, 1, m))[k - Len(v) + 1]
                  = FrameOf(v) \o FramesFrom(SubSeq(s, 1, m))[k + 1]
            BY <1>8, <2>3, <3>1, <5>2, <5>3, BehindUnit
          <5> QED  BY <4>2, <5>2, <5>4
        <4>5. taken \in Seq(Seq(Byte)) /\ taken \o << >> = taken
          BY <1>1, ConcatEmptySeq DEF OutputInv
        <4>6. FramesFrom(p)[n + 2] \in Seq(Seq(Byte))
          <5>1. m \in 0 .. Len(s)
            BY <2>3
          <5>2. p \in Seq(Byte) /\ Len(p) = m
            BY <2>3, <4>2, <5>1, PrefixType
          <5>3. n + 2 \in 1 .. Len(p) + 1
            BY <2>3, <5>2
          <5> QED  BY <5>2, <5>3, FramesFromType
        <4>7. taken \o (FrameOf(v) \o FramesFrom(p)[n + 2])
                = (taken \o FrameOf(v)) \o FramesFrom(p)[n + 2]
          <5>1. PICK a, b, d : a = taken /\ b = FrameOf(v) /\ d = FramesFrom(p)[n + 2]
            OBVIOUS
          <5>2. a \in Seq(Seq(Byte)) /\ b \in Seq(Seq(Byte)) /\ d \in Seq(Seq(Byte))
            BY <1>9, <4>5, <4>6, <5>1
          <5>3. (a \o b) \o d = a \o (b \o d)
            BY <5>2, ConcatAssociative
          <5> QED  BY <5>1, <5>3
        <4> QED  BY <4>2, <4>3, <4>4, <4>5, <4>7
      <3> QED  BY <3>2, <3>3
    <2> QED  BY <1>6, <2>8, <2>9
  <1> QED  BY <1>6, <1>10, <1>11, <1>12 DEF OrderInv

LEMMA NextOrder == ASSUME FramingInv, OrderInv, [Next]_vars PROVE OrderInv'
  <1>1. CASE ReadSome \/ ReadNothing
    <2>1. PICK n \in Chunks \cup {0} : Read(n)
      BY <1>1 DEF ReadSome, ReadNothing
    <2> QED  BY <2>1, ReadOrder
  <1>2. CASE ReadFails \/ UNCHANGED vars
    <2>1. /\ UNCHANGED <<stream, given, stale, rx_buf, rx_curr_len, rx_buf_index>>
          /\ UNCHANGED <<rx_state, ubx_buf, rtcm_buf, output, taken>>
          /\ pc' = "returned" \/ pc' = pc
      BY <1>2 DEF ReadFails, frame, vars
    <2>2. Count' = Count
      BY <2>1 DEF Count
    <2>3. BufferInv' /\ OutputInv'
      BY <2>1 DEF OrderInv, BufferInv, OutputInv
    <2> QED  BY <2>1, <2>2, <2>3, OrderCarried DEF OrderInv
  <1> QED  BY <1>1, <1>2, CallOrder, ProcessOrder DEF Next

\* The invariant that links the frames found to the stream holds in every state.
THEOREM OrderInvariance == Spec => []OrderInv
  <1>1. Init => OrderInv
    BY InitOrder
  <1>2. FramingInv /\ OrderInv /\ [Next]_vars => OrderInv'
    BY NextOrder
  <1> QED  BY <1>1, <1>2, FramingInvariance, PTL DEF Spec

\* ublox_protocol_rx_framing_exec.c:219-230: whatever the line carries, however it cuts
\* that into reads and wherever reads fail, the frames that exec has put out are those
\* of the bytes processed, in order, none lost between two execs and none twice; unless
\* a read has returned nothing.
THEOREM FramesInOrder == Spec => []ChunkIndependent
  <1>1. FramingInv /\ OrderInv => ChunkIndependent
    BY InvChunk
  <1> QED  BY <1>1, FramingInvariance, OrderInvariance, PTL

\* The whole stream is its own longest part.
LEMMA WholeStream ==
  ASSUME LineInv, BufferInv
  PROVE  Prefix(Len(stream)) = stream /\ Len(stream) \in Count .. Len(stream)
  <1>1. stream \in Seq(Byte)
    BY DEF LineInv
  <1>2. SubSeq(stream, 1, Len(stream)) = stream
    BY <1>1, SubSeqFull
  <1>3. Count \in Nat /\ Len(stream) \in Nat /\ Count <= Len(stream)
    <2>1. PICK g : g = given
      OBVIOUS
    <2>2. /\ Count \in Nat /\ Len(stream) \in Nat /\ g \in 0 .. Len(stream)
          /\ Count <= g /\ g <= Len(stream)
      BY <2>1, CountType DEF LineInv
    <2> QED  BY <2>2
  <1> QED  BY <1>2, <1>3 DEF Prefix

\* What exec has put out is the beginning of the frames of the whole stream: no byte
\* that is still to come makes a frame wrong, or puts one before it.
FramesStand ==
  stale \/ \E rest \in Seq(Seq(Byte)) : Frames(stream) = (taken \o output) \o rest

\* When exec waits at its read for more than the line carries, every frame of the
\* stream has been taken: what AllTaken says must come about, exec cannot stop short of.
NothingHeldBack == ~stale /\ pc = "read" /\ given = Len(stream) => taken = Frames(stream)

\* ublox_protocol_rx_framing_exec.c:150-190: a frame is put out as soon as its last byte
\* is processed, and nothing the line carries behind it could have made it another.
THEOREM FramesFinal == Spec => []FramesStand
  <1>1. FramingInv /\ OrderInv => FramesStand
    <2> SUFFICES ASSUME FramingInv, OrderInv, ~stale
                 PROVE  \E rest \in Seq(Seq(Byte)) : Frames(stream) = (taken \o output) \o rest
      BY DEF FramesStand
    <2>1. LineInv /\ FrameInv /\ HeadInv /\ BufferInv /\ UnitInv /\ AheadInv
      BY DEF FramingInv, OrderInv
    <2>2. PICK s, n, u : s = stream /\ n = Count /\ u = Unit
      OBVIOUS
    <2>3. s \in Seq(Byte) /\ n \in Nat /\ Len(s) \in Nat /\ n <= Len(s)
      BY <2>1, <2>2, CountType DEF LineInv
    <2>4. u \in Seq(Byte) /\ Len(u) \in Nat /\ Len(u) <= n
      BY <2>1, <2>2, UnitPartial DEF UnitInv
    <2>5. n - Len(u) + 1 \in 1 .. Len(s) + 1
      BY <2>3, <2>4
    <2>6. FramesFrom(s)[n - Len(u) + 1] \in Seq(Seq(Byte))
      BY <2>3, <2>5, FramesFromType
    <2>7. Frames(s) = (taken \o output) \o FramesFrom(s)[n - Len(u) + 1]
      BY <2>1, <2>2, WholeStream DEF AheadInv
    <2> QED  BY <2>2, <2>6, <2>7
  <1> QED  BY <1>1, FramingInvariance, OrderInvariance, PTL

\* ublox_protocol_rx_framing_exec.c:219-230: exec reads only when the bytes of the last
\* read are used up and their frames are put out, so that none waits for a read.
THEOREM ReadsWhenDone == Spec => []NothingHeldBack
  <1>1. FramingInv /\ OrderInv => NothingHeldBack
    <2> SUFFICES ASSUME FramingInv, OrderInv, ~stale, pc = "read", given = Len(stream)
                 PROVE  taken = Frames(stream)
      BY DEF NothingHeldBack
    <2>1. LineInv /\ BufferInv /\ OutputInv
      BY DEF FramingInv, OrderInv
    <2>2. taken \o output = Frames(Processed)
      BY InvChunk DEF ChunkIndependent
    <2>3. taken \o output = taken
      <3>1. taken \in Seq(Seq(Byte)) /\ output = << >>
        BY <2>1 DEF OutputInv
      <3> QED  BY <3>1, ConcatEmptySeq
    <2>4. Processed = stream
      <3>1. rx_buf_index >= rx_curr_len /\ rx_buf_index \in Nat /\ rx_curr_len \in Nat
        BY <2>1, Rooms DEF BufferInv, LineInv
      <3>2. ~(rx_buf_index < rx_curr_len) /\ Len(stream) \in Nat
        BY <2>1, <3>1, CountType
      <3>3. Processed = Prefix(Len(stream))
        BY <3>2 DEF Processed, Prefix
      <3> QED  BY <2>1, <3>3, WholeStream
    <2> QED  BY <2>2, <2>3, <2>4
  <1> QED  BY <1>1, FramingInvariance, OrderInvariance, PTL

-----------------------------------------------------------------------------
(* The barometer *)

VARIABLES state, attempt, pending, current, previous, ignore_next, D1, D2, T, P, upset

MS == INSTANCE Ms5611

\* attempt counts to six, where the driver fails.  Until it measures, the indices
\* are as they were.
Attempting ==
  /\ state = "RESET" => attempt = 0
  /\ state = "READ_CALIB" => attempt <= 5
  /\ state \in {"RESET", "READ_CALIB"} => current = MS!READ_TEMP

\* D1 and D2 follow from the index by which the answer is stored, and that from the
\* index by which its conversion was asked for.
IndexInv == MS!TypeOK /\ Attempting /\ MS!Exchanged /\ MS!IndicesAgree

LEMMA InitIndexInv == MS!Init => IndexInv
  <1> SUFFICES ASSUME MS!Init PROVE IndexInv
    OBVIOUS
  <1> USE DEF MS!Init, MS!READ_TEMP, MS!READ_PRES_4
  <1>1. /\ attempt \in 0 .. 6
        /\ current \in MS!READ_TEMP .. MS!READ_PRES_4
        /\ previous \in MS!READ_TEMP .. MS!READ_PRES_4
    OBVIOUS
  <1>2. MS!TypeOK
    BY <1>1, Zenon DEF MS!TypeOK
  <1>3. Attempting /\ MS!Exchanged /\ MS!IndicesAgree
    BY DEF Attempting, MS!Exchanged, MS!IndicesAgree
  <1> QED  BY <1>2, <1>3 DEF IndexInv

\* The index of the next measurement is one of the five.
LEMMA FollowingType ==
  ASSUME MS!TypeOK, NEW answer
  PROVE  MS!Following(answer) \in MS!READ_TEMP .. MS!READ_PRES_4
  BY DEF MS!TypeOK, MS!Following, MS!READ_TEMP, MS!READ_PRES_4

LEMMA ConversionType == \A index : MS!Conversion(index) \in MS!Conversions
  BY DEF MS!Conversion, MS!Conversions

LEMMA NextIndexInv == ASSUME IndexInv, [MS!Next]_(MS!vars) PROVE IndexInv'
  <1> USE DEF IndexInv, MS!READ_TEMP
  <1>1. CASE MS!Reset
    BY <1>1 DEF MS!Reset, MS!TypeOK, Attempting, MS!Exchanged, MS!IndicesAgree, MS!indices,
      MS!raw, MS!meas
  <1>2. CASE MS!CalibRead
    <2>1. MS!Conversion(current) = "D1"
      BY <1>2 DEF MS!CalibRead, MS!Conversion, Attempting
    <2>2. MS!TypeOK' /\ Attempting' /\ MS!Exchanged'
      BY <1>2 DEF MS!CalibRead, MS!TypeOK, Attempting, MS!Exchanged, MS!Exchange,
        MS!Conversions, MS!indices, MS!raw, MS!meas
    <2>3. MS!IndicesAgree'
      BY <1>2, <2>1 DEF MS!CalibRead, MS!IndicesAgree, MS!Exchange, MS!Conversion, MS!indices
    <2> QED  BY <2>2, <2>3
  <1>3. CASE MS!CalibFails
    BY <1>3 DEF MS!CalibFails, MS!TypeOK, Attempting, MS!Exchanged, MS!IndicesAgree,
      MS!Conversion, MS!indices, MS!raw, MS!meas
  <1>4. ASSUME NEW answer, MS!Ignore(answer) PROVE IndexInv'
    <2>1. current' \in MS!READ_TEMP .. MS!READ_PRES_4
      BY <1>4, FollowingType DEF MS!Ignore
    <2>2. MS!Conversion(current') \in MS!Conversions
      BY ConversionType
    <2>3. MS!TypeOK' /\ Attempting' /\ MS!Exchanged'
      BY <1>4, <2>1, <2>2
      DEF MS!Ignore, MS!TypeOK, Attempting, MS!Exchanged, MS!Exchange, MS!raw, MS!meas
    <2>4. current' = current \/ upset'
      BY <1>4 DEF MS!Ignore, MS!Following, MS!TypeOK
    <2>5. MS!IndicesAgree'
      BY <1>4, <2>4 DEF MS!Ignore, MS!IndicesAgree, MS!Exchange, MS!Conversion, MS!TypeOK
    <2> QED  BY <2>3, <2>5
  <1>5. ASSUME NEW answer, MS!Measure(answer) PROVE IndexInv'
    <2>1. current' \in MS!READ_TEMP .. MS!READ_PRES_4
      BY <1>5, FollowingType DEF MS!Measure
    <2>2. MS!Conversion(current') \in MS!Conversions
      BY ConversionType
    <2>3. answer = pending /\ answer \in MS!Conversions
      BY <1>5 DEF MS!Measure, MS!Answers, MS!Conversions
    <2>4. MS!TypeOK' /\ Attempting'
      BY <1>5, <2>1, <2>2, <2>3 DEF MS!Measure, MS!TypeOK, Attempting, MS!Exchange
    <2>5. upset \/ answer = MS!Conversion(previous)
      BY <2>3 DEF MS!IndicesAgree, MS!Conversions
    <2>6. MS!Exchanged'
      BY <1>5, <2>5 DEF MS!Measure, MS!Exchanged, MS!Conversion
    <2>7. MS!IndicesAgree'
      BY <1>5 DEF MS!Measure, MS!IndicesAgree, MS!Exchange, MS!Conversion
    <2> QED  BY <2>4, <2>6, <2>7
  <1>6. CASE UNCHANGED MS!vars
    BY <1>6 DEF MS!vars, MS!TypeOK, Attempting, MS!Exchanged, MS!IndicesAgree,
      MS!Conversion, MS!indices, MS!raw, MS!meas
  <1> QED  BY <1>1, <1>2, <1>3, <1>4, <1>5, <1>6 DEF MS!Next

\* The barometer's invariant holds in every state.
THEOREM IndexInvariance == MS!Spec => []IndexInv
  BY InitIndexInv, NextIndexInv, PTL DEF MS!Spec

\* Unless 0xFFFFFF is read, the pressure that ms5611_process_meas computes is
\* computed from a conversion of the temperature, and the temperature from one of
\* the pressure, in every measurement.
THEOREM AlwaysExchanged == MS!Spec => []MS!Exchanged
  <1>1. IndexInv => MS!Exchanged
    BY DEF IndexInv
  <1> QED  BY IndexInvariance, <1>1, PTL
=============================================================================
