---------------------------- MODULE UbloxFraming ----------------------------
(***************************************************************************)
(* atomics/ublox/protocol/rx_framing: the byte stream of a GNSS receiver   *)
(* is cut into UBX and RTCM frames.  exec is called again and again; each  *)
(* call goes on until it has put one frame into its output, reading from   *)
(* the serial line whenever the bytes of the last read are used up.        *)
(*                                                                         *)
(* The line carries a stream fixed in advance and may hand it over in      *)
(* pieces of any length, hand over nothing, or fail.  Bytes are numbers.   *)
(***************************************************************************)
EXTENDS Naturals, Sequences, SequencesExt

CONSTANTS
  Streams,    \* what the line may carry: sequences of bytes
  UbxMax,     \* ubx_buf.max_len, parameter ubx_frame_size
  RtcmMax,    \* rtcm_buf.max_len, parameter rtcm_frame_size
  Chunks,     \* bound: how many bytes a read may return, at most rx_buf.max_len
  MaxFaults   \* bound: reads that return nothing, or an error

ASSUME FramingAssumption ==
  /\ \A s \in Streams : s \in Seq(0 .. 255)
  /\ UbxMax \in Nat /\ UbxMax >= 6
  /\ RtcmMax \in Nat /\ RtcmMax >= 4
  /\ 1 \in Chunks /\ Chunks \subseteq 1 .. 256 /\ MaxFaults \in Nat

VARIABLES
  stream,     \* what the line carries
  given,      \* how many bytes of it read has returned
  faults,     \* reads that returned nothing, or an error
  stale,      \* whether a byte was processed that no read returned
  pc,         \* exec: "returned", "read" (at its read), "process" (in ubx_process)
  rx_buf, rx_curr_len,    \* the bytes of the last read that returned any; curr_len
  rx_buf_index, rx_state,
  ubx_buf, rtcm_buf,      \* curr_len is Len
  output,     \* the frame put into the outputs by this exec, if any
  taken       \* the frames the next blocks have taken from the outputs

vars == <<stream, given, faults, stale, pc, rx_buf, rx_curr_len, rx_buf_index,
          rx_state, ubx_buf, rtcm_buf, output, taken>>
line == <<stream, given, faults>>
frame == <<rx_state, ubx_buf, rtcm_buf, output>>

SC1 == 181      \* 0xb5
SC2 == 98       \* 0x62
PREAMBLE == 211 \* 0xd3

Init ==
  /\ stream \in Streams
  /\ given = 0 /\ faults = 0 /\ stale = FALSE
  /\ pc = "returned"
  /\ rx_buf = << >> /\ rx_curr_len = 0 /\ rx_buf_index = 0
  /\ rx_state = "RESET"
  /\ ubx_buf = << >> /\ rtcm_buf = << >>
  /\ output = << >> /\ taken = << >>

-----------------------------------------------------------------------------
(* The frame formats *)

\* ubx_calc_crc: the two Fletcher sums, in the order they have on the line.
ubx_calc_crc(s) ==
  FoldLeft(LAMBDA ck, c : LET a == (ck[1] + c) % 256 IN <<a, (ck[2] + a) % 256>>,
           <<0, 0>>, s)

\* cls, id, then the length, low byte first: ubx_header_t.
UbxLen(s) == s[3] + 256 * s[4]

\* Preamble, then the length, high byte first: rtcm_header_t, swap_bytes.
RtcmLen(s) == 256 * s[2] + s[3]

\* UBX_BUF_LEN_TO_PAYLOAD_SIZE(max_len) and the bound put on the length of an
\* RTCM frame.
UbxRoom == UbxMax - 6
RtcmRoom == RtcmMax - 4

-----------------------------------------------------------------------------
(* ubx_process on one byte c: an action for each case of the switch *)

\* RESET empties both buffers and falls through.
WaitStart(c) ==
  /\ rx_state \in {"RESET", "WAIT_START_SC"}
  /\ ubx_buf' = IF rx_state = "RESET" THEN << >> ELSE ubx_buf
  /\ LET rtcm == IF rx_state = "RESET" THEN << >> ELSE rtcm_buf
     IN rtcm_buf' = IF c = PREAMBLE THEN Append(rtcm, c) ELSE rtcm
  /\ rx_state' = CASE c = SC1 -> "UBX_WAIT_SC2"
                   [] c = PREAMBLE -> "RTCM_WAIT_LENGTH"
                   [] OTHER -> "WAIT_START_SC"
  /\ UNCHANGED output

UbxWaitSC2(c) ==
  /\ rx_state = "UBX_WAIT_SC2"
  /\ rx_state' = IF c = SC2 THEN "UBX_WAIT_LENGTH" ELSE "RESET"
  /\ UNCHANGED <<ubx_buf, rtcm_buf, output>>

\* Mutant: the checksum is forgotten when the buffer is measured.
UbxWaitLengthNoChecksum(c) ==
  /\ rx_state = "UBX_WAIT_LENGTH"
  /\ ubx_buf' = Append(ubx_buf, c)
  /\ rx_state' = IF Len(ubx_buf') < 4 THEN rx_state
                 ELSE IF UbxLen(ubx_buf') > UbxRoom + 2 THEN "RESET"
                 ELSE "UBX_WAIT_REST"
  /\ UNCHANGED <<rtcm_buf, output>>

UbxWaitLength(c) ==
  /\ rx_state = "UBX_WAIT_LENGTH"
  /\ ubx_buf' = Append(ubx_buf, c)
  /\ rx_state' = IF Len(ubx_buf') < 4 THEN rx_state
                 ELSE IF UbxLen(ubx_buf') > UbxRoom THEN "RESET"
                 ELSE "UBX_WAIT_REST"
  /\ UNCHANGED <<rtcm_buf, output>>

\* A frame whose checksum is wrong is dropped.
UbxWaitRest(c) ==
  /\ rx_state = "UBX_WAIT_REST"
  /\ ubx_buf' = Append(ubx_buf, c)
  /\ IF Len(ubx_buf') # UbxLen(ubx_buf') + 6
     THEN UNCHANGED <<rx_state, output>>
     ELSE LET n == UbxLen(ubx_buf') + 4
          IN /\ rx_state' = "RESET"
             /\ output' = IF SubSeq(ubx_buf', n + 1, n + 2) =
                               ubx_calc_crc(SubSeq(ubx_buf', 1, n))
                          THEN <<ubx_buf'>>
                          ELSE output
  /\ UNCHANGED rtcm_buf

RtcmWaitLength(c) ==
  /\ rx_state = "RTCM_WAIT_LENGTH"
  /\ rtcm_buf' = Append(rtcm_buf, c)
  /\ rx_state' = IF Len(rtcm_buf') < 3 THEN rx_state
                 ELSE IF RtcmLen(rtcm_buf') > RtcmRoom THEN "RESET"
                 ELSE "RTCM_WAIT_REST"
  /\ UNCHANGED <<ubx_buf, output>>

\* Mutant: a frame without payload is never complete.
RtcmWaitRestMissed(c) ==
  /\ rx_state = "RTCM_WAIT_REST"
  /\ rtcm_buf' = Append(rtcm_buf, c)
  /\ IF Len(rtcm_buf') = RtcmLen(rtcm_buf') + 6 /\ RtcmLen(rtcm_buf') > 0
     THEN rx_state' = "RESET" /\ output' = <<rtcm_buf'>>
     ELSE UNCHANGED <<rx_state, output>>
  /\ UNCHANGED ubx_buf

\* The checksum of an RTCM frame is not looked at.
RtcmWaitRest(c) ==
  /\ rx_state = "RTCM_WAIT_REST"
  /\ rtcm_buf' = Append(rtcm_buf, c)
  /\ IF Len(rtcm_buf') = RtcmLen(rtcm_buf') + 6
     THEN rx_state' = "RESET" /\ output' = <<rtcm_buf'>>
     ELSE UNCHANGED <<rx_state, output>>
  /\ UNCHANGED ubx_buf

\* One turn of the loop of ubx_process.  The loop comes before its test, so it
\* turns once even when the read returned nothing: it then processes what an
\* earlier read left at the start of rx_buf.
ubx_process ==
  /\ pc = "process"
  /\ LET c == IF rx_buf = << >> THEN 0 ELSE rx_buf[rx_buf_index + 1]
     IN \/ WaitStart(c) \/ UbxWaitSC2(c) \/ UbxWaitLength(c) \/ UbxWaitRest(c)
        \/ RtcmWaitLength(c) \/ RtcmWaitRest(c)
  /\ stale' = (stale \/ rx_curr_len = 0)
  /\ rx_buf_index' = rx_buf_index + 1
  /\ pc' = IF output' # << >> THEN "returned"
           ELSE IF rx_buf_index' >= rx_curr_len THEN "read" ELSE "process"
  /\ UNCHANGED <<line, rx_buf, rx_curr_len, taken>>

-----------------------------------------------------------------------------
(* exec *)

\* Mutant: each exec starts with a read, and loses what the last one left.
CallReading ==
  /\ pc = "returned"
  /\ taken' = taken \o output
  /\ output' = << >>
  /\ pc' = "read"
  /\ UNCHANGED <<line, stale, rx_buf, rx_curr_len, rx_buf_index, rx_state, ubx_buf, rtcm_buf>>

\* The caller uses the outputs of an exec, then starts the next one.
Call ==
  /\ pc = "returned"
  /\ taken' = taken \o output
  /\ output' = << >>
  /\ pc' = IF rx_buf_index >= rx_curr_len THEN "read" ELSE "process"
  /\ UNCHANGED <<line, stale, rx_buf, rx_curr_len, rx_buf_index, rx_state, ubx_buf, rtcm_buf>>

Read(n) ==
  /\ pc = "read"
  /\ given + n <= Len(stream)
  /\ given' = given + n
  /\ rx_buf' = IF n = 0 THEN rx_buf ELSE SubSeq(stream, given + 1, given + n)
  /\ rx_curr_len' = n
  /\ rx_buf_index' = 0
  /\ pc' = "process"
  /\ UNCHANGED <<stream, stale, frame, taken>>

ReadSome == \E n \in Chunks : Read(n) /\ UNCHANGED faults

ReadNothing ==
  /\ faults < MaxFaults
  /\ Read(0)
  /\ faults' = faults + 1

\* exec returns with nothing and starts over when it is next called.
ReadFails ==
  /\ pc = "read"
  /\ faults < MaxFaults
  /\ faults' = faults + 1
  /\ pc' = "returned"
  /\ UNCHANGED <<stream, given, stale, rx_buf, rx_curr_len, rx_buf_index, frame, taken>>

Next == Call \/ ReadSome \/ ReadNothing \/ ReadFails \/ ubx_process

Spec == Init /\ [][Next]_vars

\* The block is executed periodically, and a read that has bytes to return
\* returns.
FairSpec == Spec /\ WF_vars(Call) /\ WF_vars(ReadSome) /\ WF_vars(ubx_process)

-----------------------------------------------------------------------------
(* What the framing is to compute: the frames of a whole byte sequence s.    *)
(* s falls into units: a frame, a header that claims too much, bytes that    *)
(* start nothing.                                                            *)

\* The lengths that the header of a frame at i claims.
UbxLenAt(s, i) == s[i + 4] + 256 * s[i + 5]
RtcmLenAt(s, i) == 256 * s[i + 1] + s[i + 2]

\* How many bytes the unit at i has; at least has, if s ends before that shows.
UnitSize(s, i) ==
  LET has(k) == i + k <= Len(s)
  IN CASE s[i] = SC1 ->
            IF ~has(1) \/ s[i + 1] # SC2 THEN 2
            ELSE IF ~has(5) \/ UbxLenAt(s, i) > UbxRoom THEN 6
            ELSE 8 + UbxLenAt(s, i)
       [] s[i] = PREAMBLE ->
            IF ~has(2) \/ RtcmLenAt(s, i) > RtcmRoom THEN 3
            ELSE 6 + RtcmLenAt(s, i)
       [] OTHER -> 1

\* The frame, if any, that the unit u is: of UBX without the start bytes, and only
\* if the checksum is right.
FrameOf(u) ==
  LET ubx == SubSeq(u, 3, Len(u))
      n == Len(u) - 4
  IN CASE u[1] = SC1 /\ Len(u) >= 8 ->
            IF SubSeq(ubx, n + 1, n + 2) = ubx_calc_crc(SubSeq(ubx, 1, n))
            THEN <<ubx>> ELSE << >>
       [] u[1] = PREAMBLE /\ Len(u) >= 6 -> <<u>>
       [] OTHER -> << >>

\* The unit at i is not all there.
Incomplete(s, i) == i > Len(s) \/ i + UnitSize(s, i) > Len(s) + 1

\* The frames of s from each position on.
FramesFrom(s) ==
  LET from[i \in 1 .. Len(s) + 1] ==
        IF Incomplete(s, i) THEN << >>
        ELSE FrameOf(SubSeq(s, i, i + UnitSize(s, i) - 1)) \o from[i + UnitSize(s, i)]
  IN from

Frames(s) == FramesFrom(s)[1]

\* The part of the stream that ubx_process has been through.
Processed ==
  SubSeq(stream, 1,
         given - (IF rx_buf_index < rx_curr_len THEN rx_curr_len - rx_buf_index ELSE 0))

-----------------------------------------------------------------------------
(* Properties *)

States == {"RESET", "WAIT_START_SC", "UBX_WAIT_SC2", "UBX_WAIT_LENGTH",
           "UBX_WAIT_REST", "RTCM_WAIT_LENGTH", "RTCM_WAIT_REST"}

\* Types, and how full the buffer of each format is in each state.
TypeOK ==
  /\ given \in 0 .. Len(stream) /\ faults \in 0 .. MaxFaults /\ stale \in BOOLEAN
  /\ pc \in {"returned", "read", "process"}
  /\ rx_curr_len \in Chunks \cup {0} /\ rx_buf_index \in 0 .. 256
  /\ rx_state \in States
  /\ \A b \in {rx_buf, ubx_buf, rtcm_buf} : b \in Seq(0 .. 255)
  /\ rx_state \in {"WAIT_START_SC", "UBX_WAIT_SC2"} => ubx_buf = << >> /\ rtcm_buf = << >>
  /\ rx_state = "UBX_WAIT_LENGTH" => Len(ubx_buf) < 4
  /\ rx_state = "UBX_WAIT_REST" => Len(ubx_buf) \in 4 .. UbxLen(ubx_buf) + 5
  /\ rx_state = "RTCM_WAIT_LENGTH" => Len(rtcm_buf) \in {1, 2}
  /\ rx_state = "RTCM_WAIT_REST" => Len(rtcm_buf) \in 3 .. RtcmLen(rtcm_buf) + 5
  /\ Len(output) <= 1

\* No UBX frame runs past the end of ubx_buf, whatever length its header
\* claims (ublox_protocol_rx_framing_exec.c:127).
UbxFits == Len(ubx_buf) <= UbxMax

\* Nor an RTCM frame past the end of rtcm_buf (:141).
RtcmFits == Len(rtcm_buf) <= RtcmMax

\* However the line cuts the stream into reads, and wherever reads fail, the
\* frames taken are those of the bytes processed, in order, none lost between
\* two execs and none twice; unless a read has returned nothing (:219-230).
ChunkIndependent == stale \/ taken \o output = Frames(Processed)

\* Every frame of the stream reaches the blocks behind, and exec is not lost
\* in a frame that never ends.
AllTaken == <>(stale \/ taken = Frames(stream))
=============================================================================
