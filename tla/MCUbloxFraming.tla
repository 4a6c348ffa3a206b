--------------------------- MODULE MCUbloxFraming ---------------------------
(* Streams of three pieces: whole frames of either kind, frames with a bad *)
(* checksum, headers that claim too much, start bytes that start nothing.  *)
EXTENDS UbloxFraming

Ubx(payload) ==
  LET body == <<1, 7, Len(payload), 0>> \o payload
  IN <<SC1, SC2>> \o body \o ubx_calc_crc(body)

Rtcm(payload) == <<PREAMBLE, 0, Len(payload)>> \o payload \o <<9, 9, 9>>

Pieces ==
  { Ubx(<< >>), Ubx(<<SC1>>),               \* the second holds a start byte
    <<SC1, SC2, 1, 7, 0, 0, 0, 0>>,         \* wrong checksum
    <<SC1, SC2, 1, 7, 3, 0>>,               \* too long for the buffer
    Rtcm(<< >>), Rtcm(<<SC1, SC2>>),
    <<PREAMBLE, 1, 0>>,                     \* too long for the buffer
    <<SC1>>, <<0>> }                        \* noise

MCStreams == {a \o b \o c : a, b, c \in Pieces}

\* Byte by byte, in the middle of a frame, and two frames at once.
MCChunks == {1, 5, 14}

\* Frames two bytes longer than those above, which the buffer of RtcmMax bytes
\* cannot hold.
LongStreams == {Ubx(<<1>>) \o Rtcm(<<1, 2, 3>>), Rtcm(<<1, 2, 3, 4>>) \o Ubx(<<1>>)}
=============================================================================
