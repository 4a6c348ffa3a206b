----------------------------- MODULE MCRingBuf -----------------------------
(* A buffer of two bytes, messages shorter and longer than it, reads       *)
(* shorter and longer than it, and two writers.                            *)
EXTENDS RingBuf

MCByte == 0 .. 3
MCMessages == {<<1>>, <<1, 2, 3>>}
MCReadLens == {1, 3}
=============================================================================
