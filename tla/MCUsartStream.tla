--------------------------- MODULE MCUsartStream ---------------------------
(* A port with buffers of two bytes and a tick counter of 16 bits. *)
EXTENDS UsartStream
============================================================================
