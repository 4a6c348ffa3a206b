-------------------------- MODULE MCUsartRequest --------------------------
(* Packets of three bytes, answers of two, two requests of up to two attempts. *)
EXTENDS UsartRequest
===========================================================================
