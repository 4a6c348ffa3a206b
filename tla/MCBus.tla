------------------------------- MODULE MCBus -------------------------------
(* Each of the three drivers, used by two tasks. *)
EXTENDS Bus
============================================================================
