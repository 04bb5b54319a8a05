------------------------------- MODULE MCHost -------------------------------
(* A small instance of Host for TLC: an interval of a few ticks, and lateness *)
(* told apart up to past two intervals, so that a sweep can end before its    *)
(* next tick, just at it, and after it has been missed once and twice.        *)
EXTENDS Host, TLC
=============================================================================
