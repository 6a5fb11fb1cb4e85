----------------------------- MODULE MCClockInit -----------------------------
(* Two restarts, of either kind and at any point, and a hold of three cycles. *)
EXTENDS ClockInit
=============================================================================
