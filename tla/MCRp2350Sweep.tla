---------------------------- MODULE MCRp2350Sweep ----------------------------
(* Two kernels, one retry and two faults anywhere: every single fault, and    *)
(* every pair of them, in one run or across restarts.                         *)
EXTENDS Rp2350Sweep
=============================================================================
