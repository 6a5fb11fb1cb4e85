------------------------------ MODULE MCGem5Run ------------------------------
(* Two simulations of two repetitions each, started by hand.                  *)
EXTENDS Gem5Run

MCBodyCycles == [k \in Kernels |-> [n \in 0 .. InnerReps |-> (10 * k) + ((7 * n) % 5)]]
=============================================================================
