------------------------------ MODULE MCM4Sweep ------------------------------
(* Three kernels for two workers, so that a task waits in the queue; every    *)
(* call of every kernel takes its own time, so that no two results and no     *)
(* two repetitions can be confused unnoticed.                                 *)
EXTENDS M4Sweep

MCBodyCycles == [k \in Kernels |-> [n \in 0 .. InnerReps |-> (10 * k) + ((7 * n) % 5)]]
MCLeftover == {5}
=============================================================================
