---------------------------- MODULE MCBenchHarness ----------------------------
(* A three-bit counter, so that it wraps inside measured windows, and three *)
(* repetitions of a kernel whose cost varies within and between cache states.*)
EXTENDS BenchHarness

MCWarm == {1, 3}
MCFill == {4}
MCCold == {5}
MCIrq == {1, 6}
MCScratch == {0, 5}
=============================================================================
