----------------------------- MODULE Measurement -----------------------------
(***************************************************************************)
(* What one run of a microbenchmark image promises its user, independent   *)
(* of registers, counters, caches and interrupts: Reps samples are taken   *)
(* one after the other, each of them the cost of one call of the kernel in *)
(* its steady state (the first may cost more), and only then are they      *)
(* handed out, in order.  BenchHarness is shown to implement this module.  *)
(***************************************************************************)
EXTENDS Naturals, Sequences

CONSTANT Reps       \* number of measured calls (INNER_REPS)

VARIABLES
  steady,           \* the costs a steady-state call can have on this board
  first,            \* the costs the first measured call can have
  samples,          \* the samples taken so far, oldest first
  delivered         \* how many of them have been handed out

absVars == <<steady, first, samples, delivered>>

Init ==
  /\ steady \subseteq first /\ first \subseteq Nat
  /\ samples = <<>>
  /\ delivered = 0

\* One measured call: its cost is recorded unaltered.
Sample ==
  /\ Len(samples) < Reps
  /\ \E cost \in IF samples = <<>> THEN first ELSE steady :
       samples' = Append(samples, cost)
  /\ UNCHANGED <<steady, first, delivered>>

\* Results leave only when every sample has been taken.
Deliver ==
  /\ Len(samples) = Reps
  /\ delivered < Reps
  /\ delivered' = delivered + 1
  /\ UNCHANGED <<steady, first, samples>>

Next == Sample \/ Deliver

SafeSpec == Init /\ [][Next]_absVars
=============================================================================
