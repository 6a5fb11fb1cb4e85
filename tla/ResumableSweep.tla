---------------------------- MODULE ResumableSweep ----------------------------
(***************************************************************************)
(* What a sweep that can be resumed promises its operator, whatever it     *)
(* measures and however it is scheduled: it records what it was asked for  *)
(* and finds unrecorded, one kernel after the other, a row first and the   *)
(* samples behind it; a kernel leaves the list of what is due only with    *)
(* both or by being given up; and what a fault can spoil is one kernel.    *)
(* Rp2350Sweep and M4Sweep are shown to implement this module.             *)
(***************************************************************************)
EXTENDS Naturals, FiniteSets

CONSTANT Kernels

VARIABLES
  asked,          \* the kernels this run was asked for
  due,            \* those it has still to deal with; none when it is not running
  recorded,       \* the kernels with a row
  sampled,        \* the kernels with samples
  open,           \* the kernel whose row is written and whose samples are next
  gaveUp,         \* this run has given a kernel up
  phase,          \* "idle", "running", or "done" after a run that reported success
  faults          \* how often the surroundings have misbehaved

sweepVars == <<asked, due, recorded, sampled, open, gaveUp, phase, faults>>

Init ==
  /\ asked \subseteq Kernels
  /\ due = {} /\ recorded = {} /\ sampled = {} /\ open = {}
  /\ gaveUp = FALSE /\ phase = "idle" /\ faults = 0

\* A run resumes: all it looks at is which rows there are.
Begin(sel) ==
  /\ phase # "running" /\ phase' = "running"
  /\ asked' = sel /\ due' = sel \ recorded
  /\ gaveUp' = FALSE /\ open' = {}
  /\ UNCHANGED <<recorded, sampled, faults>>

Row(k) ==
  /\ k \in due /\ open = {}
  /\ recorded' = recorded \cup {k} /\ open' = {k}
  /\ UNCHANGED <<asked, due, sampled, gaveUp, phase, faults>>

Samples(k) ==
  /\ open = {k} /\ open' = {}
  /\ sampled' = sampled \cup {k} /\ due' = due \ {k}
  /\ UNCHANGED <<asked, recorded, gaveUp, phase, faults>>

GiveUp(k) ==
  /\ k \in due /\ open = {}
  /\ due' = due \ {k} /\ gaveUp' = TRUE
  /\ UNCHANGED <<asked, recorded, sampled, open, phase, faults>>

\* A run stops early only after a kernel it has given up, and reports success
\* only when nothing is due and nothing was given up.
Finish ==
  /\ phase = "running" /\ open = {} /\ due' = {}
  /\ \/ gaveUp /\ phase' = "idle"
     \/ ~gaveUp /\ due = {} /\ phase' \in {"idle", "done"}
  /\ UNCHANGED <<asked, recorded, sampled, open, gaveUp, faults>>
-----------------------------------------------------------------------------
\* The surroundings misbehave, and no file is being written.
Mishap ==
  /\ faults' = faults + 1
  /\ UNCHANGED <<asked, due, recorded, sampled, open, gaveUp, phase>>

\* A write that is cut off: what it was to append is in the file or not.
CutWrite ==
  \/ UNCHANGED <<recorded, sampled>>
  \/ open = {} /\ UNCHANGED sampled /\ \E k \in due : recorded' = recorded \cup {k}
  \/ sampled' = sampled \cup open /\ UNCHANGED recorded

FailedWrite ==
  /\ CutWrite /\ open' = {}
  /\ faults' = faults + 1
  /\ UNCHANGED <<asked, due, gaveUp, phase>>

\* The run is killed or interrupted.
Stop ==
  /\ CutWrite /\ open' = {}
  /\ due' = {} /\ phase' = "idle"
  /\ faults' = faults + 1
  /\ UNCHANGED <<asked, gaveUp>>

Next ==
  \/ \E sel \in SUBSET Kernels : Begin(sel)
  \/ \E k \in Kernels : Row(k) \/ Samples(k) \/ GiveUp(k)
  \/ Finish
  \/ Mishap \/ FailedWrite \/ Stop

SafeSpec == Init /\ [][Next]_sweepVars
-----------------------------------------------------------------------------
\* A run reports success only when all it was asked for is recorded, by it or by
\* the runs before it.
DoneMeansRecorded == phase = "done" => asked \subseteq recorded

\* A fault costs the samples of at most one kernel: over all runs and restarts no
\* more kernels have a row without samples than faults have happened, but for the
\* one whose samples are just being written.
LossesAreFaults == Cardinality((recorded \ sampled) \ open) <= faults

\* Type correctness, and what the two properties rest on.
SweepInv ==
  /\ asked \subseteq Kernels /\ due \subseteq asked /\ recorded \subseteq Kernels
  /\ faults \in Nat
  /\ open = {} \/ \E k \in due : open = {k} /\ k \in recorded
  /\ phase # "running" => due = {}
  /\ phase = "running" /\ ~gaveUp => asked \subseteq recorded \cup due
  /\ DoneMeansRecorded
  /\ LossesAreFaults
=============================================================================
