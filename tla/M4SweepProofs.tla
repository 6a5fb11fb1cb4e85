---------------------------- MODULE M4SweepProofs ----------------------------
(***************************************************************************)
(* Proofs about M4Sweep, for any number of kernels, repetitions, workers   *)
(* and faults and any cost of the calls.                                   *)
(***************************************************************************)
EXTENDS M4Sweep, FiniteSetTheorems, TLAPS

\* The constants' types, as most steps need them.
LEMMA Bounds ==
  /\ NumKernels \in Nat \ {0} /\ InnerReps \in Nat \ {0, 1} /\ MaxFaults \in Nat
  /\ CallCycles \in Nat /\ Jobs \in Nat \ {0}
BY Gem5Assumption, M4SweepAssumption

LEMMA CostIsNat ==
  ASSUME NEW k \in Kernels, NEW n \in 0 .. InnerReps
  PROVE  BodyCycles[k][n] \in Nat /\ BodyCycles[k][n] + CallCycles \in Nat
<1>1. BodyCycles \in [Kernels -> [0 .. InnerReps -> Nat]] /\ CallCycles \in Nat
  BY Gem5Assumption
<1>2. BodyCycles[k][n] \in Nat
  BY <1>1
<1> QED
  BY <1>1, <1>2
-----------------------------------------------------------------------------
(* The inductive invariant *)

\* Where a simulation is determines how often the kernel was called and how many
\* windows it has dumped.
Phase(k) ==
  /\ fw[k] = "warmup" => calls[k] = 0 /\ Len(windows[k]) = 0
  /\ fw[k] \in {"begin", "call"} =>
       r5[k] >= 1 /\ calls[k] = InnerReps - r5[k] + 1 /\ Len(windows[k]) = calls[k] - 1
  /\ fw[k] = "call" => since[k] = 0
  /\ fw[k] = "end" =>
       /\ r5[k] >= 1 /\ calls[k] = InnerReps - r5[k] + 2 /\ Len(windows[k]) = calls[k] - 2
       /\ since[k] = BodyCycles[k][calls[k] - 1] + CallCycles
  /\ fw[k] = "loop" =>
       r5[k] >= 1 /\ calls[k] = InnerReps - r5[k] + 2 /\ Len(windows[k]) = calls[k] - 1
  /\ fw[k] # "off" /\ Len(windows[k]) <= InnerReps

\* A window is what its repetition costs, but for the one of the exit and for those
\* another simulator has written.
Window(k) ==
  proc[k] # "mixed" =>
    \A n \in 1 .. Len(windows[k]) :
      \/ proc[k] = "ended" /\ n = Len(windows[k])
      \/ n <= InnerReps /\ windows[k][n] = BodyCycles[k][n] + CallCycles

Placed(k) == IF Running(k) THEN Phase(k) ELSE fw[k] = "off"

Simulations == \A k \in Kernels : Placed(k) /\ Window(k)

\* Only a worker has a simulator running, and there are workers only while the
\* pool is open.
Owners ==
  /\ \A k \in Kernels : Running(k) => future[k] = "running"
  /\ main \in {"down", "write_steady", "write_manifest", "exit"} => AllDone
  /\ main \in {"write_steady", "write_manifest"} => In({"result", "error"}) = {}

\* A simulation whose values can be saved.
Sound(k) ==
  /\ proc[k] \in {"ended", "mixed"}
  /\ Values(k) \in Seq(Nat)
  /\ proc[k] = "ended" => Values(k) = Costs(k)

Saving == main \in {"save_summary", "save_repetitions", "log_error"}
Pending == In({"queued", "running", "result", "error"})

\* What is saved is sound, and was not there before.
Rows ==
  /\ \A k \in Kernels : future[k] = "result" => Sound(k)
  /\ \A k \in Pending : summary[k] = <<>>
  /\ Saving => cur \in Kernels /\ future[cur] = "handled"
  /\ main = "save_summary" => Sound(cur) /\ summary[cur] = <<>>
  /\ main = "save_repetitions" => Sound(cur) /\ summary[cur] = <<Values(cur)>>
                                  /\ repetitions[cur] = <<>>

\* Without a disturbance the files differ only between the two appends.
Agreement ==
  /\ undisturbed => main # "drain"
  /\ undisturbed => Recorded \ Sampled = IF main = "save_repetitions" THEN {cur} ELSE {}
  /\ undisturbed /\ main \in {"write_manifest", "exit"} => steady = Recorded

Finished == Kernels \ (Pending \cup failures \cup InHand)

\* The count is that of the kernels that are neither pending, nor failed, nor in
\* the hands of the main thread; each of them has its row.
Accounts ==
  main \notin {"down", "drain", "exit"} =>
    /\ count = Cardinality(Finished)
    /\ Finished \subseteq Recorded
    /\ failures \subseteq errors
    /\ failures \cap (Pending \cup InHand) = {}

IInv ==
  /\ TypeOK /\ Simulations /\ Owners /\ Rows /\ RecordedAsMeasured /\ Agreement
  /\ Accounts /\ EndAccountsForAll
-----------------------------------------------------------------------------
(* The simulation *)

SimIInv == SimTypeOK /\ Simulations

\* A simulation that another simulation's step leaves alone keeps its part of the
\* invariant.
LEMMA Untouched ==
  ASSUME NEW j, Placed(j) /\ Window(j),
         proc'[j] = proc[j], fw'[j] = fw[j], r5'[j] = r5[j], calls'[j] = calls[j],
         since'[j] = since[j], windows'[j] = windows[j]
  PROVE  Placed(j)' /\ Window(j)'
BY DEF Placed, Running, Phase, Window

\* A window appended to those of a simulation.
LEMMA OneMoreWindow ==
  ASSUME SimTypeOK, NEW k \in Kernels, Dump(k)
  PROVE  /\ windows' \in [Kernels -> Seq(Nat)]
         /\ Len(windows'[k]) = Len(windows[k]) + 1
         /\ windows'[k][Len(windows[k]) + 1] = since[k]
         /\ \A n \in 1 .. Len(windows[k]) : windows'[k][n] = windows[k][n]
         /\ \A j \in Kernels \ {k} : windows'[j] = windows[j]
<1>1. windows[k] \in Seq(Nat) /\ since[k] \in Nat
  BY DEF SimTypeOK
<1>2. windows'[k] = Append(windows[k], since[k]) /\ windows'[k] \in Seq(Nat)
  BY <1>1 DEF Dump, SimTypeOK
<1> QED
  BY <1>1, <1>2 DEF Dump, SimTypeOK

\* A line appended to a simulation's output.
LEMMA OneMoreLine ==
  ASSUME SimTypeOK, NEW k \in Kernels, NEW line \in Lines, Say(k, line)
  PROVE  simout' \in [Kernels -> Seq(Lines)]
<1>1. Append(simout[k], line) \in Seq(Lines)
  BY DEF SimTypeOK
<1> QED
  BY <1>1 DEF Say, SimTypeOK

\* What a call costs is known for each of the calls.
LEMMA CallsTyped ==
  ASSUME SimTypeOK, NEW k \in Kernels, calls[k] \in 0 .. InnerReps, KernelBody(k)
  PROVE  /\ calls' \in [Kernels -> 0 .. InnerReps + 1] /\ since' \in [Kernels -> Nat]
         /\ calls'[k] = calls[k] + 1
         /\ since'[k] = since[k] + (BodyCycles[k][calls[k]] + CallCycles)
         /\ \A j \in Kernels \ {k} : calls'[j] = calls[j] /\ since'[j] = since[j]
<1>1. BodyCycles[k][calls[k]] \in Nat /\ CallCycles \in Nat /\ InnerReps \in Nat
  BY Bounds, CostIsNat
<1>2. since[k] + (BodyCycles[k][calls[k]] + CallCycles) \in Nat
  BY <1>1 DEF SimTypeOK
<1>3. calls[k] + 1 \in 0 .. InnerReps + 1
  BY Bounds
<1> QED
  BY <1>2, <1>3 DEF KernelBody, Pass, SimTypeOK

LEMMA LaunchKeeps ==
  ASSUME SimIInv, NEW k \in Kernels, Launch(k)
  PROVE  SimIInv' /\ Running(k)' /\ windows'[k] = <<>>
<1>2. SimTypeOK'
  BY Bounds DEF SimIInv, SimTypeOK, Launch, FwPoints
<1>3. /\ proc'[k] = "running" /\ fw'[k] = "warmup" /\ r5'[k] = 0 /\ calls'[k] = 0
      /\ since'[k] = 0 /\ windows'[k] = <<>>
  BY DEF SimIInv, SimTypeOK, Launch
<1>4. Placed(k)' /\ Window(k)'
  BY <1>3, Bounds DEF Placed, Running, Phase, Window
<1>5. ASSUME NEW j \in Kernels, j # k
      PROVE  Placed(j)' /\ Window(j)'
  <2>1. /\ proc'[j] = proc[j] /\ fw'[j] = fw[j] /\ r5'[j] = r5[j] /\ calls'[j] = calls[j]
        /\ since'[j] = since[j] /\ windows'[j] = windows[j]
    BY <1>5 DEF SimIInv, SimTypeOK, Launch
  <2> QED
    BY <2>1, Untouched DEF SimIInv, Simulations, Placed
<1> QED
  BY <1>2, <1>3, <1>4, <1>5 DEF SimIInv, Simulations, Running

\* The end of a simulation adds a window that is none of a repetition.
LEMMA EndKeeps ==
  ASSUME SimTypeOK, NEW k \in Kernels, Window(k), proc[k] = "running",
         NEW line \in Lines, ProcessEnds(k, line),
         fw' \in [Kernels -> FwPoints], UNCHANGED <<r5, calls, since>>,
         faults' \in 0 .. MaxFaults
  PROVE  /\ SimTypeOK' /\ Window(k)' /\ ~Running(k)'
         /\ \A j \in Kernels \ {k} : proc'[j] = proc[j] /\ windows'[j] = windows[j]
<1>1. /\ windows' \in [Kernels -> Seq(Nat)]
      /\ Len(windows'[k]) = Len(windows[k]) + 1
      /\ \A n \in 1 .. Len(windows[k]) : windows'[k][n] = windows[k][n]
      /\ \A j \in Kernels \ {k} : windows'[j] = windows[j]
  BY OneMoreWindow DEF ProcessEnds
<1>2. simout' \in [Kernels -> Seq(Lines)]
  BY OneMoreLine DEF ProcessEnds
<1>3. /\ proc' \in [Kernels -> {"none", "running", "ended", "failed", "mixed"}]
      /\ proc'[k] = "ended" /\ \A j \in Kernels \ {k} : proc'[j] = proc[j]
  BY DEF ProcessEnds, SimTypeOK
<1>4. SimTypeOK'
  BY <1>1, <1>2, <1>3 DEF SimTypeOK
<1>5. Window(k)'
  <2>1. Len(windows[k]) \in Nat
    BY DEF SimTypeOK
  <2>2. \A n \in 1 .. Len(windows[k]) : n <= InnerReps /\ windows[k][n] = BodyCycles[k][n] + CallCycles
    BY DEF Window
  <2>3. ASSUME NEW n \in 1 .. Len(windows'[k]), n # Len(windows'[k])
        PROVE  n <= InnerReps /\ windows'[k][n] = BodyCycles[k][n] + CallCycles
    <3>1. n \in 1 .. Len(windows[k])
      BY <1>1, <2>1, <2>3
    <3> QED
      BY <1>1, <2>2, <3>1
  <2> QED
    BY <1>3, <2>3 DEF Window
<1> QED
  BY <1>1, <1>3, <1>4, <1>5 DEF Running

\* The steps of the simulated program keep the invariant.
LEMMA FirmwareKeeps ==
  ASSUME SimIInv, NEW k \in Kernels, Firmware(k)
  PROVE  SimIInv' /\ Window(k)'
<1> USE DEF Goto
<1>a. Running(k) /\ Phase(k) /\ Window(k)
  BY DEF SimIInv, Simulations, Placed, Firmware, Warmup, WorkBegin, MeasuredCall, WorkEnd, LoopOrReturn,
         WriteMarker, M5Exit
<1>b. SimTypeOK
  BY DEF SimIInv
<1>c. /\ windows[k] \in Seq(Nat) /\ r5[k] \in 0 .. InnerReps /\ calls[k] \in 0 .. InnerReps + 1
      /\ since[k] \in Nat /\ Len(windows[k]) \in Nat /\ fw[k] \in FwPoints
  BY <1>b DEF SimTypeOK
<1>d. InnerReps \in Nat \ {0, 1} /\ MaxFaults \in Nat /\ CallCycles \in Nat
  BY Bounds
<1>1. CASE Warmup(k)
  <2>1. calls' \in [Kernels -> 0 .. InnerReps + 1] /\ since' \in [Kernels -> Nat] /\ calls'[k] = 1
        /\ \A j \in Kernels \ {k} : calls'[j] = calls[j] /\ since'[j] = since[j]
    BY <1>a, <1>b, <1>1, CallsTyped DEF Warmup, Phase
  <2>2. SimTypeOK'
    <3>1. InnerReps \in 0 .. InnerReps
      BY <1>d
    <3>2. r5' \in [Kernels -> 0 .. InnerReps] /\ fw' \in [Kernels -> FwPoints]
      BY <1>b, <1>1, <3>1 DEF Warmup, SimTypeOK, FwPoints
    <3> QED
      BY <1>b, <1>1, <2>1, <3>2 DEF Warmup, SimTypeOK
  <2>3. Running(k)' /\ fw'[k] = "begin" /\ r5'[k] = InnerReps /\ windows'[k] = windows[k] /\ proc'[k] = proc[k]
    BY <1>b, <1>1 DEF Warmup, SimTypeOK, Running
  <2>4. Phase(k)' /\ Window(k)'
    BY <1>a, <1>d, <1>1, <2>1, <2>3 DEF Warmup, Phase, Window
  <2>5. ASSUME NEW j \in Kernels, j # k
        PROVE  Placed(j)' /\ Window(j)'
    <3>1. /\ proc'[j] = proc[j] /\ fw'[j] = fw[j] /\ r5'[j] = r5[j] /\ calls'[j] = calls[j]
          /\ since'[j] = since[j] /\ windows'[j] = windows[j]
      BY <2>5, <1>1, <2>1 DEF Warmup
    <3> QED
      BY <3>1, Untouched DEF SimIInv, Simulations, Placed
  <2> QED
    BY <2>2, <2>3, <2>4, <2>5 DEF SimIInv, Simulations, Placed
<1>2. CASE WorkBegin(k)
  <2>1. since' \in [Kernels -> Nat] /\ since'[k] = 0
        /\ \A j \in Kernels \ {k} : since'[j] = since[j]
    BY <1>b, <1>2 DEF WorkBegin, Reset, SimTypeOK
  <2>2. SimTypeOK'
    BY <1>b, <1>2, <2>1, OneMoreLine DEF WorkBegin, SimTypeOK, FwPoints, Lines
  <2>3. Running(k)' /\ fw'[k] = "call" /\ r5'[k] = r5[k] /\ calls'[k] = calls[k] /\ windows'[k] = windows[k] /\ proc'[k] = proc[k]
    BY <1>a, <1>b, <1>2 DEF WorkBegin, SimTypeOK, Running
  <2>4. Phase(k)' /\ Window(k)'
    BY <1>a, <1>c, <1>d, <1>2, <2>1, <2>3 DEF WorkBegin, Phase, Window
  <2>5. ASSUME NEW j \in Kernels, j # k
        PROVE  Placed(j)' /\ Window(j)'
    <3>1. /\ proc'[j] = proc[j] /\ fw'[j] = fw[j] /\ r5'[j] = r5[j] /\ calls'[j] = calls[j]
          /\ since'[j] = since[j] /\ windows'[j] = windows[j]
      BY <2>5, <1>b, <1>2, <2>1 DEF WorkBegin, SimTypeOK
    <3> QED
      BY <3>1, Untouched DEF SimIInv, Simulations, Placed
  <2> QED
    BY <2>2, <2>3, <2>4, <2>5 DEF SimIInv, Simulations, Placed
<1>3. CASE MeasuredCall(k)
  <2>0. /\ r5[k] >= 1 /\ calls[k] = InnerReps - r5[k] + 1 /\ Len(windows[k]) = calls[k] - 1
        /\ since[k] = 0 /\ Len(windows[k]) <= InnerReps
    <3>1. fw[k] = "call"
      BY <1>3 DEF MeasuredCall
    <3> QED
      BY <1>a, <3>1 DEF Phase
  <2>1. /\ calls' \in [Kernels -> 0 .. InnerReps + 1] /\ since' \in [Kernels -> Nat]
        /\ calls'[k] = calls[k] + 1
        /\ since'[k] = since[k] + (BodyCycles[k][calls[k]] + CallCycles)
        /\ \A j \in Kernels \ {k} : calls'[j] = calls[j] /\ since'[j] = since[j]
    <3>1. calls[k] \in 0 .. InnerReps
      BY <1>c, <1>d, <2>0
    <3> QED
      BY <1>b, <1>3, <3>1, CallsTyped DEF MeasuredCall
  <2>2. SimTypeOK'
    BY <1>b, <1>3, <2>1 DEF MeasuredCall, SimTypeOK, FwPoints
  <2>3. Running(k)' /\ fw'[k] = "end" /\ r5'[k] = r5[k] /\ windows'[k] = windows[k] /\ proc'[k] = proc[k]
    BY <1>b, <1>3 DEF MeasuredCall, SimTypeOK, Running
  <2>4. Phase(k)' /\ Window(k)'
    <3>1. calls'[k] - 1 = calls[k] /\ BodyCycles[k][calls[k]] \in Nat
      BY <1>c, <1>d, <2>0, <2>1, CostIsNat
    <3>2. since'[k] = BodyCycles[k][calls'[k] - 1] + CallCycles
      BY <1>d, <2>0, <2>1, <3>1
    <3>3. /\ r5'[k] >= 1 /\ calls'[k] = InnerReps - r5'[k] + 2 /\ Len(windows'[k]) = calls'[k] - 2
          /\ Len(windows'[k]) <= InnerReps
      BY <1>c, <1>d, <2>0, <2>1, <2>3
    <3>4. Phase(k)'
      BY <2>3, <3>2, <3>3 DEF Phase
    <3> QED
      BY <1>a, <2>3, <3>4 DEF Window
  <2>5. ASSUME NEW j \in Kernels, j # k
        PROVE  Placed(j)' /\ Window(j)'
    <3>1. /\ proc'[j] = proc[j] /\ fw'[j] = fw[j] /\ r5'[j] = r5[j] /\ calls'[j] = calls[j]
          /\ since'[j] = since[j] /\ windows'[j] = windows[j]
      BY <2>5, <1>3, <2>1 DEF MeasuredCall
    <3> QED
      BY <3>1, Untouched DEF SimIInv, Simulations, Placed
  <2> QED
    BY <2>2, <2>3, <2>4, <2>5 DEF SimIInv, Simulations, Placed
<1>4. CASE WorkEnd(k)
  <2>0. /\ r5[k] >= 1 /\ calls[k] = InnerReps - r5[k] + 2 /\ Len(windows[k]) = calls[k] - 2
        /\ since[k] = BodyCycles[k][calls[k] - 1] + CallCycles
    <3>1. fw[k] = "end"
      BY <1>4 DEF WorkEnd
    <3> QED
      BY <1>a, <3>1 DEF Phase
  <2>1. /\ windows' \in [Kernels -> Seq(Nat)]
        /\ Len(windows'[k]) = Len(windows[k]) + 1
        /\ windows'[k][Len(windows[k]) + 1] = since[k]
        /\ \A n \in 1 .. Len(windows[k]) : windows'[k][n] = windows[k][n]
        /\ \A j \in Kernels \ {k} : windows'[j] = windows[j]
    BY <1>b, <1>4, OneMoreWindow DEF WorkEnd
  <2>2. SimTypeOK'
    BY <1>b, <1>4, <2>1, OneMoreLine DEF WorkEnd, SimTypeOK, FwPoints, Lines
  <2>3. Running(k)' /\ fw'[k] = "loop" /\ r5'[k] = r5[k] /\ calls'[k] = calls[k] /\ proc'[k] = proc[k]
    BY <1>a, <1>b, <1>4 DEF WorkEnd, SimTypeOK, Running
  <2>4. Phase(k)'
    BY <1>c, <1>d, <2>0, <2>1, <2>3 DEF Phase
  <2>5. Window(k)'
    <3>1. Len(windows[k]) + 1 = calls[k] - 1 /\ calls[k] - 1 <= InnerReps
          /\ since[k] = BodyCycles[k][calls[k] - 1] + CallCycles
      BY <1>c, <1>d, <2>0
    <3>2. windows'[k][Len(windows[k]) + 1] = BodyCycles[k][Len(windows[k]) + 1] + CallCycles
      BY <2>1, <3>1
    <3>3. \A n \in 1 .. Len(windows[k]) : n <= InnerReps /\ windows[k][n] = BodyCycles[k][n] + CallCycles
      BY <1>a DEF Window, Running
    <3>4. ASSUME NEW n \in 1 .. Len(windows'[k])
          PROVE  n <= InnerReps /\ windows'[k][n] = BodyCycles[k][n] + CallCycles
      <4>1. CASE n = Len(windows[k]) + 1
        BY <3>1, <3>2, <4>1
      <4>2. CASE n # Len(windows[k]) + 1
        <5>1. n \in 1 .. Len(windows[k])
          BY <1>c, <2>1, <3>4, <4>2
        <5> QED
          BY <2>1, <3>3, <5>1
      <4> QED
        BY <4>1, <4>2
    <3> QED
      BY <3>4 DEF Window
  <2>6. ASSUME NEW j \in Kernels, j # k
        PROVE  Placed(j)' /\ Window(j)'
    <3>1. /\ proc'[j] = proc[j] /\ fw'[j] = fw[j] /\ r5'[j] = r5[j] /\ calls'[j] = calls[j]
          /\ since'[j] = since[j] /\ windows'[j] = windows[j]
      BY <2>6, <1>b, <1>4, <2>1 DEF WorkEnd, SimTypeOK
    <3> QED
      BY <3>1, Untouched DEF SimIInv, Simulations, Placed
  <2> QED
    BY <2>2, <2>3, <2>4, <2>5, <2>6 DEF SimIInv, Simulations, Placed
<1>5. CASE LoopOrReturn(k)
  <2>1. since' \in [Kernels -> Nat] /\ \A j \in Kernels \ {k} : since'[j] = since[j]
    BY <1>b, <1>5 DEF LoopOrReturn, Pass, SimTypeOK
  <2>0. /\ r5[k] >= 1 /\ calls[k] = InnerReps - r5[k] + 2 /\ Len(windows[k]) = calls[k] - 1
        /\ Len(windows[k]) <= InnerReps
    <3>1. fw[k] = "loop"
      BY <1>5 DEF LoopOrReturn
    <3> QED
      BY <1>a, <3>1 DEF Phase
  <2>2. r5[k] - 1 \in 0 .. InnerReps
    BY <1>c, <1>d, <2>0
  <2>3. SimTypeOK'
    BY <1>b, <1>5, <2>1, <2>2 DEF LoopOrReturn, SimTypeOK, FwPoints
  <2>4. /\ Running(k)' /\ r5'[k] = r5[k] - 1 /\ calls'[k] = calls[k] /\ windows'[k] = windows[k]
        /\ proc'[k] = proc[k] /\ fw'[k] = IF r5[k] - 1 # 0 THEN "begin" ELSE "marker"
    BY <1>b, <1>5 DEF LoopOrReturn, SimTypeOK, Running
  <2>5. Phase(k)'
    <3>1. CASE r5[k] = 1
      BY <2>0, <2>4, <3>1 DEF Phase
    <3>2. CASE r5[k] # 1
      BY <1>c, <1>d, <2>0, <2>4, <3>2 DEF Phase
    <3> QED
      BY <3>1, <3>2
  <2>6. Window(k)'
    BY <1>a, <2>4 DEF Window
  <2>7. ASSUME NEW j \in Kernels, j # k
        PROVE  Placed(j)' /\ Window(j)'
    <3>1. /\ proc'[j] = proc[j] /\ fw'[j] = fw[j] /\ r5'[j] = r5[j] /\ calls'[j] = calls[j]
          /\ since'[j] = since[j] /\ windows'[j] = windows[j]
      BY <2>7, <1>5, <2>1 DEF LoopOrReturn
    <3> QED
      BY <3>1, Untouched DEF SimIInv, Simulations, Placed
  <2> QED
    BY <2>3, <2>4, <2>5, <2>6, <2>7 DEF SimIInv, Simulations, Placed
<1>6. CASE WriteMarker(k)
  <2>1. since' \in [Kernels -> Nat] /\ \A j \in Kernels \ {k} : since'[j] = since[j]
    BY <1>b, <1>6 DEF WriteMarker, Pass, SimTypeOK
  <2>2. SimTypeOK'
    BY <1>b, <1>6, <2>1, OneMoreLine DEF WriteMarker, SimTypeOK, FwPoints, Lines
  <2>3. Running(k)' /\ fw'[k] = "exit" /\ windows'[k] = windows[k] /\ proc'[k] = proc[k]
    BY <1>b, <1>6 DEF WriteMarker, SimTypeOK, Running
  <2>4. Phase(k)' /\ Window(k)'
    BY <1>a, <2>3 DEF Phase, Window
  <2>5. ASSUME NEW j \in Kernels, j # k
        PROVE  Placed(j)' /\ Window(j)'
    <3>1. /\ proc'[j] = proc[j] /\ fw'[j] = fw[j] /\ r5'[j] = r5[j] /\ calls'[j] = calls[j]
          /\ since'[j] = since[j] /\ windows'[j] = windows[j]
      BY <2>5, <1>6, <2>1 DEF WriteMarker
    <3> QED
      BY <3>1, Untouched DEF SimIInv, Simulations, Placed
  <2> QED
    BY <2>2, <2>3, <2>4, <2>5 DEF SimIInv, Simulations, Placed
<1>7. CASE M5Exit(k)
  <2>1. fw'[k] = "off" /\ \A j \in Kernels \ {k} : fw'[j] = fw[j]
    BY <1>b, <1>7 DEF M5Exit, SimTypeOK
  <2>2. fw' \in [Kernels -> FwPoints]
    BY <1>b, <1>7 DEF M5Exit, SimTypeOK, FwPoints
  <2>3. faults' \in 0 .. MaxFaults /\ "m5_exit" \in Lines /\ proc[k] = "running"
    BY <1>a, <1>b, <1>7 DEF M5Exit, SimTypeOK, Lines, Running
  <2>4. /\ SimTypeOK' /\ Window(k)' /\ ~Running(k)'
        /\ \A j \in Kernels \ {k} : proc'[j] = proc[j] /\ windows'[j] = windows[j]
    BY <1>a, <1>b, <1>7, <2>2, <2>3, EndKeeps DEF M5Exit
  <2>5. ASSUME NEW j \in Kernels, j # k
        PROVE  Placed(j)' /\ Window(j)'
    <3>1. /\ proc'[j] = proc[j] /\ fw'[j] = fw[j] /\ r5'[j] = r5[j] /\ calls'[j] = calls[j]
          /\ since'[j] = since[j] /\ windows'[j] = windows[j]
      BY <2>5, <1>7, <2>4 DEF M5Exit
    <3> QED
      BY <3>1, Untouched DEF SimIInv, Simulations, Placed
  <2> QED
    BY <2>1, <2>4, <2>5 DEF SimIInv, Simulations, Placed
<1> QED
  BY <1>1, <1>2, <1>3, <1>4, <1>5, <1>6, <1>7 DEF Firmware

\* What happens to a simulation from outside keeps the invariant.
LEMMA MishapKeeps ==
  ASSUME SimIInv, NEW k \in Kernels, OtherExit(k) \/ Abort(k) \/ Hang(k)
  PROVE  SimIInv'
<1>a. SimTypeOK /\ Running(k) /\ Phase(k) /\ Window(k) /\ faults' \in 0 .. MaxFaults
  <2>1. Running(k) /\ Fault
    BY DEF OtherExit, Abort, Hang
  <2>2. faults \in 0 .. MaxFaults /\ MaxFaults \in Nat
    BY Bounds DEF SimIInv, SimTypeOK
  <2>3. faults' \in 0 .. MaxFaults
    BY <2>1, <2>2 DEF Fault
  <2> QED
    BY <2>1, <2>3 DEF SimIInv, Simulations, Placed
<1>1. SimTypeOK' /\ Window(k)' /\ Placed(k)'
  <2>1. CASE OtherExit(k)
    <3>1. fw' \in [Kernels -> FwPoints] /\ fw'[k] = "off"
      BY <1>a, <2>1 DEF OtherExit, SimTypeOK, FwPoints
    <3>2. SimTypeOK' /\ Window(k)' /\ ~Running(k)'
      BY <1>a, <2>1, <3>1, EndKeeps DEF OtherExit, Running, Lines
    <3> QED
      BY <3>1, <3>2 DEF Placed
  <2>2. CASE Abort(k)
    <3>1. SimTypeOK' /\ proc'[k] = "failed" /\ fw'[k] = "off"
      BY <1>a, <2>2 DEF Abort, SimTypeOK, FwPoints
    <3> QED
      BY <1>a, <2>2, <3>1 DEF Abort, Placed, Running, Window
  <2>3. CASE Hang(k)
    <3>1. SimTypeOK' /\ fw'[k] = "hung"
      BY <1>a, <2>3 DEF Hang, SimTypeOK, FwPoints
    <3> QED
      BY <1>a, <2>3, <3>1 DEF Hang, Placed, Running, Phase, Window
  <2> QED
    BY <2>1, <2>2, <2>3
<1>2. ASSUME NEW j \in Kernels, j # k
      PROVE  Placed(j)' /\ Window(j)'
  <2>1. /\ proc'[j] = proc[j] /\ fw'[j] = fw[j] /\ r5'[j] = r5[j] /\ calls'[j] = calls[j]
        /\ since'[j] = since[j] /\ windows'[j] = windows[j]
    BY <1>a, <1>2 DEF OtherExit, ProcessEnds, Dump, Abort, Hang, SimTypeOK
  <2> QED
    BY <2>1, Untouched DEF SimIInv, Simulations, Placed
<1> QED
  BY <1>1, <1>2 DEF SimIInv, Simulations, Placed

\* A simulator that is killed keeps the windows it has written.
LEMMA KilledKeeps ==
  ASSUME SimIInv, NEW P \in SUBSET Kernels,
         proc' = [k \in Kernels |-> IF k \in P THEN "failed" ELSE proc[k]],
         fw' \in [Kernels -> FwPoints],
         \A k \in Kernels : fw'[k] = IF k \in P THEN "off" ELSE fw[k],
         \A k \in P : Running(k),
         UNCHANGED <<r5, calls, since, simout, windows>>, faults' \in 0 .. MaxFaults
  PROVE  SimIInv'
<1>1. SimTypeOK'
  BY DEF SimIInv, SimTypeOK
<1>2. ASSUME NEW k \in Kernels
      PROVE  Placed(k)' /\ Window(k)'
  BY DEF SimIInv, Simulations, Placed, Running, Phase, Window
<1> QED
  BY <1>1, <1>2 DEF SimIInv, Simulations, Placed

\* What run_one accepts is what the repetitions cost, unless another simulator has
\* written into the files.
LEMMA AcceptedIsSound ==
  ASSUME SimIInv, NEW k \in Kernels, Accepted(k)
  PROVE  Sound(k)
<1>1. windows[k] \in Seq(Nat) /\ Len(windows[k]) = InnerReps + 1 /\ proc[k] \in {"ended", "mixed"}
  BY DEF SimIInv, SimTypeOK, Accepted
<1>2. proc[k] = "ended" => \A n \in 1 .. InnerReps : windows[k][n] = BodyCycles[k][n] + CallCycles
  BY <1>1, Bounds DEF SimIInv, Simulations, Window
<1>3. Values(k) = [n \in 1 .. InnerReps |-> windows[k][n]] /\ Values(k) \in Seq(Nat)
  BY <1>1, Bounds DEF Values
<1> QED
  BY <1>1, <1>2, <1>3 DEF Sound, Costs

\* A step outside the simulators.
LEMMA SimUnchanged ==
  ASSUME SimIInv, UNCHANGED <<simVars>>, faults' \in 0 .. MaxFaults
  PROVE  SimIInv'
BY DEF SimIInv, SimTypeOK, Simulations, Placed, Running, Phase, Window, simVars
-----------------------------------------------------------------------------
(* The workers *)

\* The sweep's own variables.
FilesTyped ==
  /\ summary \in [Kernels -> Seq(Seq(Nat))]
  /\ repetitions \in [Kernels -> Seq(Seq(Nat))]
  /\ errors \subseteq Kernels
  /\ steady \subseteq Kernels
  /\ manifest \in [completed : 0 .. NumKernels, failed : 0 .. NumKernels]

MainTyped ==
  /\ main \in MainPoints
  /\ cur \in 0 .. NumKernels
  /\ failures \subseteq Kernels
  /\ count \in 0 .. NumKernels
  /\ exitCode \in 0 .. 1
  /\ undisturbed \in BOOLEAN
  /\ left \subseteq Kernels

LEMMA TypeParts ==
  TypeOK <=> SimTypeOK /\ FilesTyped /\ MainTyped /\ future \in [Kernels -> Futures]
BY DEF TypeOK, FilesTyped, MainTyped

LEMMA TypePartsPrimed ==
  TypeOK' <=> SimTypeOK' /\ FilesTyped' /\ MainTyped' /\ future' \in [Kernels -> Futures]
BY DEF TypeOK, FilesTyped, MainTyped

\* The rows of a kernel depend on the end of its own simulation, and a kernel that
\* is pending has none.
LEMMA OtherRowsKept ==
  ASSUME IInv, NEW k \in Pending, \A j \in Kernels \ {k} : proc'[j] = proc[j],
         UNCHANGED <<summary, repetitions>>
  PROVE  RecordedAsMeasured'
BY DEF IInv, Rows, RecordedAsMeasured, Costs

\* A step of a simulation, running or over, leaves the sweep as it is.
LEMMA SimulationStep ==
  ASSUME IInv, NEW k \in Kernels, future[k] = "running", Running(k)' => Running(k), SimIInv',
         \A j \in Kernels \ {k} : proc'[j] = proc[j] /\ windows'[j] = windows[j],
         UNCHANGED <<files, future, mainVars, undisturbed, left>>
  PROVE  IInv'
<1>1. future[k] = "running"
  OBVIOUS
<1>2. TypeOK'
  BY TypeParts, TypePartsPrimed DEF IInv, SimIInv, FilesTyped, MainTyped, files, mainVars
<1>3. Owners'
  BY DEF IInv, Owners, AllDone, In, Running, mainVars
<1>4. \A j \in Kernels : j # k => Sound(j)' = Sound(j) /\ Values(j)' = Values(j)
  BY DEF Sound, Values, Costs
<1>5. Rows'
  BY <1>1, <1>4 DEF IInv, Rows, Saving, Pending, In, files, mainVars
<1>6. Agreement' /\ Accounts' /\ EndAccountsForAll'
  BY DEF IInv, Agreement, Accounts, EndAccountsForAll, Finished, InHand,
     Pending, In, Recorded, Sampled, files, mainVars
<1>7. RecordedAsMeasured'
  BY <1>1, OtherRowsKept DEF IInv, Pending, In, files
<1> QED
  BY <1>2, <1>3, <1>5, <1>6, <1>7 DEF IInv, SimIInv

\* So does a task that is taken or ends, but for its future.
LEMMA FutureStep ==
  ASSUME IInv, NEW k \in Kernels, SimIInv', future[k] \in {"queued", "running"},
         NEW to \in {"running", "result", "error"},
         future' = [future EXCEPT ![k] = to],
         to = "result" => Sound(k)',
         Running(k)' => to = "running",
         \A j \in Kernels \ {k} : proc'[j] = proc[j] /\ windows'[j] = windows[j],
         UNCHANGED <<files, mainVars, undisturbed, left>>
  PROVE  IInv'
<1>1. /\ future' \in [Kernels -> Futures] /\ future'[k] = to
      /\ \A j \in Kernels \ {k} : future'[j] = future[j]
  BY DEF IInv, TypeOK, Futures
<1>2. Pending' = Pending
  BY <1>1 DEF Pending, In
<1>3. main \notin {"down", "write_steady", "write_manifest", "exit"}
  BY DEF IInv, Owners, AllDone, In
<1>4. TypeOK'
  BY <1>1, TypeParts, TypePartsPrimed DEF IInv, SimIInv, FilesTyped, MainTyped, files, mainVars
<1>5. Owners'
  BY <1>1, <1>3 DEF IInv, Owners, Running, mainVars
<1>6. \A j \in Kernels : j # k => Sound(j)' = Sound(j) /\ Values(j)' = Values(j)
  BY DEF Sound, Values, Costs
<1>8. Rows'
  BY <1>2, <1>6 DEF IInv, Rows, Saving, files, mainVars
<1>9. RecordedAsMeasured' /\ Agreement'
  <2>1. k \in Pending
    BY DEF Pending, In
  <2> QED
    BY <2>1, OtherRowsKept DEF IInv, Agreement, Recorded, Sampled, files, mainVars
<1>10. Accounts' /\ EndAccountsForAll'
  BY <1>2 DEF IInv, Accounts, EndAccountsForAll, Finished, InHand, Recorded, files, mainVars
<1> QED
  BY <1>4, <1>5, <1>8, <1>9, <1>10 DEF IInv, SimIInv

\* A time-out kills its simulator.
LEMMA OneKilled ==
  ASSUME SimIInv, NEW k \in Kernels, Running(k),
         proc' = [proc EXCEPT ![k] = "failed"], fw' = [fw EXCEPT ![k] = "off"],
         UNCHANGED <<r5, calls, since, simout, windows>>, faults' \in 0 .. MaxFaults
  PROVE  /\ SimIInv' /\ ~Running(k)'
         /\ \A j \in Kernels \ {k} : proc'[j] = proc[j] /\ windows'[j] = windows[j]
<1>1. proc' = [j \in Kernels |-> IF j \in {k} THEN "failed" ELSE proc[j]]
  BY DEF SimIInv, SimTypeOK
<1>2. fw' \in [Kernels -> FwPoints] /\ \A j \in Kernels : fw'[j] = IF j \in {k} THEN "off" ELSE fw[j]
  BY DEF SimIInv, SimTypeOK, FwPoints
<1>3. SimIInv'
  BY <1>1, <1>2, KilledKeeps
<1> QED
  BY <1>1, <1>3 DEF Running

\* Another simulator writes into the files of one that has ended.
LEMMA OverwriteKeeps ==
  ASSUME SimIInv, NEW k \in Kernels, Overwrite(k)
  PROVE  /\ SimIInv' /\ ~Running(k)'
         /\ \A j \in Kernels \ {k} : proc'[j] = proc[j] /\ windows'[j] = windows[j]
<1>1. /\ proc' \in [Kernels -> {"none", "running", "ended", "failed", "mixed"}]
      /\ proc'[k] = "mixed" /\ \A j \in Kernels \ {k} : proc'[j] = proc[j]
  BY DEF Overwrite, SimIInv, SimTypeOK
<1>2. /\ windows' \in [Kernels -> Seq(Nat)]
      /\ \A j \in Kernels \ {k} : windows'[j] = windows[j]
  <2>1. PICK w \in [1 .. InnerReps + 1 -> Leftover] : windows' = [windows EXCEPT ![k] = w]
    BY DEF Overwrite
  <2>2. w \in Seq(Nat)
    <3>1. InnerReps + 1 \in Nat /\ Leftover \subseteq Nat
      BY Bounds, M4SweepAssumption
    <3>2. w \in [1 .. InnerReps + 1 -> Nat]
      BY <2>1, <3>1
    <3> QED
      BY <3>1, <3>2
  <2> QED
    BY <2>1, <2>2 DEF SimIInv, SimTypeOK
<1>3. simout' \in [Kernels -> Seq(Lines)]
  <2>1. WholeOutput \in Seq(Lines)
    <3> DEFINE ROIs == [n \in 1 .. (2 * InnerReps) |-> IF n % 2 = 1 THEN "ROI BEGIN" ELSE "ROI END"]
    <3>1. ROIs \in Seq(Lines)
      BY Bounds DEF Lines
    <3>2. <<"MICROBENCH", "m5_exit">> \in Seq(Lines)
      BY DEF Lines
    <3>3. WholeOutput = ROIs \o <<"MICROBENCH", "m5_exit">>
      BY DEF WholeOutput
    <3> HIDE DEF ROIs
    <3> QED
      BY <3>1, <3>2, <3>3
  <2> HIDE DEF WholeOutput
  <2> QED
    BY <2>1 DEF Overwrite, SimIInv, SimTypeOK
<1>4. faults' \in 0 .. MaxFaults
  BY Bounds DEF Overwrite, Fault, SimIInv, SimTypeOK
<1>5. SimTypeOK'
  BY <1>1, <1>2, <1>3, <1>4 DEF Overwrite, SimIInv, SimTypeOK
<1>6. Placed(k)' /\ Window(k)'
  BY <1>1 DEF Overwrite, SimIInv, Simulations, Placed, Running, Window
<1>7. ASSUME NEW j \in Kernels, j # k
      PROVE  Placed(j)' /\ Window(j)'
  BY <1>1, <1>2, <1>7, Untouched DEF Overwrite, SimIInv, Simulations, Placed
<1> QED
  BY <1>1, <1>2, <1>5, <1>6, <1>7 DEF SimIInv, Simulations, Running

LEMMA WorkerKeeps ==
  ASSUME IInv, NEW k \in Kernels, Progress(k) \/ Mishap(k)
  PROVE  IInv'
<1>a. SimIInv /\ faults \in 0 .. MaxFaults /\ MaxFaults \in Nat
  BY Bounds DEF IInv, TypeOK, SimIInv, SimTypeOK
<1>1. CASE TakeTask(k)
  <2>1. Launch(k) /\ future[k] = "queued" /\ future' = [future EXCEPT ![k] = "running"]
    BY <1>1 DEF TakeTask, Become
  <2>2. \A j \in Kernels \ {k} : proc'[j] = proc[j] /\ windows'[j] = windows[j]
    BY <1>a, <2>1 DEF Launch, SimIInv, SimTypeOK
  <2>3. SimIInv'
    BY <1>a, <2>1, LaunchKeeps
  <2> QED
    BY <1>1, <2>1, <2>2, <2>3, FutureStep DEF TakeTask
<1>2. CASE RunOneEnds(k)
  <2>1. SimIInv' /\ UNCHANGED <<proc, windows>>
    BY <1>a, <1>2, SimUnchanged DEF RunOneEnds, simVars
  <2>2. ~Running(k)'
    BY <1>2, <2>1 DEF RunOneEnds, Running
  <2>3. CASE Accepted(k)
    <3>1. Sound(k)'
      BY <1>a, <2>1, <2>3, AcceptedIsSound DEF Sound, Values
    <3> QED
      BY <1>2, <2>1, <2>2, <3>1, FutureStep DEF RunOneEnds, Become
  <2>4. CASE ~Accepted(k)
    BY <1>2, <2>1, <2>2, <2>4, FutureStep DEF RunOneEnds, Become
  <2> QED
    BY <2>3, <2>4
<1>3. CASE TimeoutExpired(k)
  <2>1. future[k] = "running" /\ future' = [future EXCEPT ![k] = "error"]
    BY <1>3 DEF TimeoutExpired, Become
  <2>2. /\ SimIInv' /\ ~Running(k)'
        /\ \A j \in Kernels \ {k} : proc'[j] = proc[j] /\ windows'[j] = windows[j]
    <3>1. Running(k)
      BY <1>a, <1>3 DEF TimeoutExpired, SimIInv, Simulations, Placed
    <3> QED
      BY <1>a, <1>3, <3>1, OneKilled DEF TimeoutExpired
  <2> QED
    BY <1>3, <2>1, <2>2, FutureStep DEF TimeoutExpired
<1>4. CASE TooSlow(k)
  <2>1. future[k] = "running" /\ future' = [future EXCEPT ![k] = "error"]
    BY <1>4 DEF TooSlow, Become
  <2>2. faults' \in 0 .. MaxFaults
    BY <1>a, <1>4 DEF TooSlow, Fault
  <2>3. /\ SimIInv' /\ ~Running(k)'
        /\ \A j \in Kernels \ {k} : proc'[j] = proc[j] /\ windows'[j] = windows[j]
    BY <1>a, <1>4, <2>2, OneKilled DEF TooSlow
  <2> QED
    BY <1>4, <2>1, <2>3, FutureStep DEF TooSlow
<1>5. CASE Firmware(k) /\ UNCHANGED <<files, future, mainVars, undisturbed, left>>
  <2>1. Running(k) /\ future[k] = "running"
    BY <1>5 DEF Firmware, Goto, Warmup, WorkBegin, MeasuredCall, WorkEnd, LoopOrReturn, WriteMarker, M5Exit,
       IInv, Owners
  <2>2. \A j \in Kernels \ {k} : proc'[j] = proc[j] /\ windows'[j] = windows[j]
    BY <1>a, <1>5 DEF Firmware, Goto, Warmup, WorkBegin, MeasuredCall, WorkEnd, LoopOrReturn, WriteMarker,
       M5Exit, Dump, ProcessEnds, SimIInv, SimTypeOK
  <2>3. SimIInv'
    BY <1>a, <1>5, FirmwareKeeps
  <2> QED
    BY <1>5, <2>1, <2>2, <2>3, SimulationStep
<1>6. CASE (OtherExit(k) \/ Abort(k) \/ Hang(k)) /\ UNCHANGED <<files, future, mainVars, undisturbed, left>>
  <2>1. Running(k) /\ future[k] = "running"
    BY <1>6 DEF OtherExit, Abort, Hang, IInv, Owners
  <2>2. \A j \in Kernels \ {k} : proc'[j] = proc[j] /\ windows'[j] = windows[j]
    BY <1>a, <1>6 DEF OtherExit, Abort, Hang, Dump, ProcessEnds, SimIInv, SimTypeOK
  <2>3. SimIInv'
    BY <1>a, <1>6, MishapKeeps
  <2> QED
    BY <1>6, <2>1, <2>2, <2>3, SimulationStep
<1>7. CASE Rejected(k)
  <2>1. faults' \in 0 .. MaxFaults
    BY <1>a, <1>7 DEF Rejected, Fault
  <2>2. SimIInv' /\ UNCHANGED <<proc, windows>>
    BY <1>a, <1>7, <2>1, SimUnchanged DEF Rejected, simVars
  <2>3. ~Running(k)'
    BY <1>7, <2>2 DEF Rejected, Running
  <2> QED
    BY <1>7, <2>2, <2>3, FutureStep DEF Rejected, Become
<1>8. CASE Overwrite(k)
  <2>1. /\ SimIInv' /\ ~Running(k)'
        /\ \A j \in Kernels \ {k} : proc'[j] = proc[j] /\ windows'[j] = windows[j]
    BY <1>a, <1>8, OverwriteKeeps DEF Overwrite
  <2> QED
    BY <1>8, <2>1, SimulationStep DEF Overwrite
<1> QED
  BY <1>1, <1>2, <1>3, <1>4, <1>5, <1>6, <1>7, <1>8 DEF Progress, Mishap
-----------------------------------------------------------------------------
(* The main thread *)

\* Kernels and their parts are finite.
LEMMA FiniteKernels ==
  ASSUME NEW S \in SUBSET Kernels
  PROVE  IsFiniteSet(S) /\ Cardinality(S) \in 0 .. NumKernels
<1>1. IsFiniteSet(Kernels) /\ Cardinality(Kernels) = NumKernels
  BY Bounds, FS_Interval DEF Kernels
<1>2. IsFiniteSet(S) /\ Cardinality(S) <= NumKernels
  BY <1>1, FS_Subset
<1> QED
  BY <1>2, FS_CardinalityType, Bounds

LEMMA WholeKernels == IsFiniteSet(Kernels) /\ Cardinality(Kernels) = NumKernels
BY Bounds, FS_Interval DEF Kernels

\* A row that is appended where there was none.
LEMMA FirstRow ==
  ASSUME NEW k \in Kernels, NEW f \in [Kernels -> Seq(Seq(Nat))], f[k] = <<>>, NEW v \in Seq(Nat)
  PROVE  /\ [f EXCEPT ![k] = Append(@, v)] \in [Kernels -> Seq(Seq(Nat))]
         /\ [f EXCEPT ![k] = Append(@, v)][k] = <<v>>
         /\ \A j \in Kernels \ {k} : [f EXCEPT ![k] = Append(@, v)][j] = f[j]
<1>1. Append(<<>>, v) = <<v>> /\ <<v>> \in Seq(Seq(Nat))
  OBVIOUS
<1> QED
  BY <1>1

\* What is saved of a sound simulation counts as measured.
LEMMA RowIsMeasured ==
  ASSUME NEW k \in Kernels, Sound(k)
  PROVE  Len(<<Values(k)>>) <= 1 /\ (proc[k] # "mixed" => <<Values(k)>> = <<Costs(k)>>)
BY DEF Sound

\* Whatever the main thread does, a step of its own leaves the simulations alone.
LEMMA MainLeavesSim ==
  ASSUME IInv, UNCHANGED simVars, faults' \in 0 .. MaxFaults
  PROVE  /\ SimIInv'
         /\ \A k \in Kernels : Sound(k)' = Sound(k) /\ Running(k)' = Running(k)
         /\ \A k \in Kernels : Values(k)' = Values(k) /\ proc'[k] = proc[k]
<1>1. SimIInv'
  BY SimUnchanged DEF IInv, TypeOK, SimIInv, simVars
<1> QED
  BY <1>1 DEF Sound, Values, Running, simVars

\* A result is taken off the futures.
LEMMA TakeResultKeeps ==
  ASSUME IInv, NEW k \in Kernels, TakeResult(k)
  PROVE  IInv'
<1>a. /\ SimIInv' /\ \A j \in Kernels : Sound(j)' = Sound(j) /\ Running(j)' = Running(j)
      /\ \A j \in Kernels : Values(j)' = Values(j) /\ proc'[j] = proc[j]
  <2>1. faults' \in 0 .. MaxFaults
    BY DEF TakeResult, IInv, TypeOK, SimTypeOK
  <2> QED
    BY <2>1, MainLeavesSim DEF TakeResult, simVars
<1>b. SimTypeOK /\ FilesTyped /\ MainTyped /\ future \in [Kernels -> Futures]
  BY TypeParts DEF IInv
<1>c. /\ future' \in [Kernels -> Futures] /\ future'[k] = "handled" /\ future[k] = "result"
      /\ \A j \in Kernels \ {k} : future'[j] = future[j]
  BY <1>b DEF TakeResult, Become, Futures
<1>d. Pending' = Pending \ {k} /\ k \in Pending /\ ~Saving /\ Saving'
  BY <1>c DEF TakeResult, Move, Pending, In, Saving
<1>e. Finished' = Finished
  BY <1>d DEF TakeResult, Finished, InHand, Move
<1>1. FilesTyped' /\ MainTyped' /\ future' \in [Kernels -> Futures]
  BY <1>b DEF TakeResult, FilesTyped, MainTyped, files, MainPoints, Move, Become, Futures,
     Kernels
<1>2. Owners'
  BY <1>a, <1>c DEF TakeResult, IInv, Owners, Move
<1>3. Rows'
  BY <1>a, <1>c, <1>d DEF TakeResult, IInv, Rows, Move, files
<1>4. RecordedAsMeasured'
  BY <1>a DEF TakeResult, IInv, RecordedAsMeasured, files
<1>5. Agreement'
  BY DEF TakeResult, IInv, Agreement, Recorded, Sampled, files, Move
<1>6. Accounts'
  BY <1>d, <1>e DEF TakeResult, IInv, Accounts, InHand, Move, Recorded, files
<1>7. EndAccountsForAll'
  BY DEF TakeResult, EndAccountsForAll, Move
<1> QED
  BY <1>a, <1>1, <1>2, <1>3, <1>4, <1>5, <1>6, <1>7, TypePartsPrimed DEF IInv, SimIInv

\* An error is taken off the futures.
LEMMA TakeErrorKeeps ==
  ASSUME IInv, NEW k \in Kernels, TakeError(k)
  PROVE  IInv'
<1>a. /\ SimIInv' /\ \A j \in Kernels : Sound(j)' = Sound(j) /\ Running(j)' = Running(j)
      /\ \A j \in Kernels : Values(j)' = Values(j) /\ proc'[j] = proc[j]
  <2>1. faults' \in 0 .. MaxFaults
    BY DEF TakeError, IInv, TypeOK, SimTypeOK
  <2> QED
    BY <2>1, MainLeavesSim DEF TakeError, simVars
<1>b. SimTypeOK /\ FilesTyped /\ MainTyped /\ future \in [Kernels -> Futures]
  BY TypeParts DEF IInv
<1>c. /\ future' \in [Kernels -> Futures] /\ future'[k] = "handled" /\ future[k] = "error"
      /\ \A j \in Kernels \ {k} : future'[j] = future[j]
  BY <1>b DEF TakeError, Become, Futures
<1>d. Pending' = Pending \ {k} /\ k \in Pending /\ ~Saving /\ Saving'
  BY <1>c DEF TakeError, Move, Pending, In, Saving
<1>e. Finished' = Finished
  BY <1>d DEF TakeError, Finished, InHand, Move
<1>1. FilesTyped' /\ MainTyped' /\ future' \in [Kernels -> Futures]
  BY <1>b DEF TakeError, FilesTyped, MainTyped, files, MainPoints, Move, Become, Futures,
     Kernels
<1>2. Owners'
  BY <1>a, <1>c DEF TakeError, IInv, Owners, Move
<1>3. Rows'
  BY <1>a, <1>c, <1>d DEF TakeError, IInv, Rows, Move, files
<1>4. RecordedAsMeasured'
  BY <1>a DEF TakeError, IInv, RecordedAsMeasured, files
<1>5. Agreement'
  BY DEF TakeError, IInv, Agreement, Recorded, Sampled, files, Move
<1>6. Accounts'
  BY <1>d, <1>e DEF TakeError, IInv, Accounts, InHand, Move, Recorded, files
<1>7. EndAccountsForAll'
  BY DEF TakeError, EndAccountsForAll, Move
<1> QED
  BY <1>a, <1>1, <1>2, <1>3, <1>4, <1>5, <1>6, <1>7, TypePartsPrimed DEF IInv, SimIInv

\* The first of the two appends.
LEMMA SaveSummaryKeeps ==
  ASSUME IInv, SaveSummary
  PROVE  IInv'
<1>a. /\ SimIInv' /\ \A j \in Kernels : Sound(j)' = Sound(j) /\ Running(j)' = Running(j)
      /\ \A j \in Kernels : Values(j)' = Values(j) /\ proc'[j] = proc[j]
  <2>1. faults' \in 0 .. MaxFaults
    BY DEF SaveSummary, IInv, TypeOK, SimTypeOK
  <2> QED
    BY <2>1, MainLeavesSim DEF SaveSummary, simVars
<1>b. SimTypeOK /\ FilesTyped /\ MainTyped /\ future \in [Kernels -> Futures]
  BY TypeParts DEF IInv
<1>c. cur \in Kernels /\ Sound(cur) /\ Values(cur) \in Seq(Nat) /\ summary[cur] = <<>> /\ repetitions[cur] = <<>>
  BY DEF SaveSummary, Move, IInv, Rows, Saving, Sound, RecordedAsMeasured
<1>d. /\ summary' \in [Kernels -> Seq(Seq(Nat))] /\ summary'[cur] = <<Values(cur)>>
      /\ \A j \in Kernels \ {cur} : summary'[j] = summary[j]
  BY <1>b, <1>c, FirstRow DEF SaveSummary, AddRows, FilesTyped
<1>e. Pending' = Pending /\ Finished' = Finished /\ cur \notin Pending
  BY DEF SaveSummary, Move, Pending, In, Finished, InHand, Saving, IInv, Rows
<1>f. Recorded' = Recorded \cup {cur} /\ Sampled' = Sampled /\ cur \notin Recorded
  BY <1>c, <1>d DEF SaveSummary, AddRows, Recorded, Sampled
<1>1. FilesTyped' /\ MainTyped' /\ future' \in [Kernels -> Futures]
  BY <1>b, <1>d DEF SaveSummary, FilesTyped, MainTyped, MainPoints, Move
<1>2. Owners'
  BY <1>a DEF SaveSummary, IInv, Owners, Move
<1>3. Rows'
  BY <1>a, <1>c, <1>d DEF SaveSummary, IInv, Rows, Saving, Pending, Move, In
<1>4. RecordedAsMeasured'
  BY <1>a, <1>c, <1>d, RowIsMeasured DEF SaveSummary, IInv, RecordedAsMeasured, Costs
<1>5. Agreement'
  BY <1>f DEF SaveSummary, IInv, Agreement, RecordedAsMeasured, Recorded, Sampled, Move
<1>6. Accounts'
  BY <1>e, <1>f DEF SaveSummary, IInv, Accounts, InHand, Move
<1>7. EndAccountsForAll'
  BY DEF SaveSummary, EndAccountsForAll, Move
<1> QED
  BY <1>a, <1>1, <1>2, <1>3, <1>4, <1>5, <1>6, <1>7, TypePartsPrimed DEF IInv, SimIInv

\* The second append.
LEMMA SaveRepetitionsKeeps ==
  ASSUME IInv, SaveRepetitions
  PROVE  IInv'
<1>a. /\ SimIInv' /\ \A j \in Kernels : Sound(j)' = Sound(j) /\ Running(j)' = Running(j)
      /\ \A j \in Kernels : Values(j)' = Values(j) /\ proc'[j] = proc[j]
  <2>1. faults' \in 0 .. MaxFaults
    BY DEF SaveRepetitions, IInv, TypeOK, SimTypeOK
  <2> QED
    BY <2>1, MainLeavesSim DEF SaveRepetitions, simVars
<1>b. SimTypeOK /\ FilesTyped /\ MainTyped /\ future \in [Kernels -> Futures]
  BY TypeParts DEF IInv
<1>c. cur \in Kernels /\ Values(cur) \in Seq(Nat) /\ summary[cur] = <<Values(cur)>> /\ repetitions[cur] = <<>>
  BY DEF SaveRepetitions, Move, IInv, Rows, Saving, Sound
<1>d. /\ repetitions' \in [Kernels -> Seq(Seq(Nat))] /\ repetitions'[cur] = <<Values(cur)>>
      /\ \A j \in Kernels \ {cur} : repetitions'[j] = repetitions[j]
  BY <1>b, <1>c, FirstRow DEF SaveRepetitions, AddRows, FilesTyped
<1>e. Recorded' = Recorded /\ Sampled' = Sampled \cup {cur} /\ cur \in Recorded /\ cur \notin Sampled
  <2>1. Recorded' = Recorded /\ cur \in Recorded /\ cur \notin Sampled
    <3>1. summary[cur] # <<>>
      BY <1>c
    <3> QED
      BY <1>c, <3>1 DEF SaveRepetitions, Recorded, Sampled
  <2>2. repetitions'[cur] # <<>>
    BY <1>d
  <2>3. Sampled' = Sampled \cup {cur}
    BY <1>c, <1>d, <2>2 DEF Sampled
  <2> QED
    BY <2>1, <2>3
<1>f. Pending' = Pending /\ Finished' = Finished \cup {cur} /\ cur \notin Finished /\ cur \notin Pending
  BY DEF SaveRepetitions, Move, Pending, In, Finished, InHand, Saving, IInv, Rows, Accounts
<1>g. count' = Cardinality(Finished') /\ count' \in 0 .. NumKernels
  <2>1. Finished \in SUBSET Kernels /\ Finished' \in SUBSET Kernels
    BY DEF Finished
  <2>2. Cardinality(Finished') = Cardinality(Finished) + 1
    BY <1>f, <2>1, FiniteKernels, FS_AddElement
  <2> QED
    BY <2>1, <2>2, FiniteKernels DEF SaveRepetitions, Move, IInv, Accounts
<1>1. FilesTyped' /\ MainTyped' /\ future' \in [Kernels -> Futures]
  BY <1>b, <1>d, <1>g DEF SaveRepetitions, FilesTyped, MainTyped, MainPoints, Move
<1>2. Owners'
  BY <1>a DEF SaveRepetitions, IInv, Owners, Move
<1>3. Rows'
  BY <1>a, <1>f DEF SaveRepetitions, IInv, Rows, Saving, Move
<1>4. RecordedAsMeasured'
  BY <1>a, <1>c, <1>d DEF SaveRepetitions, IInv, RecordedAsMeasured, Costs
<1>5. Agreement'
  BY <1>e DEF SaveRepetitions, IInv, Agreement, Move
<1>6. Accounts'
  BY <1>e, <1>f, <1>g DEF SaveRepetitions, IInv, Accounts, Finished, InHand
<1>7. EndAccountsForAll'
  BY DEF SaveRepetitions, EndAccountsForAll, Move
<1> QED
  BY <1>a, <1>1, <1>2, <1>3, <1>4, <1>5, <1>6, <1>7, TypePartsPrimed DEF IInv, SimIInv

\* A failure is entered in errors.csv.
LEMMA LogErrorKeeps ==
  ASSUME IInv, LogError
  PROVE  IInv'
<1>a. /\ SimIInv' /\ \A j \in Kernels : Sound(j)' = Sound(j) /\ Running(j)' = Running(j)
      /\ \A j \in Kernels : Values(j)' = Values(j) /\ proc'[j] = proc[j]
  <2>1. faults' \in 0 .. MaxFaults
    BY DEF LogError, IInv, TypeOK, SimTypeOK
  <2> QED
    BY <2>1, MainLeavesSim DEF LogError, simVars
<1>b. SimTypeOK /\ FilesTyped /\ MainTyped /\ future \in [Kernels -> Futures]
  BY TypeParts DEF IInv
<1>c. cur \in Kernels
  BY DEF LogError, Move, IInv, Rows, Saving
<1>e. Pending' = Pending /\ Finished' = Finished /\ cur \notin Pending
  BY DEF LogError, Move, Pending, In, Finished, InHand, Saving, IInv, Rows
<1>1. FilesTyped' /\ MainTyped' /\ future' \in [Kernels -> Futures]
  BY <1>b, <1>c DEF LogError, FilesTyped, MainTyped, MainPoints, Move
<1>2. Owners'
  BY <1>a DEF LogError, IInv, Owners, Move
<1>3. Rows'
  BY <1>a, <1>e DEF LogError, IInv, Rows, Saving, Move
<1>4. RecordedAsMeasured'
  BY <1>a DEF LogError, IInv, RecordedAsMeasured
<1>5. Agreement'
  BY DEF LogError, IInv, Agreement, Recorded, Sampled, Move
<1>6. Accounts'
  BY DEF LogError, IInv, Accounts, Finished, InHand, Saving, Pending, In, Recorded, Rows, Move
<1>7. EndAccountsForAll'
  BY DEF LogError, EndAccountsForAll, Move
<1> QED
  BY <1>a, <1>1, <1>2, <1>3, <1>4, <1>5, <1>6, <1>7, TypePartsPrimed DEF IInv, SimIInv

\* An exception leaves main once the workers are done.
LEMMA LeaveDrainedKeeps ==
  ASSUME IInv, LeaveDrained
  PROVE  IInv'
<1>a. /\ SimIInv' /\ \A j \in Kernels : Sound(j)' = Sound(j) /\ Running(j)' = Running(j)
      /\ \A j \in Kernels : Values(j)' = Values(j) /\ proc'[j] = proc[j]
  <2>1. faults' \in 0 .. MaxFaults
    BY DEF LeaveDrained, IInv, TypeOK, SimTypeOK
  <2> QED
    BY <2>1, MainLeavesSim DEF LeaveDrained, simVars
<1>b. SimTypeOK /\ FilesTyped /\ MainTyped /\ future \in [Kernels -> Futures]
  BY TypeParts DEF IInv
<1>1. FilesTyped' /\ MainTyped' /\ future' \in [Kernels -> Futures]
  BY <1>b DEF LeaveDrained, FilesTyped, MainTyped, files, MainPoints, Move
<1>2. Owners'
  BY <1>a DEF LeaveDrained, IInv, Owners, Move, AllDone, In
<1>3. Rows'
  BY <1>a DEF LeaveDrained, IInv, Rows, Saving, Pending, Move, In, files
<1>4. RecordedAsMeasured'
  BY <1>a DEF LeaveDrained, IInv, RecordedAsMeasured, files
<1>5. Agreement'
  BY DEF LeaveDrained, IInv, Agreement, Move
<1>6. Accounts'
  BY DEF LeaveDrained, Accounts, Move
<1>7. EndAccountsForAll'
  BY DEF LeaveDrained, EndAccountsForAll, Move
<1> QED
  BY <1>a, <1>1, <1>2, <1>3, <1>4, <1>5, <1>6, <1>7, TypePartsPrimed DEF IInv, SimIInv

\* The pool is left in order.
LEMMA LeavePoolKeeps ==
  ASSUME IInv, LeavePool
  PROVE  IInv'
<1>a. /\ SimIInv' /\ \A j \in Kernels : Sound(j)' = Sound(j) /\ Running(j)' = Running(j)
      /\ \A j \in Kernels : Values(j)' = Values(j) /\ proc'[j] = proc[j]
  <2>1. faults' \in 0 .. MaxFaults
    BY DEF LeavePool, IInv, TypeOK, SimTypeOK
  <2> QED
    BY <2>1, MainLeavesSim DEF LeavePool, simVars
<1>b. SimTypeOK /\ FilesTyped /\ MainTyped /\ future \in [Kernels -> Futures]
  BY TypeParts DEF IInv
<1>1. FilesTyped' /\ MainTyped' /\ future' \in [Kernels -> Futures]
  BY <1>b DEF LeavePool, FilesTyped, MainTyped, files, MainPoints, Move
<1>2. Owners'
  BY <1>a DEF LeavePool, IInv, Owners, AllDone, In
<1>3. Rows'
  BY DEF LeavePool, IInv, Rows, Saving, Pending, Move, In, files
<1>4. RecordedAsMeasured'
  BY <1>a DEF LeavePool, IInv, RecordedAsMeasured, files
<1>5. Agreement'
  BY DEF LeavePool, IInv, Agreement, Recorded, Sampled, files, Move
<1>6. Accounts'
  BY DEF LeavePool, IInv, Accounts, Finished, InHand, Pending, In, Recorded, Move, files
<1>7. EndAccountsForAll'
  BY DEF LeavePool, EndAccountsForAll, Move
<1> QED
  BY <1>a, <1>1, <1>2, <1>3, <1>4, <1>5, <1>6, <1>7, TypePartsPrimed DEF IInv, SimIInv

\* The steady-state summary names what has samples.
LEMMA WriteSteadyKeeps ==
  ASSUME IInv, WriteSteady
  PROVE  IInv'
<1>a. /\ SimIInv' /\ \A j \in Kernels : Sound(j)' = Sound(j) /\ Running(j)' = Running(j)
      /\ \A j \in Kernels : Values(j)' = Values(j) /\ proc'[j] = proc[j]
  <2>1. faults' \in 0 .. MaxFaults
    BY DEF WriteSteady, IInv, TypeOK, SimTypeOK
  <2> QED
    BY <2>1, MainLeavesSim DEF WriteSteady, simVars
<1>b. SimTypeOK /\ FilesTyped /\ MainTyped /\ future \in [Kernels -> Futures]
  BY TypeParts DEF IInv
<1>c. Pending = {} /\ InHand = {} /\ failures \subseteq Kernels
  BY <1>b DEF WriteSteady, Move, IInv, Owners, AllDone, Pending, InHand, In, MainTyped
<1>d. count + Cardinality(failures) = NumKernels
  <2>1. Finished = Kernels \ failures /\ count = Cardinality(Finished)
    BY <1>c DEF WriteSteady, Move, IInv, Accounts, Finished
  <2>2. IsFiniteSet(failures) /\ IsFiniteSet(Finished) /\ Finished \cup failures = Kernels
        /\ Finished \cap failures = {}
    BY <1>c, <2>1, FiniteKernels
  <2>3. Cardinality(Kernels) = Cardinality(Finished) + Cardinality(failures) - 0
    BY <2>2, FS_Union, FS_EmptySet
  <2> QED
    BY <2>1, <2>2, <2>3, WholeKernels, FS_CardinalityType
<1>e. Pending' = Pending /\ Finished' = Finished
  BY DEF WriteSteady, Move, Pending, In, Finished, InHand
<1>1. FilesTyped' /\ MainTyped' /\ future' \in [Kernels -> Futures]
  BY <1>b DEF WriteSteady, FilesTyped, MainTyped, MainPoints, Move, Sampled
<1>2. Owners'
  BY <1>a DEF WriteSteady, IInv, Owners, Move, AllDone, In
<1>3. Rows'
  BY <1>a DEF WriteSteady, IInv, Rows, Saving, Pending, Move, In
<1>4. RecordedAsMeasured'
  BY <1>a DEF WriteSteady, IInv, RecordedAsMeasured
<1>5. Agreement'
  BY DEF WriteSteady, IInv, Agreement, RecordedAsMeasured, Recorded, Move, Sampled
<1>6. Accounts'
  BY <1>e DEF WriteSteady, IInv, Accounts, InHand, Recorded, Move
<1>7. EndAccountsForAll'
  BY <1>d DEF WriteSteady, IInv, EndAccountsForAll, Accounts, Move
<1> QED
  BY <1>a, <1>1, <1>2, <1>3, <1>4, <1>5, <1>6, <1>7, TypePartsPrimed DEF IInv, SimIInv

\* The manifest and the exit status.
LEMMA WriteManifestKeeps ==
  ASSUME IInv, WriteManifest
  PROVE  IInv'
<1>a. /\ SimIInv' /\ \A j \in Kernels : Sound(j)' = Sound(j) /\ Running(j)' = Running(j)
      /\ \A j \in Kernels : Values(j)' = Values(j) /\ proc'[j] = proc[j]
  <2>1. faults' \in 0 .. MaxFaults
    BY DEF WriteManifest, IInv, TypeOK, SimTypeOK
  <2> QED
    BY <2>1, MainLeavesSim DEF WriteManifest, simVars
<1>b. SimTypeOK /\ FilesTyped /\ MainTyped /\ future \in [Kernels -> Futures]
  BY TypeParts DEF IInv
<1>c. Pending = {} /\ InHand = {} /\ failures \subseteq Kernels
  BY <1>b DEF WriteManifest, Move, IInv, Owners, AllDone, Pending, InHand, In, MainTyped
<1>d. failures = {} => Recorded = Kernels /\ count = NumKernels /\ Cardinality(failures) = 0
  <2>1. Finished = Kernels \ failures /\ Finished \subseteq Recorded /\ count = Cardinality(Finished)
    BY <1>c DEF WriteManifest, Move, IInv, Accounts, Finished
  <2> QED
    BY <2>1, WholeKernels, FS_EmptySet DEF Recorded
<1>e. Cardinality(failures) \in 0 .. NumKernels
  BY <1>c, FiniteKernels
<1>1. FilesTyped' /\ MainTyped' /\ future' \in [Kernels -> Futures]
  BY <1>b, <1>e DEF WriteManifest, FilesTyped, MainTyped, MainPoints, Move, Status
<1>2. Owners'
  BY <1>a DEF WriteManifest, IInv, Owners, Move, AllDone, In
<1>3. Rows'
  BY <1>a DEF WriteManifest, IInv, Rows, Saving, Pending, Move, In
<1>4. RecordedAsMeasured'
  BY <1>a DEF WriteManifest, IInv, RecordedAsMeasured
<1>5. Agreement'
  BY DEF WriteManifest, IInv, Agreement, Recorded, Sampled, Move
<1>6. Accounts'
  BY DEF WriteManifest, Accounts, Move
<1>7. EndAccountsForAll'
  BY <1>d DEF WriteManifest, EndAccountsForAll, Recorded, Move, Status
<1> QED
  BY <1>a, <1>1, <1>2, <1>3, <1>4, <1>5, <1>6, <1>7, TypePartsPrimed DEF IInv, SimIInv

\* The sweep is started on the files as they are.
LEMMA StartKeeps ==
  ASSUME IInv, Start
  PROVE  IInv'
<1>a. /\ SimIInv' /\ \A j \in Kernels : Sound(j)' = Sound(j) /\ Running(j)' = Running(j)
      /\ \A j \in Kernels : Values(j)' = Values(j) /\ proc'[j] = proc[j]
  <2>1. faults' \in 0 .. MaxFaults
    BY DEF Start, IInv, TypeOK, SimTypeOK
  <2> QED
    BY <2>1, MainLeavesSim DEF Start, simVars
<1>b. SimTypeOK /\ FilesTyped /\ MainTyped /\ future \in [Kernels -> Futures]
  BY TypeParts DEF IInv
<1>c. /\ future' \in [Kernels -> Futures]
      /\ \A k \in Kernels : future'[k] = IF summary[k] # <<>> THEN "none" ELSE "queued"
  BY DEF Start, Completed, Recorded, Futures
<1>d. Pending' = Kernels \ Recorded /\ ~Saving' /\ Finished' = Recorded
  BY <1>c DEF Start, Pending, In, Recorded, Saving, Finished, InHand
<1>e. count' = Cardinality(Recorded) /\ count' \in 0 .. NumKernels /\ Recorded \in SUBSET Kernels
  BY FiniteKernels DEF Start, Completed, Recorded
<1>f. \A k \in Kernels : ~Running(k)
  BY DEF Start, IInv, Owners, AllDone, In
<1>1. FilesTyped' /\ MainTyped' /\ future' \in [Kernels -> Futures]
  BY <1>b, <1>c, <1>e, Bounds DEF Start, FilesTyped, MainTyped, files, MainPoints
<1>2. Owners'
  BY <1>a, <1>f DEF Start, Owners
<1>3. Rows'
  BY <1>c, <1>d DEF Start, Rows, files, Completed
<1>4. RecordedAsMeasured'
  BY <1>a DEF Start, IInv, RecordedAsMeasured, files
<1>5. Agreement'
  BY DEF Start, IInv, Agreement, Recorded, Sampled, files
<1>6. Accounts'
  BY <1>d, <1>e DEF Start, Accounts, Recorded, files
<1>7. EndAccountsForAll'
  BY DEF Start, EndAccountsForAll
<1> QED
  BY <1>a, <1>1, <1>2, <1>3, <1>4, <1>5, <1>6, <1>7, TypePartsPrimed DEF IInv, SimIInv

\* An append cut off leaves the rows of the kernel in hand, or none.
LEMMA CutAppendIs ==
  ASSUME IInv, CutAppend, UNCHANGED <<simVars, cur>>
  PROVE  /\ FilesTyped' /\ RecordedAsMeasured'
         /\ \A k \in Kernels : summary[k] # <<>> => summary'[k] # <<>>
         /\ \A k \in Pending : summary'[k] = <<>>
         /\ UNCHANGED <<errors, steady, manifest>>
<1>1. FilesTyped /\ UNCHANGED proc /\ \A k \in Kernels : Costs(k)' = Costs(k)
  BY TypeParts DEF IInv, Costs, simVars
<1>2. UNCHANGED <<errors, steady, manifest>>
  BY DEF CutAppend
<1>3. CASE UNCHANGED <<summary, repetitions>>
  BY <1>1, <1>2, <1>3 DEF FilesTyped, IInv, RecordedAsMeasured, Rows
<1>4. CASE main = "save_summary" /\ summary' = AddRows(summary) /\ UNCHANGED repetitions
  <2>1. /\ cur \in Kernels /\ Sound(cur) /\ Values(cur) \in Seq(Nat)
        /\ summary[cur] = <<>> /\ repetitions[cur] = <<>> /\ cur \notin Pending
    BY <1>4 DEF IInv, Rows, Saving, Sound, RecordedAsMeasured, Pending, In
  <2>2. /\ summary' \in [Kernels -> Seq(Seq(Nat))] /\ summary'[cur] = <<Values(cur)>>
        /\ \A j \in Kernels \ {cur} : summary'[j] = summary[j]
    BY <1>1, <1>4, <2>1, FirstRow DEF FilesTyped, AddRows
  <2>3. RecordedAsMeasured'
    BY <1>1, <1>4, <2>1, <2>2, RowIsMeasured DEF IInv, RecordedAsMeasured
  <2>4. \A k \in Pending : summary'[k] = <<>>
    BY <2>1, <2>2 DEF IInv, Rows, Pending, In
  <2> QED
    BY <1>1, <1>2, <1>4, <2>1, <2>2, <2>3, <2>4 DEF FilesTyped
<1>5. CASE main = "save_repetitions" /\ repetitions' = AddRows(repetitions) /\ UNCHANGED summary
  <2>1. /\ cur \in Kernels /\ Values(cur) \in Seq(Nat) /\ summary[cur] = <<Values(cur)>>
        /\ repetitions[cur] = <<>>
    BY <1>5 DEF IInv, Rows, Saving, Sound
  <2>2. /\ repetitions' \in [Kernels -> Seq(Seq(Nat))] /\ repetitions'[cur] = <<Values(cur)>>
        /\ \A j \in Kernels \ {cur} : repetitions'[j] = repetitions[j]
    BY <1>1, <1>5, <2>1, FirstRow DEF FilesTyped, AddRows
  <2> QED
    BY <1>1, <1>2, <1>5, <2>1, <2>2 DEF FilesTyped, IInv, RecordedAsMeasured, Rows
<1> QED
  BY <1>3, <1>4, <1>5 DEF CutAppend

\* An append raises.
LEMMA SaveFailsKeeps ==
  ASSUME IInv, SaveFails
  PROVE  IInv'
<1>a. /\ SimIInv' /\ \A j \in Kernels : Sound(j)' = Sound(j) /\ Running(j)' = Running(j)
      /\ \A j \in Kernels : Values(j)' = Values(j) /\ proc'[j] = proc[j]
  <2>1. faults' \in 0 .. MaxFaults
    BY Bounds DEF SaveFails, Fault, IInv, TypeOK, SimTypeOK
  <2> QED
    BY <2>1, MainLeavesSim DEF SaveFails, simVars
<1>b. SimTypeOK /\ FilesTyped /\ MainTyped /\ future \in [Kernels -> Futures]
  BY TypeParts DEF IInv
<1>c. /\ FilesTyped' /\ RecordedAsMeasured' /\ errors' = errors
      /\ \A k \in Kernels : summary[k] # <<>> => summary'[k] # <<>>
      /\ \A k \in Pending : summary'[k] = <<>>
  BY CutAppendIs DEF SaveFails
<1>d. Pending' = Pending /\ Finished' = Finished /\ InHand' = InHand /\ Recorded \subseteq Recorded'
  BY <1>c DEF SaveFails, Pending, In, Finished, InHand, Recorded
<1>1. FilesTyped' /\ MainTyped' /\ future' \in [Kernels -> Futures]
  BY <1>b, <1>c DEF SaveFails, MainTyped, MainPoints
<1>2. Owners'
  BY <1>a DEF SaveFails, IInv, Owners
<1>3. Rows'
  BY <1>a, <1>c, <1>d DEF SaveFails, IInv, Rows, Saving
<1>4. RecordedAsMeasured'
  BY <1>c
<1>5. Agreement'
  BY DEF SaveFails, Agreement
<1>6. Accounts'
  BY <1>c, <1>d DEF SaveFails, IInv, Accounts
<1>7. EndAccountsForAll'
  BY DEF SaveFails, EndAccountsForAll
<1> QED
  BY <1>a, <1>1, <1>2, <1>3, <1>4, <1>5, <1>6, <1>7, TypePartsPrimed DEF IInv, SimIInv

\* An exception leaves the loop.
LEMMA EscapeKeeps ==
  ASSUME IInv, Escape
  PROVE  IInv'
<1>a. /\ SimIInv' /\ \A j \in Kernels : Sound(j)' = Sound(j) /\ Running(j)' = Running(j)
      /\ \A j \in Kernels : Values(j)' = Values(j) /\ proc'[j] = proc[j]
  <2>1. faults' \in 0 .. MaxFaults
    BY Bounds DEF Escape, Fault, IInv, TypeOK, SimTypeOK
  <2> QED
    BY <2>1, MainLeavesSim DEF Escape, simVars
<1>b. SimTypeOK /\ FilesTyped /\ MainTyped /\ future \in [Kernels -> Futures]
  BY TypeParts DEF IInv
<1>c. /\ FilesTyped' /\ RecordedAsMeasured'
      /\ \A k \in Pending : summary'[k] = <<>>
  BY CutAppendIs DEF Escape
<1>d. Pending' = Pending
  BY DEF Escape, Pending, In
<1>1. FilesTyped' /\ MainTyped' /\ future' \in [Kernels -> Futures]
  BY <1>b, <1>c DEF Escape, MainTyped, MainPoints
<1>2. Owners'
  BY <1>a DEF Escape, IInv, Owners
<1>3. Rows'
  BY <1>a, <1>c, <1>d DEF Escape, IInv, Rows, Saving
<1>4. RecordedAsMeasured'
  BY <1>c
<1>5. Agreement' /\ Accounts' /\ EndAccountsForAll'
  BY DEF Escape, Agreement, Accounts, EndAccountsForAll
<1> QED
  BY <1>a, <1>1, <1>2, <1>3, <1>4, <1>5, TypePartsPrimed DEF IInv, SimIInv

\* The sweep is killed: none of its simulators is its own any more.
LEMMA KillKeeps ==
  ASSUME IInv, Kill
  PROVE  IInv'
<1>a. SimIInv /\ SimTypeOK /\ FilesTyped /\ MainTyped
  BY TypeParts DEF IInv, SimIInv
<1>b. faults' \in 0 .. MaxFaults
  BY <1>a, Bounds DEF Kill, Fault, SimTypeOK
<1>c. fw' \in [Kernels -> FwPoints] /\ \A k \in Kernels : fw'[k] = "off"
  BY DEF Kill, FwPoints
<1>d. \A k \in Kernels : future'[k] = "none"
  BY DEF Kill
<1>1. SimIInv' /\ \A k \in Kernels : ~Running(k)'
  <2> DEFINE P == {k \in Kernels : Running(k)}
  <2>1. P \in SUBSET Kernels /\ \A k \in P : Running(k)
    OBVIOUS
  <2>2. proc' = [k \in Kernels |-> IF k \in P THEN "failed" ELSE proc[k]]
    BY DEF Kill
  <2>3. \A k \in Kernels : fw'[k] = IF k \in P THEN "off" ELSE fw[k]
    BY <1>a, <1>c DEF SimIInv, Simulations, Placed
  <2>4. \A k \in Kernels : ~Running(k)'
    BY <2>2 DEF Running
  <2> QED
    <3> HIDE DEF P
    <3> QED
      BY <1>a, <1>b, <1>c, <2>1, <2>2, <2>3, <2>4, KilledKeeps DEF Kill
<1>2. FilesTyped' /\ MainTyped' /\ future' \in [Kernels -> Futures]
  BY <1>a DEF Kill, FilesTyped, MainTyped, files, MainPoints, Futures
<1>3. Owners'
  BY <1>1, <1>d DEF Owners, AllDone, In
<1>4. Rows'
  BY DEF Kill, Rows, Pending, In, Saving
<1>5. RecordedAsMeasured'
  <2>1. \A k \in Kernels : Running(k) => summary[k] = <<>>
    BY DEF IInv, Owners, Rows, Pending, In
  <2> QED
    BY <2>1 DEF Kill, IInv, RecordedAsMeasured, Costs, files, Running
<1>6. Agreement' /\ Accounts' /\ EndAccountsForAll'
  BY DEF Kill, Agreement, Accounts, EndAccountsForAll
<1> QED
  BY <1>1, <1>2, <1>3, <1>4, <1>5, <1>6, TypePartsPrimed DEF IInv, SimIInv

-----------------------------------------------------------------------------
(* Initial state and steps *)

LEMMA InitIInv == Init => IInv
<1> SUFFICES ASSUME Init PROVE IInv
  OBVIOUS
<1>1. SimTypeOK
  BY Bounds DEF Init, SimInit, SimTypeOK, FwPoints
<1>2. FilesTyped /\ MainTyped /\ future \in [Kernels -> Futures]
  BY Bounds DEF Init, FilesTyped, MainTyped, MainPoints, Futures
<1>3. Simulations
  BY DEF Init, SimInit, Simulations, Placed, Running, Window
<1>4. Owners /\ Rows
  BY DEF Init, SimInit, Owners, Rows, AllDone, In, Running, Saving, Pending
<1>5. RecordedAsMeasured /\ Agreement /\ Accounts /\ EndAccountsForAll
  BY DEF Init, RecordedAsMeasured, Agreement, Recorded, Accounts, EndAccountsForAll
<1> QED
  BY <1>1, <1>2, <1>3, <1>4, <1>5, TypeParts DEF IInv

\* Nothing happens.
LEMMA StutterKeeps ==
  ASSUME IInv, UNCHANGED vars
  PROVE  IInv'
<1>1. SimIInv'
  <2>1. faults' \in 0 .. MaxFaults
    BY DEF IInv, TypeOK, SimTypeOK, vars
  <2> QED
    BY <2>1, MainLeavesSim DEF vars, simVars
<1>2. FilesTyped' /\ MainTyped' /\ future' \in [Kernels -> Futures]
  BY TypeParts DEF IInv, FilesTyped, MainTyped, vars, files, mainVars
<1>3. Owners'
  BY DEF IInv, Owners, AllDone, In, Running, vars, simVars, mainVars
<1>4. Rows'
  BY DEF IInv, Rows, Sound, Values, Saving, Pending, In, vars, simVars, files, mainVars
<1>5. RecordedAsMeasured' /\ Agreement' /\ Accounts' /\ EndAccountsForAll'
  BY DEF IInv, RecordedAsMeasured, Agreement, Recorded, Sampled, Accounts, Finished, InHand,
     Pending, In, EndAccountsForAll, Costs, vars, simVars, files, mainVars
<1> QED
  BY <1>1, <1>2, <1>3, <1>4, <1>5, TypePartsPrimed DEF IInv, SimIInv

\* Every step keeps the invariant.
LEMMA NextKeeps ==
  ASSUME IInv, [Next]_vars
  PROVE  IInv'
<1>1. CASE MainThread
  BY <1>1, StartKeeps, TakeResultKeeps, TakeErrorKeeps, SaveSummaryKeeps, SaveRepetitionsKeeps,
     LogErrorKeeps, LeaveDrainedKeeps, LeavePoolKeeps, WriteSteadyKeeps, WriteManifestKeeps
     DEF MainThread
<1>2. CASE SaveFails \/ Escape \/ Kill
  BY <1>2, SaveFailsKeeps, EscapeKeeps, KillKeeps
<1>3. CASE \E k \in Kernels : Progress(k) \/ Mishap(k)
  BY <1>3, WorkerKeeps
<1>4. CASE UNCHANGED vars
  BY <1>4, StutterKeeps
<1> QED
  BY <1>1, <1>2, <1>3, <1>4 DEF Next
-----------------------------------------------------------------------------
(* Theorems *)

\* The invariant holds of every reachable state.
THEOREM Invariance == Spec => []IInv
BY InitIInv, NextKeeps, PTL DEF Spec

\* Every variable of the simulations and of the sweep keeps its type; the counts
\* stay within the number of kernels.
THEOREM TypeCorrect == Spec => []TypeOK
<1>1. IInv => TypeOK
  BY DEF IInv
<1> QED
  BY <1>1, Invariance, PTL

\* However simulations end and however often the sweep is resumed, a kernel has at
\* most one row and one group of samples, and they are what its repetitions cost,
\* unless a simulator left by a killed sweep has written into its files
\* (run_m4_sweep.py, run_one and save_result).
THEOREM RowsAreMeasured == Spec => []RecordedAsMeasured
<1>1. IInv => RecordedAsMeasured
  BY DEF IInv
<1> QED
  BY <1>1, Invariance, PTL

\* Without a failed write or an interruption both files, and in the end the
\* steady-state summary, name the same kernels (run_m4_sweep.py, write_steady).
THEOREM FilesAgree == Spec => []SamplesFollowSummary
<1>1. IInv => SamplesFollowSummary
  BY DEF IInv, Agreement, SamplesFollowSummary, RecordedAsMeasured, Recorded, Sampled
<1> QED
  BY <1>1, Invariance, PTL

\* Exit status 0 means that every kernel has its row, and a run that gets through
\* its loop has accounted for all (run_m4_sweep.py, main).
THEOREM NothingIsForgotten == Spec => []EndAccountsForAll
<1>1. IInv => EndAccountsForAll
  BY DEF IInv
<1> QED
  BY <1>1, Invariance, PTL

\* A sweep that has ended, also by an exception or an interrupt, has none of its
\* simulators running (run_m4_sweep.py, the pool and the time-out of run_one); one
\* that was killed may leave them.
THEOREM NoOrphans == Spec => []NoSimulatorLeftBehind
<1>1. IInv => NoSimulatorLeftBehind
  BY DEF IInv, Owners, AllDone, In, NoSimulatorLeftBehind
<1> QED
  BY <1>1, Invariance, PTL
-----------------------------------------------------------------------------
(* The sweep keeps the promise of ResumableSweep.                           *)

\* A step the operator does not see, or sees as a fault.
LEMMA Unseen ==
  ASSUME Due' = Due, Recorded' = Recorded, Sampled' = Sampled, Open' = Open,
         GaveUp' = GaveUp, Outcome' = Outcome, faults' = faults \/ Fault
  PROVE  [Promise!Next]_(Promise!sweepVars)
BY DEF Promise!Next, Promise!Mishap, Promise!sweepVars, Fault

\* What a step leaves alone is seen as before.
LEMMA SameParts ==
  /\ summary' = summary => Recorded' = Recorded
  /\ repetitions' = repetitions => Sampled' = Sampled
  /\ failures' = failures => GaveUp' = GaveUp
  /\ future' = future => Pending' = Pending
BY DEF Recorded, Sampled, GaveUp, Pending, In

\* What is due, by where the main thread is.
LEMMA DueIs ==
  /\ Saving => Due = Pending \cup {cur} /\ Outcome = "running"
  /\ main \in {"collect", "write_steady", "write_manifest"} => Due = Pending /\ Outcome = "running"
  /\ main \in {"down", "drain", "exit"} => Due = {} /\ Outcome # "running"
  /\ Saving' => Due' = Pending' \cup {cur'} /\ Outcome' = "running"
  /\ main' \in {"collect", "write_steady", "write_manifest"} =>
       Due' = Pending' /\ Outcome' = "running"
  /\ main' \in {"down", "drain", "exit"} => Due' = {} /\ Outcome' # "running"
BY DEF Due, InLoop, InHand, Outcome, Saving, Pending

\* The kernel in the hands of the main thread is due.
LEMMA InHandIsDue ==
  ASSUME IInv, Saving
  PROVE  cur \in Kernels /\ cur \in Due /\ cur \notin Pending /\ Due = Pending \cup {cur}
<1>1. cur \in Kernels /\ future[cur] = "handled"
  BY DEF IInv, Rows
<1> QED
  BY <1>1, DueIs DEF Pending, In

LEMMA StartRefines ==
  ASSUME IInv, Start
  PROVE  Promise!Begin(Kernels)
<1>1. Recorded' = Recorded /\ Sampled' = Sampled /\ GaveUp' = FALSE /\ Open' = {}
      /\ faults' = faults
  BY SameParts DEF Start, files, GaveUp, Open
<1>2. Pending' = Kernels \ Recorded
  BY DEF Start, Pending, In, Completed, Recorded
<1>3. Outcome # "running" /\ Outcome' = "running" /\ Due' = Kernels \ Recorded
  BY <1>2, DueIs DEF Start
<1> QED
  BY <1>1, <1>3 DEF Promise!Begin

\* Rows appended for the kernel in hand.
LEMMA RowAppended ==
  ASSUME IInv, main \in {"save_summary", "save_repetitions"}
  PROVE  /\ summary' = AddRows(summary) => Recorded' = Recorded \cup {cur}
         /\ repetitions' = AddRows(repetitions) => Sampled' = Sampled \cup {cur}
<1>0. cur \in Kernels /\ Values(cur) \in Seq(Nat)
  BY DEF IInv, Rows, Saving, Sound
<1>1. summary \in [Kernels -> Seq(Seq(Nat))] /\ repetitions \in [Kernels -> Seq(Seq(Nat))]
  BY DEF IInv, TypeOK
<1>2. ASSUME NEW file \in [Kernels -> Seq(Seq(Nat))]
      PROVE  \A k \in Kernels : AddRows(file)[k] # <<>> <=> file[k] # <<>> \/ k = cur
  <2>1. AddRows(file)[cur] = Append(file[cur], Values(cur))
    BY <1>0 DEF AddRows
  <2>2. Append(file[cur], Values(cur)) # <<>>
    <3> DEFINE rows == file[cur]
               new == Values(cur)
    <3>1. rows \in Seq(Seq(Nat)) /\ new \in Seq(Nat)
      BY <1>0
    <3> HIDE DEF rows, new
    <3>2. Append(rows, new) # <<>>
      BY <3>1
    <3> QED
      BY <3>2 DEF rows, new
  <2>3. \A k \in Kernels \ {cur} : AddRows(file)[k] = file[k]
    BY DEF AddRows
  <2> QED
    BY <2>1, <2>2, <2>3
<1>3. \A k \in Kernels : AddRows(summary)[k] # <<>> <=> summary[k] # <<>> \/ k = cur
  BY <1>1, <1>2
<1>4. \A k \in Kernels : AddRows(repetitions)[k] # <<>> <=> repetitions[k] # <<>> \/ k = cur
  BY <1>1, <1>2
<1> QED
  BY <1>0, <1>3, <1>4 DEF Recorded, Sampled

LEMMA SaveSummaryRefines ==
  ASSUME IInv, SaveSummary
  PROVE  Promise!Row(cur)
<1>1. Saving /\ Saving' /\ cur' = cur /\ faults' = faults /\ Open = {} /\ Open' = {cur}
  BY DEF SaveSummary, Move, Saving, Open
<1>2. cur \in Due /\ Due' = Due /\ Outcome' = Outcome /\ Sampled' = Sampled /\ GaveUp' = GaveUp
  BY <1>1, InHandIsDue, DueIs, SameParts DEF SaveSummary
<1>3. Recorded' = Recorded \cup {cur}
  BY RowAppended DEF SaveSummary, Move
<1> QED
  BY <1>1, <1>2, <1>3 DEF Promise!Row

LEMMA SaveRepetitionsRefines ==
  ASSUME IInv, SaveRepetitions
  PROVE  Promise!Samples(cur)
<1>1. Saving /\ main' = "collect" /\ faults' = faults /\ Open = {cur} /\ Open' = {}
  BY DEF SaveRepetitions, Move, Saving, Open
<1>2. Pending' = Pending /\ Recorded' = Recorded /\ GaveUp' = GaveUp
  BY SameParts DEF SaveRepetitions
<1>3. Due' = Due \ {cur} /\ Outcome' = Outcome
  BY <1>1, <1>2, InHandIsDue, DueIs
<1>4. Sampled' = Sampled \cup {cur}
  BY RowAppended DEF SaveRepetitions, Move
<1> QED
  BY <1>1, <1>2, <1>3, <1>4 DEF Promise!Samples

LEMMA LogErrorRefines ==
  ASSUME IInv, LogError
  PROVE  Promise!GiveUp(cur)
<1>1. Saving /\ main' = "collect" /\ faults' = faults /\ Open = {} /\ Open' = {} /\ GaveUp' = TRUE
  BY DEF LogError, Move, Saving, Open, GaveUp
<1>2. Pending' = Pending /\ Recorded' = Recorded /\ Sampled' = Sampled
  BY SameParts DEF LogError
<1>3. cur \in Due /\ Due' = Due \ {cur} /\ Outcome' = Outcome
  BY <1>1, <1>2, InHandIsDue, DueIs
<1> QED
  BY <1>1, <1>2, <1>3 DEF Promise!GiveUp

\* The rows of an append that is cut off are there or not.
LEMMA CutAppendRefines ==
  ASSUME IInv, CutAppend
  PROVE  Promise!CutWrite
<1>1. CASE UNCHANGED <<summary, repetitions>>
  BY <1>1, SameParts DEF Promise!CutWrite
<1>2. CASE main = "save_summary" /\ summary' = AddRows(summary) /\ UNCHANGED repetitions
  <2>1. Saving /\ Open = {}
    BY <1>2 DEF Saving, Open
  <2>2. cur \in Due /\ Recorded' = Recorded \cup {cur} /\ Sampled' = Sampled
    BY <1>2, <2>1, InHandIsDue, RowAppended, SameParts
  <2> QED
    BY <2>1, <2>2 DEF Promise!CutWrite
<1>3. CASE main = "save_repetitions" /\ repetitions' = AddRows(repetitions) /\ UNCHANGED summary
  <2>1. Saving /\ Open = {cur}
    BY <1>3 DEF Saving, Open
  <2>2. Sampled' = Sampled \cup Open /\ Recorded' = Recorded
    BY <1>3, <2>1, InHandIsDue, RowAppended, SameParts
  <2> QED
    BY <2>2 DEF Promise!CutWrite
<1> QED
  BY <1>1, <1>2, <1>3 DEF CutAppend

LEMMA SaveFailsRefines ==
  ASSUME IInv, SaveFails
  PROVE  Promise!FailedWrite
<1>1. Saving /\ Saving' /\ cur' = cur /\ faults' = faults + 1 /\ Open' = {} /\ Promise!CutWrite
  BY CutAppendRefines DEF SaveFails, Fault, Saving, Open
<1>2. Due' = Due /\ Outcome' = Outcome /\ GaveUp' = GaveUp
  BY <1>1, DueIs, SameParts DEF SaveFails
<1> QED
  BY <1>1, <1>2 DEF Promise!FailedWrite

LEMMA EscapeRefines ==
  ASSUME IInv, Escape
  PROVE  Promise!Stop
<1>1. main' = "drain" /\ faults' = faults + 1 /\ Open' = {} /\ Promise!CutWrite
  BY CutAppendRefines DEF Escape, Fault, Open
<1>2. Due' = {} /\ Outcome' = "idle" /\ GaveUp' = GaveUp
  BY DueIs, SameParts DEF Escape, Outcome
<1> QED
  BY <1>1, <1>2 DEF Promise!Stop

\* A kill cuts no append off: it falls between two steps.
LEMMA KillRefines ==
  ASSUME IInv, Kill
  PROVE  Promise!Stop
<1>1. main' = "down" /\ faults' = faults + 1 /\ Open' = {}
  BY DEF Kill, Fault, Open
<1>2. Recorded' = Recorded /\ Sampled' = Sampled /\ GaveUp' = GaveUp
  BY SameParts DEF Kill, files
<1>3. Due' = {} /\ Outcome' = "idle"
  BY <1>1, DueIs DEF Outcome, InLoop
<1> QED
  BY <1>1, <1>2, <1>3 DEF Promise!Stop, Promise!CutWrite

LEMMA WriteManifestRefines ==
  ASSUME IInv, WriteManifest
  PROVE  Promise!Finish
<1>1. main = "write_manifest" /\ main' = "exit" /\ faults' = faults /\ Open = {} /\ Open' = {}
  BY DEF WriteManifest, Move, Open
<1>2. Recorded' = Recorded /\ Sampled' = Sampled /\ GaveUp' = GaveUp
  BY SameParts DEF WriteManifest
<1>3. Outcome = "running" /\ Due' = {} /\ Due = {}
  <2>1. Pending = {}
    BY <1>1 DEF IInv, Owners, AllDone, In, Pending
  <2> QED
    BY <1>1, <2>1, DueIs
<1>4. Outcome' = IF GaveUp THEN "idle" ELSE "done"
  BY <1>1 DEF WriteManifest, Status, GaveUp, Outcome, InLoop
<1> QED
  BY <1>1, <1>2, <1>3, <1>4 DEF Promise!Finish

\* The main thread takes a finished future, or leaves the loop: what is due stays
\* due.
LEMMA QuietRefines ==
  ASSUME IInv, (\E k \in Kernels : TakeResult(k) \/ TakeError(k)) \/ LeavePool \/ WriteSteady
               \/ LeaveDrained
  PROVE  [Promise!Next]_(Promise!sweepVars)
<1>1. /\ Recorded' = Recorded /\ Sampled' = Sampled /\ GaveUp' = GaveUp /\ faults' = faults
      /\ Open' = Open
  BY SameParts DEF TakeResult, TakeError, LeavePool, WriteSteady, LeaveDrained, Move, files, Open
<1>2. ASSUME NEW k \in Kernels, TakeResult(k) \/ TakeError(k)
      PROVE  Due' = Due /\ Outcome' = Outcome
  <2>1. main = "collect" /\ Saving' /\ cur' = k
    BY <1>2 DEF TakeResult, TakeError, Move, Saving
  <2>2. future \in [Kernels -> Futures]
    BY DEF IInv, TypeOK
  <2>3. k \in Pending /\ Pending' = Pending \ {k}
    BY <1>2, <2>2 DEF TakeResult, TakeError, Become, Pending, In
  <2> QED
    BY <2>1, <2>3, DueIs
<1>3. CASE LeavePool \/ WriteSteady
  <2>1. main \in {"collect", "write_steady"} /\ main' \in {"write_steady", "write_manifest"}
        /\ future' = future
    BY <1>3 DEF LeavePool, WriteSteady, Move
  <2> QED
    BY <1>1, <2>1, DueIs, SameParts, Unseen
<1>4. CASE LeaveDrained
  <2>1. main = "drain" /\ main' = "exit" /\ exitCode' = 1
    BY <1>4 DEF LeaveDrained, Move
  <2>2. Outcome = "idle" /\ Outcome' = "idle" /\ Due = {} /\ Due' = {}
    BY <2>1, DueIs DEF Outcome, InLoop
  <2> QED
    BY <1>1, <2>2, Unseen
<1> QED
  BY <1>1, <1>2, <1>3, <1>4, Unseen

\* Workers and simulators move a kernel only within what is due.
LEMMA WorkerRefines ==
  ASSUME IInv, NEW k \in Kernels, Progress(k) \/ Mishap(k)
  PROVE  [Promise!Next]_(Promise!sweepVars)
<1>1. UNCHANGED <<files, mainVars>>
  BY DEF Progress, Mishap, TakeTask, RunOneEnds, TimeoutExpired, TooSlow, Rejected, Overwrite
<1>2. faults' = faults \/ Fault
  <2>1. Firmware(k) => faults' = faults
    BY DEF Firmware, Warmup, WorkBegin, MeasuredCall, WorkEnd, LoopOrReturn, WriteMarker, M5Exit
  <2>2. TakeTask(k) \/ RunOneEnds(k) \/ TimeoutExpired(k) => faults' = faults
    BY DEF TakeTask, Launch, RunOneEnds, TimeoutExpired
  <2>3. Mishap(k) => Fault
    BY DEF Mishap, TooSlow, Rejected, Overwrite, OtherExit, Abort, Hang
  <2> QED
    BY <2>1, <2>2, <2>3 DEF Progress
<1>3. Pending' = Pending
  <2>1. future \in [Kernels -> Futures]
    BY DEF IInv, TypeOK
  <2>2. \/ future' = future
        \/ \E to \in {"running", "result", "error"} :
             future[k] \in {"queued", "running"} /\ future' = [future EXCEPT ![k] = to]
    BY DEF Progress, Mishap, TakeTask, RunOneEnds, TimeoutExpired, TooSlow, Rejected, Overwrite, Become
  <2> QED
    BY <2>1, <2>2 DEF Pending, In
<1>4. Recorded' = Recorded /\ Sampled' = Sampled /\ GaveUp' = GaveUp
  BY <1>1, SameParts DEF files, mainVars
<1>5. Due' = Due /\ Open' = Open /\ Outcome' = Outcome
  BY <1>1, <1>3 DEF mainVars, Due, InLoop, InHand, Open, Outcome, Pending
<1> QED
  BY <1>2, <1>4, <1>5, Unseen

LEMMA StepRefines ==
  ASSUME IInv, [Next]_vars
  PROVE  [Promise!Next]_(Promise!sweepVars)
<1>1. CASE Start
  <2>1. Kernels \in SUBSET Kernels
    OBVIOUS
  <2> QED
    BY <1>1, <2>1, StartRefines DEF Promise!Next
<1>2. CASE SaveSummary \/ SaveRepetitions \/ LogError
  <2>1. cur \in Kernels
    BY <1>2, InHandIsDue DEF SaveSummary, SaveRepetitions, LogError, Move, Saving
  <2> QED
    BY <1>2, <2>1, SaveSummaryRefines, SaveRepetitionsRefines, LogErrorRefines DEF Promise!Next
<1>3. CASE WriteManifest \/ SaveFails \/ Escape \/ Kill
  BY <1>3, WriteManifestRefines, SaveFailsRefines, EscapeRefines, KillRefines DEF Promise!Next
<1>4. CASE \/ \E k \in Kernels : TakeResult(k) \/ TakeError(k)
           \/ LeavePool \/ WriteSteady \/ LeaveDrained
  BY <1>4, QuietRefines
<1>5. CASE \E k \in Kernels : Progress(k) \/ Mishap(k)
  BY <1>5, WorkerRefines
<1>6. CASE UNCHANGED vars
  BY <1>6 DEF vars, files, mainVars, Due, InLoop, InHand, Recorded, Sampled, Open, GaveUp,
              Outcome, In, Promise!sweepVars
<1> QED
  BY <1>1, <1>2, <1>3, <1>4, <1>5, <1>6 DEF Next, MainThread

LEMMA InitRefines == Init => Promise!Init
<1> SUFFICES ASSUME Init PROVE Promise!Init
  OBVIOUS
<1>1. Recorded = {} /\ Sampled = {} /\ Due = {} /\ Open = {} /\ Outcome = "idle"
  BY DEF Init, Recorded, Sampled, Due, InLoop, Open, Outcome
<1>2. GaveUp = FALSE /\ faults = 0
  BY DEF Init, SimInit, GaveUp
<1> QED
  BY <1>1, <1>2 DEF Promise!Init

\* For any number of kernels, workers and faults, what run_m4_sweep.py does is what
\* a resumable sweep promises.
THEOREM Implementation == Spec => ImplementsSweep
<1>1. IInv /\ [Next]_vars => [Promise!Next]_(Promise!sweepVars)
  BY StepRefines
<1> QED
  BY <1>1, InitRefines, Invariance, PTL DEF Spec, ImplementsSweep, Promise!SafeSpec

-----------------------------------------------------------------------------
(* What the promise is worth: no fault costs more than one kernel's samples. *)

LEMMA AtMostOneMore ==
  ASSUME NEW A, NEW B, NEW x, IsFiniteSet(A), B \subseteq A \cup {x}
  PROVE  Cardinality(B) \in Nat /\ Cardinality(B) <= Cardinality(A) + 1
<1>1. /\ IsFiniteSet(A \cup {x}) /\ Cardinality(A) \in Nat
      /\ Cardinality(A \cup {x}) \in {Cardinality(A), Cardinality(A) + 1}
  BY FS_AddElement, FS_CardinalityType
<1>2. Cardinality(B) <= Cardinality(A \cup {x}) /\ Cardinality(B) \in Nat
  BY <1>1, FS_Subset, FS_CardinalityType
<1> QED
  BY <1>1, <1>2

LEMMA OneCardinality == \A S : Promise!Cardinality(S) = Cardinality(S)
BY DEF Promise!Cardinality, Cardinality, Promise!IsFiniteSet, IsFiniteSet

\* The kernels with a row but without samples, and what a step does to them.
Losses == (Recorded \ Sampled) \ Open

LEMMA LossesFinite ==
  /\ IsFiniteSet(Losses) /\ Cardinality(Losses) \in Nat
  /\ \A B \in SUBSET Losses : Cardinality(B) <= Cardinality(Losses) /\ Cardinality(B) \in Nat
<1>1. Losses \in SUBSET Kernels
  BY DEF Losses, Recorded
<1> QED
  BY <1>1, FiniteKernels, FS_Subset, FS_CardinalityType

LEMMA LossCount ==
  /\ Promise!LossesAreFaults <=> Cardinality(Losses) <= faults
  /\ Promise!LossesAreFaults' <=> Cardinality(Losses') <= faults'
BY OneCardinality DEF Promise!LossesAreFaults, Losses

\* A write that is cut off adds at most one kernel to them.
LEMMA CutWriteLoses ==
  ASSUME Promise!SweepInv, Promise!CutWrite, Open' = {}
  PROVE  Cardinality(Losses') \in Nat /\ Cardinality(Losses') <= Cardinality(Losses) + 1
<1>1. PICK x : Losses' \subseteq Losses \cup {x}
  <2>1. CASE Open = {} /\ \E k \in Due : Recorded' = Recorded \cup {k} /\ Sampled' = Sampled
    BY <2>1 DEF Losses
  <2>2. CASE /\ Recorded' = Recorded
             /\ Sampled' = Sampled \/ Sampled' = Sampled \cup Open
    BY <2>2 DEF Losses, Promise!SweepInv
  <2> QED
    BY <2>1, <2>2 DEF Promise!CutWrite
<1> QED
  BY <1>1, LossesFinite, AtMostOneMore

LEMMA PromiseStart == Promise!Init => Promise!SweepInv
<1> SUFFICES ASSUME Promise!Init PROVE Promise!SweepInv
  OBVIOUS
<1>1. Cardinality(Losses) <= faults
  BY FS_EmptySet DEF Promise!Init, Losses
<1> QED
  BY <1>1, LossCount DEF Promise!Init, Promise!SweepInv, Promise!DoneMeansRecorded

LEMMA PromiseStep ==
  ASSUME Promise!SweepInv, [Promise!Next]_(Promise!sweepVars)
  PROVE  Promise!SweepInv'
<1> USE DEF Promise!SweepInv, Promise!DoneMeansRecorded
<1>0. Cardinality(Losses) <= faults /\ Cardinality(Losses) \in Nat
  BY LossesFinite, LossCount
<1>1. ASSUME Losses' \subseteq Losses, faults' \in {faults, faults + 1}
      PROVE  Promise!LossesAreFaults'
  BY <1>0, <1>1, LossesFinite, LossCount
<1>2. ASSUME NEW sel \in SUBSET Kernels, Promise!Begin(sel) PROVE Promise!SweepInv'
  <2>1. Open = {} /\ Losses' = Losses
    BY <1>2 DEF Promise!Begin, Losses
  <2> QED
    BY <1>1, <1>2, <2>1 DEF Promise!Begin
<1>3. ASSUME NEW k \in Kernels, Promise!Row(k) PROVE Promise!SweepInv'
  <2>1. Losses' \subseteq Losses
    BY <1>3 DEF Promise!Row, Losses
  <2>2. Outcome = "running" /\ k \in Due' /\ k \in Recorded'
    BY <1>3 DEF Promise!Row
  <2> QED
    BY <1>1, <1>3, <2>1, <2>2 DEF Promise!Row
<1>4. ASSUME NEW k \in Kernels, Promise!Samples(k) PROVE Promise!SweepInv'
  <2>1. Losses' \subseteq Losses
    BY <1>4 DEF Promise!Samples, Losses
  <2> QED
    BY <1>1, <1>4, <2>1 DEF Promise!Samples
<1>5. ASSUME NEW k \in Kernels, Promise!GiveUp(k) PROVE Promise!SweepInv'
  <2>1. Losses' = Losses
    BY <1>5 DEF Promise!GiveUp, Losses
  <2> QED
    BY <1>1, <1>5, <2>1 DEF Promise!GiveUp
<1>6. CASE Promise!Finish
  <2>1. Losses' = Losses
    BY <1>6 DEF Promise!Finish, Losses
  <2> QED
    BY <1>1, <1>6, <2>1 DEF Promise!Finish
<1>7. CASE Promise!Mishap \/ UNCHANGED Promise!sweepVars
  <2>1. Losses' = Losses
    BY <1>7 DEF Promise!Mishap, Promise!sweepVars, Losses
  <2> QED
    BY <1>1, <1>7, <2>1 DEF Promise!Mishap, Promise!sweepVars
<1>8. CASE Promise!FailedWrite \/ Promise!Stop
  <2>1. Promise!CutWrite /\ Open' = {} /\ faults' = faults + 1
    BY <1>8 DEF Promise!FailedWrite, Promise!Stop
  <2>2. Cardinality(Losses') \in Nat /\ Cardinality(Losses') <= Cardinality(Losses) + 1
    BY <2>1, CutWriteLoses
  <2>3. Promise!LossesAreFaults'
    BY <1>0, <2>1, <2>2, LossCount
  <2>4. Recorded \subseteq Recorded' /\ Recorded' \subseteq Kernels
    BY <2>1 DEF Promise!CutWrite
  <2>5. CASE Promise!FailedWrite
    BY <2>1, <2>3, <2>4, <2>5 DEF Promise!FailedWrite
  <2>6. CASE Promise!Stop
    BY <2>1, <2>3, <2>4, <2>6 DEF Promise!Stop
  <2> QED
    BY <1>8, <2>5, <2>6
<1> QED
  BY <1>2, <1>3, <1>4, <1>5, <1>6, <1>7, <1>8 DEF Promise!Next

\* Over all runs, failed appends, kills and resumptions no more kernels have a row without
\* their samples than faults have happened.
THEOREM EachLossIsAFault == Spec => []Promise!LossesAreFaults
<1>1. Promise!SweepInv => Promise!LossesAreFaults
  BY DEF Promise!SweepInv
<1> QED
  BY <1>1, PromiseStart, PromiseStep, Implementation, PTL DEF ImplementsSweep, Promise!SafeSpec
=============================================================================
