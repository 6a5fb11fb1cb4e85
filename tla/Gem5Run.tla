------------------------------- MODULE Gem5Run -------------------------------
(***************************************************************************)
(* One gem5 simulation per kernel: the measuring program built for gem5    *)
(* (include/harness.h END_BENCH, include/m5ops_semi.h, src/main.c), which  *)
(* marks every repetition with a semihosting work-begin and work-end       *)
(* pseudo-op, the runner script that resets and dumps the statistics on    *)
(* them (isolation/timing_runner.py), the files the simulation leaves, and *)
(* the two readers of those files: run_one of scripts/run_m4_sweep.py and  *)
(* scripts/parse_results.py.                                               *)
(*                                                                         *)
(* gem5 is deterministic: the n-th call of a kernel always takes the same  *)
(* time.  Every group of wrapper instructions outside a window takes one   *)
(* cycle.  simout.txt is the sequence of its telling lines, stats.txt the  *)
(* sequence of system.cpu.numCycles of its complete windows.               *)
(***************************************************************************)
EXTENDS Integers, Sequences, FiniteSets

CONSTANTS
  NumKernels,     \* kernels 1..NumKernels, in the order they are submitted
  InnerReps,      \* INNER_REPS of the build and --reps of the sweep
  BodyCycles,     \* BodyCycles[k][n]: cycles of call n of kernel k, 0 the warm-up
  CallCycles,     \* cycles of bl, bx lr and the set-up of the closing bkpt
  MaxFaults       \* bound: faults of simulators, disk and process together

Kernels == 1 .. NumKernels

ASSUME Gem5Assumption ==
  /\ NumKernels \in Nat \ {0}
  /\ InnerReps \in Nat \ {0, 1}
  /\ BodyCycles \in [Kernels -> [0 .. InnerReps -> Nat]]
  /\ CallCycles \in Nat
  /\ MaxFaults \in Nat

VARIABLES
  proc,           \* the gem5 process: "none", "running", "ended", "failed", or
                  \* "mixed": ended, and another one has written into its files
  fw,             \* where the simulated program is
  r5,             \* repetitions left
  calls,          \* calls of kernel_body so far
  since,          \* cycles since the statistics were last reset
  simout,         \* simout.txt
  windows,        \* stats.txt
  faults

simVars == <<proc, fw, r5, calls, since, simout, windows>>

FwPoints == {"off", "warmup", "begin", "call", "end", "loop", "marker", "exit", "hung"}
Lines == {"ROI BEGIN", "ROI END", "MICROBENCH", "m5_exit", "other exit"}

Running(k) == proc[k] = "running"

Goto(k, from, to) ==
  /\ Running(k) /\ fw[k] = from
  /\ fw' = [fw EXCEPT ![k] = to]

\* A fault is spent where the surroundings misbehave.
Fault == faults < MaxFaults /\ faults' = faults + 1

Pass(k, n) == since' = [since EXCEPT ![k] = @ + n]
Say(k, line) == simout' = [simout EXCEPT ![k] = Append(@, line)]

\* stats_dump(): the window's numbers since the last reset; it resets nothing.
Dump(k) == windows' = [windows EXCEPT ![k] = Append(@, since[k])]

-----------------------------------------------------------------------------
SimInit ==
  /\ proc = [k \in Kernels |-> "none"]
  /\ fw = [k \in Kernels |-> "off"]
  /\ r5 = [k \in Kernels |-> 0]
  /\ calls = [k \in Kernels |-> 0]
  /\ since = [k \in Kernels |-> 0]
  /\ simout = [k \in Kernels |-> <<>>]
  /\ windows = [k \in Kernels |-> <<>>]
  /\ faults = 0

\* gem5 -re -d run_dir ...: simout.txt and stats.txt begin anew.
Launch(k) ==
  /\ proc' = [proc EXCEPT ![k] = "running"]
  /\ fw' = [fw EXCEPT ![k] = "warmup"]
  /\ r5' = [r5 EXCEPT ![k] = 0]
  /\ calls' = [calls EXCEPT ![k] = 0]
  /\ since' = [since EXCEPT ![k] = 0]
  /\ simout' = [simout EXCEPT ![k] = <<>>]
  /\ windows' = [windows EXCEPT ![k] = <<>>]
  /\ UNCHANGED faults

\* bl kernel_body; the kernel preserves r5, the one register kept across it.
KernelBody(k) ==
  /\ Pass(k, BodyCycles[k][calls[k]] + CallCycles)
  /\ calls' = [calls EXCEPT ![k] = @ + 1]

\* bl kernel_body, then movs r5, #INNER_REPS.
Warmup(k) ==
  /\ Goto(k, "warmup", "begin")
  /\ KernelBody(k)
  /\ r5' = [r5 EXCEPT ![k] = InnerReps]
  /\ UNCHANGED <<proc, simout, windows, faults>>

\* stats_reset()
Reset(k) == since' = [since EXCEPT ![k] = 0]

\* m5_work_begin: the simulation leaves simulate() with cause "workbegin".
WorkBegin(k) ==
  /\ Goto(k, "begin", "call")
  /\ Say(k, "ROI BEGIN")
  /\ Reset(k)
  /\ UNCHANGED <<proc, r5, calls, windows, faults>>

MeasuredCall(k) ==
  /\ Goto(k, "call", "end")
  /\ KernelBody(k)
  /\ UNCHANGED <<proc, r5, simout, windows, faults>>

\* m5_work_end: the runner dumps the window.
WorkEnd(k) ==
  /\ Goto(k, "end", "loop")
  /\ Say(k, "ROI END")
  /\ Dump(k)
  /\ UNCHANGED <<proc, r5, calls, since, faults>>

\* subs r5; bne 1b; otherwise back to main.
LoopOrReturn(k) ==
  /\ Goto(k, "loop", IF r5[k] - 1 # 0 THEN "begin" ELSE "marker")
  /\ r5' = [r5 EXCEPT ![k] = @ - 1]
  /\ Pass(k, 1)
  /\ UNCHANGED <<proc, calls, simout, windows, faults>>

\* semi_write0("MICROBENCH name=...").
WriteMarker(k) ==
  /\ Goto(k, "marker", "exit")
  /\ Say(k, "MICROBENCH")
  /\ Pass(k, 1)
  /\ UNCHANGED <<proc, r5, calls, windows, faults>>

\* gem5 itself writes one more window when its process ends.
ProcessEnds(k, line) ==
  /\ proc' = [proc EXCEPT ![k] = "ended"]
  /\ Say(k, line)
  /\ Dump(k)

\* semi_exit(0): m5_exit ends the runner's loop, so SYS_EXIT is not reached.
M5Exit(k) ==
  /\ Goto(k, "exit", "off")
  /\ ProcessEnds(k, "m5_exit")
  /\ UNCHANGED <<r5, calls, since, faults>>

\* The runner leaves its loop for another cause: the tick limit, another exit
\* event, an event it does not know, an interrupt.  gem5 still returns 0.
OtherExit(k) ==
  /\ Running(k) /\ Fault
  /\ fw' = [fw EXCEPT ![k] = "off"]
  /\ ProcessEnds(k, "other exit")
  /\ UNCHANGED <<r5, calls, since>>

\* gem5 aborts with a return code.
Abort(k) ==
  /\ Running(k) /\ Fault
  /\ proc' = [proc EXCEPT ![k] = "failed"]
  /\ fw' = [fw EXCEPT ![k] = "off"]
  /\ UNCHANGED <<r5, calls, since, simout, windows>>

\* The simulated program or the simulator stops making progress.
Hang(k) ==
  /\ Running(k) /\ fw[k] # "hung" /\ Fault
  /\ fw' = [fw EXCEPT ![k] = "hung"]
  /\ UNCHANGED <<proc, r5, calls, since, simout, windows>>

Firmware(k) ==
  \/ Warmup(k) \/ WorkBegin(k) \/ MeasuredCall(k) \/ WorkEnd(k)
  \/ LoopOrReturn(k) \/ WriteMarker(k) \/ M5Exit(k)

Simulate(k) == Firmware(k) \/ OtherExit(k) \/ Abort(k) \/ Hang(k)
-----------------------------------------------------------------------------
\* What the repetitions of a kernel really take.
Costs(k) == [n \in 1 .. InnerReps |-> BodyCycles[k][n] + CallCycles]

Count(k, line) == Cardinality({n \in DOMAIN simout[k] : simout[k][n] = line})

\* Checks that only look for enough windows.
EnoughWindows(k) == proc[k] = "ended" /\ Len(windows[k]) >= InnerReps

\* run_one's checks of the two files of a simulation that has ended.
Accepted(k) ==
  /\ proc[k] \in {"ended", "mixed"}
  /\ Count(k, "ROI BEGIN") = InnerReps
  /\ Count(k, "ROI END") = InnerReps
  /\ Count(k, "MICROBENCH") > 0
  /\ Count(k, "m5_exit") > 0
  /\ Len(windows[k]) = InnerReps + 1

\* run_one's values: the windows but for the one of the exit.
Values(k) == SubSeq(windows[k], 1, InnerReps)

SimTypeOK ==
  /\ proc \in [Kernels -> {"none", "running", "ended", "failed", "mixed"}]
  /\ fw \in [Kernels -> FwPoints]
  /\ r5 \in [Kernels -> 0 .. InnerReps]
  /\ calls \in [Kernels -> 0 .. InnerReps + 1]
  /\ since \in [Kernels -> Nat]
  /\ simout \in [Kernels -> Seq(Lines)]
  /\ windows \in [Kernels -> Seq(Nat)]
  /\ faults \in 0 .. MaxFaults
-----------------------------------------------------------------------------
(* A simulation started by hand and read with parse_results.py.            *)

LaunchOnce(k) == proc[k] = "none" /\ Launch(k)

RunNext == \E k \in Kernels : LaunchOnce(k) \/ Simulate(k)

RunSpec == SimInit /\ [][RunNext]_<<simVars, faults>>

Total(s) ==
  LET sum[n \in 0 .. Len(s)] == IF n = 0 THEN 0 ELSE sum[n - 1] + s[n]
  IN  sum[Len(s)]

\* round(sum(values) / len(values)): to the nearest, ties to the even integer.
RoundedMean(s) ==
  LET q == Total(s) \div Len(s)
      r == 2 * (Total(s) % Len(s))
  IN  IF r < Len(s) \/ (r = Len(s) /\ q % 2 = 0) THEN q ELSE q + 1

\* parse_gem5: the average over every window of stats.txt.
Headline(k) == RoundedMean(windows[k])

\* parse_results.py promises the average of one window per repetition, "carved
\* out by an m5_work_begin / m5_work_end pair" (its lines 15-18); the window
\* gem5 writes at exit is one more.
HeadlineIsMeanOfReps ==
  \A k \in Kernels :
    proc[k] = "ended" /\ Count(k, "m5_exit") > 0
      => Headline(k) = RoundedMean(Costs(k))
=============================================================================
