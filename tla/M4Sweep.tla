------------------------------- MODULE M4Sweep -------------------------------
(***************************************************************************)
(* The resumable gem5 sweep, microbenchmark/scripts/run_m4_sweep.py: a     *)
(* thread pool whose workers each run one simulation (Gem5Run), the main   *)
(* thread, which alone writes the files, the files of the output           *)
(* directory, and the operator who restarts the sweep on it.               *)
(*                                                                         *)
(* A CSV file is what it holds per kernel; time stamps, digests and the    *)
(* evidence file are left out.                                             *)
(***************************************************************************)
EXTENDS Gem5Run

CONSTANTS
  Jobs,           \* --jobs
  Leftover        \* what windows can hold into which two simulators have written

ASSUME M4SweepAssumption == Jobs \in Nat \ {0} /\ Leftover \subseteq Nat

VARIABLES
  summary,        \* summary.csv: the rows of each kernel, by what they summarise
  repetitions,    \* repetitions.csv: the groups of rows of each kernel
  errors,         \* errors.csv: the kernels it names
  steady,         \* steady_state_summary.csv: the kernels it names
  manifest,       \* completed_kernel_count and failed_kernel_count
  future,         \* the future of each kernel
  main,           \* where the main thread is
  cur,            \* the kernel it is saving
  failures, count, exitCode,
  undisturbed,    \* history: no append has failed and nothing was interrupted
  left            \* kernels with a simulator that a killed sweep has left behind

files == <<summary, repetitions, errors, steady, manifest>>
mainVars == <<main, cur, failures, count, exitCode>>
vars == <<simVars, faults, files, future, mainVars, undisturbed, left>>

Futures == {"none", "queued", "running", "result", "error", "handled"}
MainPoints == {"down", "collect", "save_summary", "save_repetitions", "log_error",
               "drain", "write_steady", "write_manifest", "exit"}

Recorded == {k \in Kernels : summary[k] # <<>>}
Sampled == {k \in Kernels : repetitions[k] # <<>>}
In(states) == {k \in Kernels : future[k] \in states}

Become(k, from, to) ==
  /\ future[k] = from
  /\ future' = [future EXCEPT ![k] = to]

Move(from, to) == main = from /\ main' = to
-----------------------------------------------------------------------------
Init ==
  /\ SimInit
  /\ summary = [k \in Kernels |-> <<>>]
  /\ repetitions = [k \in Kernels |-> <<>>]
  /\ errors = {} /\ steady = {}
  /\ manifest = [completed |-> 0, failed |-> 0]
  /\ future = [k \in Kernels |-> "none"]
  /\ main = "down"
  /\ cur = 0
  /\ failures = {} /\ count = 0 /\ exitCode = 0
  /\ undisturbed = TRUE
  /\ left = {}

\* Resumption that skips what has been tried.
Tried == Recorded \cup errors

\* completed(): the benchmarks named in summary.csv.
Completed == Recorded

\* main() up to the pool: every kernel not completed is submitted.
Start ==
  /\ main \in {"down", "exit"}
  /\ main' = "collect"
  /\ future' = [k \in Kernels |-> IF k \in Completed THEN "none" ELSE "queued"]
  /\ cur' = 0
  /\ failures' = {} /\ count' = Cardinality(Completed) /\ exitCode' = 0
  /\ UNCHANGED <<simVars, faults, files, undisturbed, left>>
-----------------------------------------------------------------------------
(* The workers.                                                            *)

\* A free worker takes the oldest queued task and starts its simulation.
TakeTask(k) ==
  /\ Cardinality(In({"running"})) < Jobs
  /\ \A j \in In({"queued"}) : k <= j
  /\ Become(k, "queued", "running")
  /\ Launch(k)
  /\ UNCHANGED <<files, mainVars, undisturbed, left>>

\* run_one returns its result, or raises.
RunOneEnds(k) ==
  /\ proc[k] \in {"ended", "mixed", "failed"}
  /\ Become(k, "running", IF Accepted(k) THEN "result" ELSE "error")
  /\ UNCHANGED <<simVars, faults, files, mainVars, undisturbed, left>>

\* subprocess.run's time-out kills the simulator and raises.
TimeoutExpired(k) ==
  /\ fw[k] = "hung"
  /\ proc' = [proc EXCEPT ![k] = "failed"]
  /\ fw' = [fw EXCEPT ![k] = "off"]
  /\ Become(k, "running", "error")
  /\ UNCHANGED <<r5, calls, since, simout, windows, faults, files, mainVars, undisturbed, left>>

\* The time-out of a simulation that was merely slow.
TooSlow(k) ==
  /\ Running(k) /\ fw[k] # "hung" /\ Fault
  /\ proc' = [proc EXCEPT ![k] = "failed"]
  /\ fw' = [fw EXCEPT ![k] = "off"]
  /\ Become(k, "running", "error")
  /\ UNCHANGED <<r5, calls, since, simout, windows, files, mainVars, undisturbed, left>>

\* run_one raises over a simulation that is in order: validate_single_core, a
\* window without numCycles, a file it cannot read or write.
Rejected(k) ==
  /\ proc[k] \in {"ended", "mixed"} /\ Fault
  /\ Become(k, "running", "error")
  /\ UNCHANGED <<simVars, files, mainVars, undisturbed, left>>

\* simout.txt of a whole run.
WholeOutput ==
  [n \in 1 .. (2 * InnerReps) |-> IF n % 2 = 1 THEN "ROI BEGIN" ELSE "ROI END"]
    \o <<"MICROBENCH", "m5_exit">>

\* A simulator left behind by a killed sweep was still writing into the same run
\* directory; what run_one finds there passes its checks (otherwise it is Rejected).
Overwrite(k) ==
  /\ k \in left /\ Fault
  /\ future[k] = "running" /\ proc[k] = "ended"
  /\ proc' = [proc EXCEPT ![k] = "mixed"]
  /\ simout' = [simout EXCEPT ![k] = WholeOutput]
  /\ \E w \in [1 .. InnerReps + 1 -> Leftover] : windows' = [windows EXCEPT ![k] = w]
  /\ UNCHANGED <<fw, r5, calls, since, files, future, mainVars, undisturbed, left>>

Progress(k) ==
  \/ TakeTask(k)
  \/ RunOneEnds(k)
  \/ TimeoutExpired(k)
  \/ Firmware(k) /\ UNCHANGED <<files, future, mainVars, undisturbed, left>>

Mishap(k) ==
  \/ TooSlow(k) \/ Rejected(k) \/ Overwrite(k)
  \/ (OtherExit(k) \/ Abort(k) \/ Hang(k))
       /\ UNCHANGED <<files, future, mainVars, undisturbed, left>>
-----------------------------------------------------------------------------
(* The main thread.                                                        *)

\* as_completed: the finished futures in any order.
TakeResult(k) ==
  /\ Move("collect", "save_summary")
  /\ Become(k, "result", "handled")
  /\ cur' = k
  /\ UNCHANGED <<simVars, faults, files, failures, count, exitCode, undisturbed, left>>

TakeError(k) ==
  /\ Move("collect", "log_error")
  /\ Become(k, "error", "handled")
  /\ cur' = k
  /\ UNCHANGED <<simVars, faults, files, failures, count, exitCode, undisturbed, left>>

AddRows(file) == [file EXCEPT ![cur] = Append(@, Values(cur))]

\* save_result: summary.csv first, then repetitions.csv.
SaveSummary ==
  /\ Move("save_summary", "save_repetitions")
  /\ summary' = AddRows(summary)
  /\ UNCHANGED <<simVars, faults, repetitions, errors, steady, manifest, future, cur,
                 failures, count, exitCode, undisturbed, left>>

SaveRepetitions ==
  /\ Move("save_repetitions", "collect")
  /\ repetitions' = AddRows(repetitions)
  /\ count' = count + 1
  /\ UNCHANGED <<simVars, faults, summary, errors, steady, manifest, future, cur,
                 failures, exitCode, undisturbed, left>>

\* append_rows raises: its rows may be there or not, as close writes what flush
\* could not.
CutAppend ==
  /\ \/ UNCHANGED <<summary, repetitions>>
     \/ main = "save_summary" /\ summary' = AddRows(summary) /\ UNCHANGED repetitions
     \/ main = "save_repetitions" /\ repetitions' = AddRows(repetitions) /\ UNCHANGED summary
  /\ UNCHANGED <<errors, steady, manifest>>

\* The kernel is treated as one that failed.
SaveFails ==
  /\ main \in {"save_summary", "save_repetitions"} /\ Fault
  /\ main' = "log_error"
  /\ CutAppend
  /\ undisturbed' = FALSE
  /\ UNCHANGED <<simVars, future, cur, failures, count, exitCode, left>>

LogError ==
  /\ Move("log_error", "collect")
  /\ failures' = failures \cup {cur}
  /\ errors' = errors \cup {cur}
  /\ UNCHANGED <<simVars, faults, summary, repetitions, steady, manifest, future, cur,
                 count, exitCode, undisturbed, left>>

\* The append to errors.csv raises out of the loop, or the main thread gets a
\* KeyboardInterrupt: the pool is left without cancelling what is queued.
Escape ==
  /\ main \in {"collect", "save_summary", "save_repetitions", "log_error"} /\ Fault
  /\ main' = "drain"
  /\ CutAppend
  /\ undisturbed' = FALSE
  /\ UNCHANGED <<simVars, future, cur, failures, count, exitCode, left>>

\* A pool left without waiting for its workers.
NoWait == TRUE

\* pool.__exit__: shutdown(wait=True).
AllDone == In({"queued", "running"}) = {}

\* The exception leaves main; results not saved by now are dropped.
LeaveDrained ==
  /\ Move("drain", "exit")
  /\ AllDone
  /\ exitCode' = 1
  /\ UNCHANGED <<simVars, faults, files, future, cur, failures, count, undisturbed, left>>

LeavePool ==
  /\ Move("collect", "write_steady")
  /\ AllDone /\ In({"result", "error"}) = {}
  /\ UNCHANGED <<simVars, faults, files, future, cur, failures, count, exitCode,
                 undisturbed, left>>

\* A steady-state summary of what this run has saved.
SteadyOfThisRun ==
  /\ Move("write_steady", "write_manifest")
  /\ steady' = Sampled \cap In({"handled"})
  /\ UNCHANGED <<simVars, faults, summary, repetitions, errors, manifest, future, cur,
                 failures, count, exitCode, undisturbed, left>>

\* write_steady: one row per benchmark in repetitions.csv.
WriteSteady ==
  /\ Move("write_steady", "write_manifest")
  /\ steady' = Sampled
  /\ UNCHANGED <<simVars, faults, summary, repetitions, errors, manifest, future, cur,
                 failures, count, exitCode, undisturbed, left>>

\* The number of failures as exit status, and a status that looks at the rows.
NumberOfFailures == Cardinality(failures)
StatusOfCount == IF count > 0 THEN 0 ELSE 1

\* return 1 if failures else 0
Status == IF failures # {} THEN 1 ELSE 0

WriteManifest ==
  /\ Move("write_manifest", "exit")
  /\ manifest' = [completed |-> count, failed |-> Cardinality(failures)]
  /\ exitCode' = Status
  /\ UNCHANGED <<simVars, faults, summary, repetitions, errors, steady, future, cur,
                 failures, count, undisturbed, left>>

\* Only the sweep is killed: nothing ends its simulators with it.
Kill ==
  /\ main \notin {"down", "exit"} /\ Fault
  /\ main' = "down"
  /\ left' = left \cup {k \in Kernels : Running(k)}
  /\ proc' = [k \in Kernels |-> IF Running(k) THEN "failed" ELSE proc[k]]
  /\ fw' = [k \in Kernels |-> "off"]
  /\ future' = [k \in Kernels |-> "none"]
  /\ undisturbed' = FALSE
  /\ UNCHANGED <<r5, calls, since, simout, windows, files, cur, failures, count, exitCode>>

MainThread ==
  \/ Start
  \/ \E k \in Kernels : TakeResult(k) \/ TakeError(k)
  \/ SaveSummary \/ SaveRepetitions \/ LogError
  \/ LeaveDrained \/ LeavePool \/ WriteSteady \/ WriteManifest

Next ==
  \/ MainThread
  \/ SaveFails \/ Escape \/ Kill
  \/ \E k \in Kernels : Progress(k) \/ Mishap(k)

\* Threads and simulators run, time-outs expire, and the operator starts the
\* sweep again.
Fairness ==
  /\ WF_vars(MainThread)
  /\ \A k \in Kernels : WF_vars(Progress(k))

Spec == Init /\ [][Next]_vars /\ Fairness

\* The sweep as its operator sees it.
InLoop == main \notin {"down", "drain", "exit"}
InHand == IF main \in {"save_summary", "save_repetitions", "log_error"} THEN {cur} ELSE {}
Due == IF InLoop THEN In({"queued", "running", "result", "error"}) \cup InHand ELSE {}
Open == IF main = "save_repetitions" THEN {cur} ELSE {}
GaveUp == failures # {}
Outcome == IF InLoop THEN "running" ELSE IF main = "exit" /\ exitCode = 0 THEN "done" ELSE "idle"

Promise == INSTANCE ResumableSweep WITH
  asked <- Kernels, due <- Due, recorded <- Recorded, sampled <- Sampled,
  open <- Open, gaveUp <- GaveUp, phase <- Outcome
-----------------------------------------------------------------------------
TypeOK ==
  /\ SimTypeOK
  /\ summary \in [Kernels -> Seq(Seq(Nat))]
  /\ repetitions \in [Kernels -> Seq(Seq(Nat))]
  /\ errors \subseteq Kernels
  /\ steady \subseteq Kernels
  /\ manifest \in [completed : 0 .. NumKernels, failed : 0 .. NumKernels]
  /\ future \in [Kernels -> Futures]
  /\ main \in MainPoints
  /\ cur \in 0 .. NumKernels
  /\ failures \subseteq Kernels
  /\ count \in 0 .. NumKernels
  /\ exitCode \in 0 .. 1
  /\ undisturbed \in BOOLEAN
  /\ left \subseteq Kernels

\* However simulations end, time out or are interrupted, and however often the
\* sweep is resumed, a kernel has at most one row and one group of samples, both of
\* the same values, and they are what each of its repetitions costs: no window of a
\* simulation cut short, no exit window, no sample without its summary row.  Only
\* the files of a kernel whose run directory it had to share with a simulator left
\* by a killed sweep can pass the checks of run_one with other values.
RecordedAsMeasured ==
  \A k \in Kernels :
    /\ Len(summary[k]) <= 1
    /\ repetitions[k] \in {<<>>, summary[k]}
    /\ proc[k] # "mixed" => summary[k] \in {<<>>, <<Costs(k)>>}

\* A kernel loses its samples only when a write failed or the sweep was stopped
\* between its two appends; otherwise both files and, when a run has ended, the
\* steady-state summary name the same kernels.
SamplesFollowSummary ==
  undisturbed =>
    /\ Recorded \ Sampled \subseteq {cur}
    /\ main # "save_repetitions" => Recorded = Sampled
    /\ main = "exit" => steady = Recorded

\* A run that gets through its loop has accounted for every kernel, completed or
\* failed with an entry in errors.csv; exit status 0 means that summary.csv has
\* them all, also after runs that were interrupted or could not write.
EndAccountsForAll ==
  /\ main = "write_manifest" =>
       count + Cardinality(failures) = NumKernels /\ failures \subseteq errors
  /\ main = "exit" /\ exitCode = 0 =>
       Recorded = Kernels /\ manifest = [completed |-> NumKernels, failed |-> 0]

\* A sweep that ends, also by an exception or an interrupt, leaves no simulator
\* running: only after a kill can a resumed sweep share a run directory.
NoSimulatorLeftBehind ==
  main = "exit" => \A k \in Kernels : ~Running(k)

\* The pool of workers, the order in which results arrive and the handling of
\* exceptions keep the promise of a resumable sweep: what is due leaves the list
\* recorded or given up, success means that all is recorded, and a fault spoils
\* the samples of one kernel at most.
ImplementsSweep == Promise!SafeSpec

\* Faults that stop some time cannot keep a kernel from being recorded.
EventuallyRecorded == <>[](Recorded = Kernels)
=============================================================================
