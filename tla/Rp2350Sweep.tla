------------------------------ MODULE Rp2350Sweep ------------------------------
(***************************************************************************)
(* The resumable physical sweep, microbenchmark/rp2350/run_all_benchmarks  *)
(* .py: one process that builds, flashes, captures and records one kernel  *)
(* after the other, the files of its output directory, the board it talks  *)
(* to, and the operator who restarts it with the same directory.           *)
(*                                                                         *)
(* A CSV file is the number of rows (summary.csv) or of complete groups of *)
(* rows (repetitions.csv) it holds per kernel; file contents, time stamps  *)
(* and console output are left out.  A killed process is Crash.            *)
(***************************************************************************)
EXTENDS Integers, FiniteSets

CONSTANTS
  NumKernels,     \* kernels 1..NumKernels, numbered as discover_kernels sorts
  Retries,        \* --retries
  MaxFaults       \* bound: faults of build, board, disk and process together

ASSUME SweepAssumption ==
  /\ NumKernels \in Nat \ {0}
  /\ Retries \in Nat
  /\ MaxFaults \in Nat

Kernels == 1 .. NumKernels
Attempts == 1 .. (Retries + 1)

VARIABLES
  \* the output directory and the build directory
  summary,        \* summary.csv: rows per kernel
  repetitions,    \* repetitions.csv: groups of repetition rows per kernel
  errors,         \* errors.csv: the <<kernel, attempt>> pairs it names
  log,            \* logs/<category>/<kernel>.log: "none", "capture" or "errors"
  manifest,       \* completed_kernel_count and failed_kernel_count
  linkProof,      \* the build directory holds a single-core proof
  \* the process
  pc,
  selected, alreadyDone, pending, cur, attempt,
  failures, completedThisRun,
  deviceLost,
  errorMessages,  \* error_messages of the current kernel is not empty
  error,          \* the exception being handled: "lost" or "other"
  report,         \* what the captured header and repetitions say
  exitCode,
  \* the surroundings
  plugged,
  faults,
  \* history
  saveFailed      \* some append of save_success has raised

files == <<summary, repetitions, errors, log, manifest, linkProof>>
counters == <<failures, completedThisRun>>
plan == <<selected, alreadyDone>>
surroundings == <<plugged, faults>>
vars == <<files, pc, plan, pending, cur, attempt, counters, deviceLost, errorMessages,
          error, report, exitCode, surroundings, saveFailed>>

Recorded == {k \in Kernels : summary[k] > 0}

\* The reports firmware can send, by the check that tells them apart.
Reports == {"good", "wrong_core", "not_single_core", "gap"}

\* A fault is spent where the surroundings misbehave.
Fault == faults < MaxFaults /\ faults' = faults + 1

Goto(from, to) == pc = from /\ pc' = to
-----------------------------------------------------------------------------
Init ==
  /\ summary = [k \in Kernels |-> 0]
  /\ repetitions = [k \in Kernels |-> 0]
  /\ errors = {}
  /\ log = [k \in Kernels |-> "none"]
  /\ manifest = [completed |-> 0, failed |-> 0]
  /\ linkProof \in BOOLEAN          \* left by an earlier sweep, or a clean tree
  /\ pc = "down"
  /\ selected = {} /\ alreadyDone = {} /\ pending = {} /\ cur = 0 /\ attempt = 0
  /\ failures = 0 /\ completedThisRun = 0
  /\ deviceLost = FALSE /\ errorMessages = FALSE
  /\ error = "none" /\ report = "none"
  /\ exitCode = 0
  /\ plugged \in BOOLEAN
  /\ faults = 0
  /\ saveFailed = FALSE

\* Resumption that skips what has its repetitions, that skips nothing, and that
\* skips whatever has been attempted.
Unrepeated(sel) == {k \in sel : repetitions[k] = 0}
EverySelected(sel) == sel
Unattempted(sel) == {k \in sel \ Recorded : \A a \in Attempts : <<k, a>> \notin errors}

\* completed_benchmarks and the pending list: what summary.csv does not name.
NotYetRecorded(sel) == sel \ Recorded

\* The command line up to the loop: the selection, then the pending list.
Start(sel) ==
  /\ pc \in {"down", "exit"}
  /\ pc' = "next"
  /\ selected' = sel
  /\ alreadyDone' = Recorded
  /\ pending' = NotYetRecorded(sel)
  /\ cur' = 0 /\ attempt' = 0
  /\ failures' = 0 /\ completedThisRun' = 0
  /\ deviceLost' = FALSE /\ errorMessages' = FALSE
  /\ error' = "none" /\ report' = "none"
  /\ exitCode' = 0
  /\ UNCHANGED <<files, surroundings, saveFailed>>

\* for index, kernel in enumerate(pending, 1): in order, first attempt.
NextKernel ==
  /\ Goto("next", "build")
  /\ cur' \in pending
  /\ \A k \in pending : cur' <= k
  /\ pending' = pending \ {cur'}
  /\ attempt' = 1
  /\ errorMessages' = FALSE
  /\ UNCHANGED <<files, plan, counters, deviceLost, error, report, exitCode,
                 surroundings, saveFailed>>

NoKernelLeft ==
  /\ Goto("next", "final_manifest")
  /\ pending = {}
  /\ UNCHANGED <<files, plan, pending, cur, attempt, counters, deviceLost,
                 errorMessages, error, report, exitCode, surroundings, saveFailed>>

Raise(kind) ==
  /\ pc' = "except"
  /\ error' = kind
  /\ UNCHANGED <<plan, pending, cur, attempt, counters, deviceLost, errorMessages,
                 report, exitCode, plugged>>

Continue(to) ==
  /\ pc' = to
  /\ UNCHANGED <<plan, pending, cur, attempt, counters, deviceLost, errorMessages,
                 error, exitCode, surroundings>>

\* configure_and_build.
Build ==
  /\ pc = "build"
  /\ \/ Continue("flash") /\ linkProof' = TRUE
     \/ Raise("other") /\ Fault /\ UNCHANGED linkProof
  /\ UNCHANGED <<summary, repetitions, errors, log, manifest, report, saveFailed>>

\* flash_uf2: without a board picotool names no accessible device.
Flash ==
  /\ pc = "flash"
  /\ \/ plugged /\ Continue("capture")
     \/ ~plugged /\ Raise("lost") /\ UNCHANGED faults
     \/ plugged /\ Raise("other") /\ Fault
  /\ UNCHANGED <<files, report, saveFailed>>

\* capture_available_port: the complete output of the firmware, a time-out, or
\* a port that stayed unusable until the deadline.
Capture ==
  /\ pc = "capture"
  /\ \/ plugged /\ Continue("check") /\ report' = "good"
     \/ /\ plugged /\ Fault /\ report' \in Reports \ {"good"}
        /\ pc' = "check"
        /\ UNCHANGED <<plan, pending, cur, attempt, counters, deviceLost,
                       errorMessages, error, exitCode, plugged>>
     \/ ~plugged /\ UNCHANGED <<faults, report>> /\ \E e \in {"lost", "other"} : Raise(e)
     \/ plugged /\ Fault /\ UNCHANGED report /\ \E e \in {"lost", "other"} : Raise(e)
  /\ UNCHANGED <<files, saveFailed>>

\* The core, single-core and contiguity checks; log_path.write_text.
CheckReport ==
  /\ pc = "check"
  /\ \/ /\ report = "good"
        /\ Continue("save_summary")
        /\ log' = [log EXCEPT ![cur] = "capture"]
     \/ /\ report # "good"
        /\ Raise("other")
        /\ UNCHANGED <<log, faults>>
  /\ UNCHANGED <<summary, repetitions, errors, manifest, linkProof, report, saveFailed>>
-----------------------------------------------------------------------------
(* append_csv: the rows are on disk when it returns; when the write, the    *)
(* flush or the fsync raises they may be there or not.                      *)

AddRow(file) == [file EXCEPT ![cur] = @ + 1]

\* An exception of the first append that nobody sees.
SaveSummaryQuietly ==
  /\ pc = "save_summary"
  /\ Continue("save_reps")
  /\ summary' \in {summary, AddRow(summary)}
  /\ UNCHANGED <<repetitions, errors, log, manifest, linkProof, report, saveFailed>>

SaveSummary ==
  /\ pc = "save_summary"
  /\ \/ Continue("save_reps") /\ summary' = AddRow(summary) /\ UNCHANGED saveFailed
     \/ /\ Raise("other") /\ Fault /\ saveFailed' = TRUE
        /\ summary' \in {summary, AddRow(summary)}
  /\ UNCHANGED <<repetitions, errors, log, manifest, linkProof, report>>

\* A success that does not clear device_lost.
StillLost == deviceLost

DeviceAfterSuccess == FALSE

\* The second append, then completed_this_run += 1; device_lost = False; break.
SaveReps ==
  /\ pc = "save_reps"
  /\ \/ /\ pc' = "manifest"
        /\ repetitions' = AddRow(repetitions)
        /\ completedThisRun' = completedThisRun + 1
        /\ deviceLost' = DeviceAfterSuccess
        /\ UNCHANGED <<plan, pending, cur, attempt, failures, errorMessages, error,
                       exitCode, surroundings, saveFailed>>
     \/ /\ Raise("other") /\ Fault /\ saveFailed' = TRUE
        /\ repetitions' \in {repetitions, AddRow(repetitions)}
  /\ UNCHANGED <<summary, errors, log, manifest, linkProof, report>>

\* range(1, retries + 1)
OneAttemptLess == attempt < Retries

\* for attempt in range(1, retries + 2)
AttemptsRemain == attempt <= Retries

\* except Exception: remember a lost device, append to errors.csv.
HandleError ==
  /\ pc = "except"
  /\ deviceLost' = (deviceLost \/ error = "lost")
  /\ errorMessages' = TRUE
  /\ errors' = errors \cup {<<cur, attempt>>}
  /\ error' = "none"
  /\ IF AttemptsRemain
     THEN pc' = "build" /\ attempt' = attempt + 1
     ELSE pc' = "exhausted" /\ UNCHANGED attempt
  /\ UNCHANGED <<summary, repetitions, log, manifest, linkProof, plan, pending, cur,
                 counters, report, exitCode, surroundings, saveFailed>>

\* for ... else: every attempt failed.
Exhausted ==
  /\ Goto("exhausted", "manifest")
  /\ failures' = failures + 1
  /\ log' = [log EXCEPT ![cur] = "errors"]
  /\ UNCHANGED <<summary, repetitions, errors, manifest, linkProof, plan, pending, cur,
                 attempt, completedThisRun, deviceLost, errorMessages, error, report,
                 exitCode, surroundings, saveFailed>>

\* The rows of the file next to the successes of this run, counted twice.
CountsTwice == [completed |-> Cardinality(Recorded) + completedThisRun, failed |-> failures]

\* The successes of this run only.
CountsThisRun == [completed |-> completedThisRun, failed |-> failures]

Counts == [completed |-> Cardinality(alreadyDone) + completedThisRun, failed |-> failures]

\* A loop that goes on without a board.
NeverStop == FALSE

\* if device_lost and error_messages: break
StopsHere == deviceLost /\ errorMessages

WriteManifest ==
  /\ pc = "manifest"
  /\ manifest' = Counts
  /\ pc' = IF StopsHere THEN "final_manifest" ELSE "next"
  /\ UNCHANGED <<summary, repetitions, errors, log, linkProof, plan, pending, cur,
                 attempt, counters, deviceLost, errorMessages, error, report, exitCode,
                 surroundings, saveFailed>>

\* The final manifest; write_steady_state_summary only rewrites a derived file.
FinalManifest ==
  /\ Goto("final_manifest", "evidence")
  /\ manifest' = Counts
  /\ UNCHANGED <<summary, repetitions, errors, log, linkProof, plan, pending, cur,
                 attempt, counters, deviceLost, errorMessages, error, report, exitCode,
                 surroundings, saveFailed>>

\* return 1 if failures else 0; a missing link proof ends in an exception.
ExitStatus == IF failures > 0 \/ ~linkProof THEN 1 ELSE 0

\* write_single_core_evidence and the return from main.
Exit ==
  /\ Goto("evidence", "exit")
  /\ exitCode' = ExitStatus
  /\ UNCHANGED <<files, plan, pending, cur, attempt, counters, deviceLost,
                 errorMessages, error, report, surroundings, saveFailed>>
-----------------------------------------------------------------------------
Running == pc \notin {"down", "exit"}

\* Killed, interrupted, or an append to errors.csv that raises: the files stay.
Crash ==
  /\ Running
  /\ Fault
  /\ pc' = "down"
  /\ UNCHANGED <<files, plan, pending, cur, attempt, counters, deviceLost,
                 errorMessages, error, report, exitCode, plugged, saveFailed>>

Unplug ==
  /\ plugged /\ Fault /\ plugged' = FALSE
  /\ UNCHANGED <<files, pc, plan, pending, cur, attempt, counters, deviceLost,
                 errorMessages, error, report, exitCode, saveFailed>>

Plug ==
  /\ ~plugged /\ plugged' = TRUE
  /\ UNCHANGED <<files, pc, plan, pending, cur, attempt, counters, deviceLost,
                 errorMessages, error, report, exitCode, faults, saveFailed>>

Process ==
  \/ NextKernel \/ NoKernelLeft
  \/ Build \/ Flash \/ Capture \/ CheckReport \/ SaveSummary \/ SaveReps
  \/ HandleError \/ Exhausted \/ WriteManifest \/ FinalManifest \/ Exit

Next ==
  \/ Process
  \/ \E sel \in SUBSET Kernels : Start(sel)
  \/ Crash \/ Unplug \/ Plug

\* The process runs, an unplugged board is plugged in again, and the operator
\* keeps resuming the full sweep with the same directory.
Spec ==
  /\ Init /\ [][Next]_vars
  /\ WF_vars(Process) /\ WF_vars(Plug) /\ SF_vars(Start(Kernels))

\* The sweep as its operator sees it.
Busy == pc \in {"build", "flash", "capture", "check", "save_summary", "save_reps",
                "except", "exhausted"}
Current == IF Busy THEN {cur} ELSE {}
Due == IF Running THEN pending \cup Current ELSE {}
Sampled == {k \in Kernels : repetitions[k] > 0}
Open == IF pc = "save_reps" THEN {cur} ELSE {}
GaveUp == failures > 0
Outcome == IF Running THEN "running" ELSE IF pc = "exit" /\ exitCode = 0 THEN "done" ELSE "idle"

Promise == INSTANCE ResumableSweep WITH
  asked <- selected, due <- Due, recorded <- Recorded, sampled <- Sampled,
  open <- Open, gaveUp <- GaveUp, phase <- Outcome
-----------------------------------------------------------------------------
(* Properties                                                              *)

TypeOK ==
  /\ summary \in [Kernels -> Nat] /\ repetitions \in [Kernels -> Nat]
  /\ errors \subseteq Kernels \X Attempts
  /\ log \in [Kernels -> {"none", "capture", "errors"}]
  /\ manifest \in [completed : 0 .. NumKernels, failed : 0 .. NumKernels]
  /\ linkProof \in BOOLEAN
  /\ pc \in {"down", "next", "build", "flash", "capture", "check", "save_summary",
             "save_reps", "except", "exhausted", "manifest", "final_manifest",
             "evidence", "exit"}
  /\ selected \subseteq Kernels /\ alreadyDone \subseteq Kernels
  /\ pending \subseteq Kernels /\ cur \in Kernels \cup {0}
  /\ attempt \in Attempts \cup {0}
  /\ failures \in 0 .. NumKernels /\ completedThisRun \in 0 .. NumKernels
  /\ deviceLost \in BOOLEAN /\ errorMessages \in BOOLEAN
  /\ error \in {"none", "lost", "other"} /\ report \in Reports \cup {"none"}
  /\ exitCode \in {0, 1}
  /\ plugged \in BOOLEAN /\ faults \in 0 .. MaxFaults
  /\ saveFailed \in BOOLEAN

\* A sweep that ends with status 0 has a row for every selected kernel: neither
\* the early stop for a lost board nor the skipping of a resumed run can leave
\* one out behind a success.
ExitZeroMeansRecorded ==
  pc = "exit" /\ exitCode = 0 => selected \subseteq Recorded

\* Retries, the early stop for a lost board, kills and resumptions keep the promise
\* of a resumable sweep: what is due leaves the list recorded or given up, success
\* means that all is recorded, and a fault spoils the samples of one kernel at most.
ImplementsSweep == Promise!SafeSpec

\* repetitions.csv never holds samples summary.csv does not summarise, whatever
\* append fails and wherever the process is killed: resumption asks summary.csv
\* alone.
RepetitionsAreSummarised ==
  \A k \in Kernels : repetitions[k] <= summary[k]

\* Over all runs, restarts and retries a kernel gets one row, unless an append
\* raised and left its row behind.
OneRowPerKernel ==
  ~saveFailed => \A k \in Kernels : summary[k] <= 1

\* A recorded kernel keeps the log of its capture: no later run replaces the
\* serial output the single-core evidence is read from by error messages.
RecordedKernelsKeepTheirLog ==
  ~saveFailed => \A k \in Recorded : log[k] = "capture"

\* A kernel given up has every one of its attempts in errors.csv.
FailureIsExplained ==
  \A k \in Kernels : log[k] = "errors" => \A a \in Attempts : <<k, a>> \in errors

\* The manifest never counts a kernel that has no row, although it adds the rows
\* found at the start to the successes since; at the end of a run the two agree,
\* unless an append raised.
ManifestMatchesSummary ==
  /\ manifest.completed <= Cardinality(Recorded)
  /\ pc = "exit" /\ ~saveFailed => manifest.completed = Cardinality(Recorded)

\* No kernel is begun while the board is known to be lost.
StopsWhenDisconnected ==
  [][cur' \in Kernels /\ pc = "next" /\ pc' = "build" => ~deviceLost]_vars

\* Resumed often enough, with faults that end, the sweep records every kernel.
EventuallyRecorded == <>[](Recorded = Kernels)

\* README.md: repetitions.csv has all raw samples per kernel, summary.csv one row
\* per kernel; the script's header: the sweep is crash-safe.
RepetitionsForEveryRow ==
  pc = "exit" /\ exitCode = 0 /\ ~saveFailed =>
    \A k \in selected : repetitions[k] > 0
=============================================================================
