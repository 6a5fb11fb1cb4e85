--------------------------- MODULE Rp2350SweepProofs ---------------------------
(***************************************************************************)
(* Safety of the resumable RP2350 sweep for any number of kernels, retries *)
(* and faults.                                                             *)
(***************************************************************************)
EXTENDS Rp2350Sweep, FiniteSetTheorems, TLAPS

Ended == pc \in {"final_manifest", "evidence", "exit"}

\* Types, without the bounds that counting gives.
TypeInv ==
  /\ summary \in [Kernels -> Nat] /\ repetitions \in [Kernels -> Nat]
  /\ errors \subseteq Kernels \X Attempts
  /\ log \in [Kernels -> {"none", "capture", "errors"}]
  /\ manifest \in [completed : Nat, failed : Nat]
  /\ linkProof \in BOOLEAN
  /\ pc \in {"down", "next", "build", "flash", "capture", "check", "save_summary",
             "save_reps", "except", "exhausted", "manifest", "final_manifest",
             "evidence", "exit"}
  /\ selected \subseteq Kernels /\ alreadyDone \subseteq Kernels
  /\ pending \subseteq Kernels /\ cur \in Kernels \cup {0}
  /\ attempt \in Attempts \cup {0}
  /\ failures \in Nat /\ completedThisRun \in Nat
  /\ deviceLost \in BOOLEAN /\ errorMessages \in BOOLEAN
  /\ error \in {"none", "lost", "other"} /\ report \in Reports \cup {"none"}
  /\ exitCode \in {0, 1}
  /\ plugged \in BOOLEAN /\ faults \in 0 .. MaxFaults
  /\ saveFailed \in BOOLEAN
  /\ Busy => cur \in Kernels /\ attempt \in Attempts

\* What is left to do, and what has been done when nothing has been given up.
PlanInv ==
  /\ pending \subseteq selected \ alreadyDone
  /\ pending \cap Recorded = {}
  /\ alreadyDone \subseteq Recorded
  /\ Busy => cur \in selected \ alreadyDone /\ cur \notin pending
  /\ pc # "down" /\ failures = 0 => selected \ (pending \cup Current) \subseteq Recorded

\* A loop that has ended early has given a kernel up.
LossInv ==
  /\ pc = "next" => ~deviceLost
  /\ (Busy \/ pc = "manifest") /\ deviceLost => errorMessages
  /\ pc = "manifest" /\ deviceLost => failures > 0
  /\ Ended /\ failures = 0 => pending = {}
  /\ pc = "exit" => exitCode = ExitStatus

\* The two CSV files against each other and against the kernel being worked on.
RowsInv ==
  /\ RepetitionsAreSummarised
  /\ OneRowPerKernel
  /\ pc = "save_reps" => repetitions[cur] < summary[cur]
  /\ Busy /\ ~saveFailed /\ pc # "save_reps" => summary[cur] = 0

\* The logs against summary.csv and errors.csv.
LogInv ==
  /\ RecordedKernelsKeepTheirLog
  /\ FailureIsExplained
  /\ pc = "save_summary" => log[cur] = "capture"
  /\ Busy => \A a \in Attempts : a < attempt => <<cur, a>> \in errors
  /\ pc = "exhausted" => \A a \in Attempts : <<cur, a>> \in errors

DoneCount == Cardinality(alreadyDone) + completedThisRun

\* The counts of the process against the files.
CountInv ==
  /\ DoneCount <= Cardinality(Recorded \ Current)
  /\ pc # "down" /\ ~saveFailed => DoneCount = Cardinality(Recorded \ Current)
  /\ failures + completedThisRun + Cardinality(pending) + Cardinality(Current)
       <= Cardinality(selected \ alreadyDone)
  /\ manifest.completed <= Cardinality(Recorded)
  /\ manifest.failed <= NumKernels
  /\ pc \in {"evidence", "exit"} => manifest.completed = DoneCount

IInv == TypeInv /\ PlanInv /\ LossInv /\ RowsInv /\ LogInv /\ CountInv
-----------------------------------------------------------------------------
(* Types.                                                                   *)

LEMMA ConstantsTyped ==
  /\ Kernels \subseteq Nat \ {0} /\ Attempts \subseteq Nat \ {0} /\ 1 \in Attempts
  /\ Retries \in Nat /\ MaxFaults \in Nat
BY SweepAssumption DEF Kernels, Attempts

LEMMA KernelsFinite ==
  /\ IsFiniteSet(Kernels) /\ Cardinality(Kernels) = NumKernels
  /\ \A S \in SUBSET Kernels :
       IsFiniteSet(S) /\ Cardinality(S) \in Nat /\ Cardinality(S) <= NumKernels
<1>1. IsFiniteSet(Kernels) /\ Cardinality(Kernels) = NumKernels
  BY SweepAssumption, FS_Interval DEF Kernels
<1> QED
  BY <1>1, FS_Subset, FS_CardinalityType

LEMMA AddRowTyped ==
  ASSUME NEW file \in [Kernels -> Nat], cur \in Kernels
  PROVE  /\ AddRow(file) \in [Kernels -> Nat]
         /\ \A k \in Kernels : AddRow(file)[k] = IF k = cur THEN file[k] + 1 ELSE file[k]
BY DEF AddRow

LEMMA TypeStep ==
  ASSUME TypeInv, [Next]_vars
  PROVE  TypeInv'
<1> USE ConstantsTyped DEF TypeInv, Busy, Goto, Continue, Raise, Fault, Reports,
      files, plan, counters, surroundings
<1>count. ASSUME alreadyDone \subseteq Kernels, completedThisRun \in Nat, failures \in Nat
          PROVE  Counts \in [completed : Nat, failed : Nat]
  BY <1>count, KernelsFinite DEF Counts
<1>fault. Fault => faults' \in 0 .. MaxFaults
  OBVIOUS
<1>1. CASE NextKernel
  BY <1>1 DEF NextKernel
<1>2. CASE NoKernelLeft
  BY <1>2 DEF NoKernelLeft
<1>3. CASE Build
  <2>1. CASE Continue("flash") /\ linkProof' = TRUE
    BY <1>3, <2>1 DEF Build
  <2>2. CASE Raise("other") /\ Fault /\ UNCHANGED linkProof
    BY <1>3, <2>2, <1>fault DEF Build
  <2> QED
    BY <1>3, <2>1, <2>2 DEF Build
<1>4. CASE Flash
  <2>1. CASE Continue("capture")
    BY <1>4, <2>1 DEF Flash
  <2>2. CASE Raise("lost") /\ UNCHANGED faults
    BY <1>4, <2>2 DEF Flash
  <2>3. CASE Raise("other") /\ Fault
    BY <1>4, <2>3, <1>fault DEF Flash
  <2> QED
    BY <1>4, <2>1, <2>2, <2>3 DEF Flash
<1>5. CASE Capture
  <2>1. CASE Continue("check") /\ report' = "good"
    BY <1>5, <2>1 DEF Capture
  <2>2. CASE pc' = "check"
    BY <1>5, <2>2, <1>fault DEF Capture
  <2>3. CASE UNCHANGED <<faults, report>> /\ \E e \in {"lost", "other"} : Raise(e)
    BY <1>5, <2>3 DEF Capture
  <2>4. CASE Fault /\ UNCHANGED report /\ \E e \in {"lost", "other"} : Raise(e)
    BY <1>5, <2>4, <1>fault DEF Capture
  <2> QED
    BY <1>5, <2>1, <2>2, <2>3, <2>4 DEF Capture
<1>6. CASE CheckReport
  BY <1>6 DEF CheckReport
<1>7. CASE SaveSummary
  <2>1. AddRow(summary) \in [Kernels -> Nat]
    BY <1>7, AddRowTyped DEF SaveSummary
  <2>2. CASE Continue("save_reps")
    BY <1>7, <2>1, <2>2 DEF SaveSummary
  <2>3. CASE Raise("other") /\ Fault
    BY <1>7, <2>1, <2>3, <1>fault DEF SaveSummary
  <2> QED
    BY <1>7, <2>2, <2>3 DEF SaveSummary
<1>8. CASE SaveReps
  <2>1. AddRow(repetitions) \in [Kernels -> Nat]
    BY <1>8, AddRowTyped DEF SaveReps
  <2>2. CASE pc' = "manifest"
    <3>0. completedThisRun' = completedThisRun + 1
      BY <1>8, <2>2 DEF SaveReps
    <3>1. deviceLost' \in BOOLEAN
      <4>1. deviceLost' = FALSE
        BY <1>8, <2>2, Zenon DEF SaveReps, DeviceAfterSuccess
      <4> QED
        BY <4>1, Zenon
    <3>4. completedThisRun' \in Nat
      BY <3>0
    <3>2. repetitions' \in [Kernels -> Nat]
      BY <1>8, <2>1, <2>2 DEF SaveReps
    <3>3. /\ UNCHANGED <<plan, pending, cur, attempt, failures, errorMessages, error,
                         exitCode, surroundings, saveFailed>>
          /\ UNCHANGED <<summary, errors, log, manifest, linkProof, report>>
      BY <1>8, <2>2 DEF SaveReps
    <3> QED
      BY <2>2, <3>1, <3>2, <3>3, <3>4
  <2>3. CASE Raise("other") /\ Fault
    BY <1>8, <2>1, <2>3, <1>fault DEF SaveReps
  <2> QED
    BY <1>8, <2>2, <2>3 DEF SaveReps
<1>9. CASE HandleError
  BY <1>9 DEF HandleError, AttemptsRemain, Attempts
<1>10. CASE Exhausted
  BY <1>10 DEF Exhausted
<1>11. CASE WriteManifest
  BY <1>11, <1>count DEF WriteManifest
<1>12. CASE FinalManifest
  BY <1>12, <1>count DEF FinalManifest
<1>13. CASE Exit
  BY <1>13 DEF Exit, ExitStatus
<1>14. CASE \E sel \in SUBSET Kernels : Start(sel)
  <2> PICK sel \in SUBSET Kernels : Start(sel)
    BY <1>14
  <2>1. Recorded \subseteq Kernels /\ NotYetRecorded(sel) \subseteq Kernels
    BY DEF Recorded, NotYetRecorded
  <2> QED
    BY <2>1 DEF Start
<1>15. CASE Crash
  BY <1>15 DEF Crash, Running
<1>16. CASE Unplug
  <2>1. plugged' \in BOOLEAN
    BY <1>16 DEF Unplug
  <2>2. UNCHANGED <<files, pc, plan, pending, cur, attempt, counters, deviceLost,
                    errorMessages, error, report, exitCode, saveFailed>>
    BY <1>16 DEF Unplug
  <2>3. faults' \in 0 .. MaxFaults
    BY <1>16, <1>fault DEF Unplug
  <2> QED
    BY <2>1, <2>2, <2>3
<1>17. CASE Plug
  BY <1>17 DEF Plug
<1>18. CASE UNCHANGED vars
  BY <1>18 DEF vars
<1> QED
  BY <1>1, <1>2, <1>3, <1>4, <1>5, <1>6, <1>7, <1>8, <1>9, <1>10, <1>11, <1>12, <1>13, <1>14, <1>15, <1>16, <1>17, <1>18 DEF Next, Process
-----------------------------------------------------------------------------
(* The plan of a run.                                                       *)

\* Rows are never lost, and only the kernel being worked on gets one.
LEMMA RecordedStep ==
  ASSUME TypeInv, [Next]_vars
  PROVE  /\ Recorded' = Recorded \/ (SaveSummary /\ Recorded' = Recorded \cup {cur})
         /\ summary' = summary \/ (SaveSummary /\ summary' = AddRow(summary))
<1>1. CASE summary' = summary
  <2>1. Recorded' = Recorded
    BY <1>1 DEF Recorded
  <2> QED
    BY <1>1, <2>1
<1>2. CASE SaveSummary /\ summary' = AddRow(summary)
  <2>1. cur \in Kernels /\ summary \in [Kernels -> Nat]
    BY <1>2 DEF TypeInv, Busy, SaveSummary
  <2>2. \A k \in Kernels : summary'[k] = IF k = cur THEN summary[k] + 1 ELSE summary[k]
    BY <1>2, <2>1, AddRowTyped
  <2>3. \A k \in Kernels : summary'[k] > 0 <=> summary[k] > 0 \/ k = cur
    BY <2>1, <2>2
  <2> QED
    BY <1>2, <2>1, <2>3 DEF Recorded
<1>3. summary' = summary \/ (SaveSummary /\ summary' = AddRow(summary))
  <2>1. CASE SaveSummary
    <3>1. summary' = summary \/ summary' = AddRow(summary)
      BY <2>1 DEF SaveSummary
    <3> QED
      BY <2>1, <3>1
  <2>2. CASE Process /\ ~SaveSummary
    BY <2>2 DEF Process, NextKernel, NoKernelLeft, Build, Flash, Capture, CheckReport,
      SaveReps, HandleError, Exhausted, WriteManifest, FinalManifest, Exit, files
  <2>3. CASE \E sel \in SUBSET Kernels : Start(sel)
    BY <2>3 DEF Start, files
  <2>4. CASE Crash \/ Unplug \/ Plug \/ UNCHANGED vars
    BY <2>4 DEF Crash, Unplug, Plug, vars, files
  <2> QED
    BY <2>1, <2>2, <2>3, <2>4 DEF Next
<1> QED
  BY <1>1, <1>2, <1>3

LEMMA PlanStep ==
  ASSUME TypeInv, PlanInv, RowsInv, [Next]_vars
  PROVE  PlanInv'
<1> USE ConstantsTyped DEF TypeInv, PlanInv, Busy, Current, Goto, Continue, Raise,
      files, plan, counters, surroundings
<1>same. ASSUME summary' = summary PROVE Recorded' = Recorded
  BY <1>same DEF Recorded
<1>1. CASE NextKernel
  BY <1>1, <1>same DEF NextKernel
<1>2. CASE NoKernelLeft
  BY <1>2, <1>same DEF NoKernelLeft
<1>3. CASE Build
  BY <1>3, <1>same DEF Build
<1>4. CASE Flash
  BY <1>4, <1>same DEF Flash
<1>5. CASE Capture
  BY <1>5, <1>same DEF Capture
<1>6. CASE CheckReport
  BY <1>6, <1>same DEF CheckReport
<1>7. CASE SaveSummary
  <2>1. Recorded' = Recorded \/ Recorded' = Recorded \cup {cur}
    BY RecordedStep
  <2>2. UNCHANGED <<selected, alreadyDone, pending, cur, failures>>
    BY <1>7 DEF SaveSummary
  <2>3. Busy /\ Busy' /\ pc # "manifest" /\ pc # "down"
    BY <1>7 DEF SaveSummary
  <2>4. Current' = {cur} /\ Current = {cur}
    BY <2>2, <2>3
  <2>5. pending \cap Recorded' = {} /\ Recorded \subseteq Recorded'
    <3>1. pending \cap Recorded = {} /\ cur \notin pending
      BY <2>3
    <3> HIDE DEF TypeInv, PlanInv, Busy
    <3> QED
      BY <2>1, <3>1
  <2>6. /\ pending \subseteq selected \ alreadyDone
        /\ alreadyDone \subseteq Recorded
        /\ cur \in selected \ alreadyDone /\ cur \notin pending
        /\ failures = 0 => selected \ (pending \cup {cur}) \subseteq Recorded
    BY <2>3, <2>4
  <2> HIDE DEF TypeInv, Busy, Current, PlanInv
  <2> QED
    BY <2>2, <2>3, <2>4, <2>5, <2>6 DEF PlanInv
<1>8. CASE SaveReps
  <2>1. Recorded' = Recorded
    BY <1>8, <1>same DEF SaveReps
  <2>2. UNCHANGED <<selected, alreadyDone, pending, cur, failures>> /\ Busy /\ pc' # "down"
    BY <1>8 DEF SaveReps
  <2>3. cur \in Recorded
    BY <1>8 DEF SaveReps, RowsInv, Recorded
  <2> QED
    BY <2>1, <2>2, <2>3
<1>9. CASE HandleError
  BY <1>9, <1>same DEF HandleError, AttemptsRemain
<1>10. CASE Exhausted
  <2>1. Recorded' = Recorded /\ failures' # 0 /\ ~Busy'
    BY <1>10, <1>same DEF Exhausted
  <2>2. UNCHANGED <<selected, alreadyDone, pending>>
    BY <1>10 DEF Exhausted
  <2> QED
    BY <2>1, <2>2
<1>11. CASE WriteManifest
  BY <1>11, <1>same DEF WriteManifest
<1>12. CASE FinalManifest
  BY <1>12, <1>same DEF FinalManifest
<1>13. CASE Exit
  BY <1>13, <1>same DEF Exit
<1>14. CASE \E sel \in SUBSET Kernels : Start(sel)
  BY <1>14, <1>same DEF Start, NotYetRecorded
<1>15. CASE Crash
  BY <1>15, <1>same DEF Crash, Running
<1>16. CASE Unplug
  BY <1>16, <1>same DEF Unplug
<1>17. CASE Plug
  BY <1>17, <1>same DEF Plug
<1>18. CASE UNCHANGED vars
  BY <1>18, <1>same DEF vars
<1> QED
  BY <1>1, <1>2, <1>3, <1>4, <1>5, <1>6, <1>7, <1>8, <1>9, <1>10, <1>11, <1>12, <1>13, <1>14, <1>15, <1>16, <1>17, <1>18 DEF Next, Process

LEMMA LossStep ==
  ASSUME TypeInv, LossInv, [Next]_vars
  PROVE  LossInv'
<1> USE ConstantsTyped DEF LossInv, Busy, Ended, Goto, Continue, Raise, ExitStatus,
      files, plan, counters, surroundings
<1>1. CASE NextKernel
  BY <1>1 DEF NextKernel
<1>2. CASE NoKernelLeft
  BY <1>2 DEF NoKernelLeft
<1>3. CASE Build
  BY <1>3 DEF Build
<1>4. CASE Flash
  BY <1>4 DEF Flash
<1>5. CASE Capture
  BY <1>5 DEF Capture
<1>6. CASE CheckReport
  BY <1>6 DEF CheckReport
<1>7. CASE SaveSummary
  BY <1>7 DEF SaveSummary
<1>8. CASE SaveReps
  BY <1>8 DEF SaveReps, DeviceAfterSuccess
<1>9. CASE HandleError
  BY <1>9 DEF HandleError, AttemptsRemain
<1>10. CASE Exhausted
  BY <1>10 DEF Exhausted, TypeInv
<1>11. CASE WriteManifest
  BY <1>11 DEF WriteManifest, StopsHere, TypeInv
<1>12. CASE FinalManifest
  BY <1>12 DEF FinalManifest
<1>13. CASE Exit
  BY <1>13 DEF Exit
<1>14. CASE \E sel \in SUBSET Kernels : Start(sel)
  BY <1>14 DEF Start
<1>15. CASE Crash
  BY <1>15 DEF Crash, Running
<1>16. CASE Unplug
  BY <1>16 DEF Unplug
<1>17. CASE Plug
  BY <1>17 DEF Plug
<1>18. CASE UNCHANGED vars
  BY <1>18 DEF vars
<1> QED
  BY <1>1, <1>2, <1>3, <1>4, <1>5, <1>6, <1>7, <1>8, <1>9, <1>10, <1>11, <1>12, <1>13, <1>14, <1>15, <1>16, <1>17, <1>18 DEF Next, Process
-----------------------------------------------------------------------------
(* The files.                                                               *)

LEMMA RowsStep ==
  ASSUME TypeInv, TypeInv', PlanInv, RowsInv, [Next]_vars
  PROVE  RowsInv'
<1> USE ConstantsTyped DEF RowsInv, RepetitionsAreSummarised, OneRowPerKernel, TypeInv,
      Busy, Goto, Continue, Raise, files, plan, counters, surroundings
<1>1. CASE NextKernel
  <2>1. summary[cur'] = 0
    BY <1>1 DEF NextKernel, PlanInv, Recorded
  <2> QED
    BY <1>1, <2>1 DEF NextKernel
<1>2. CASE NoKernelLeft
  BY <1>2 DEF NoKernelLeft
<1>3. CASE Build
  BY <1>3 DEF Build
<1>4. CASE Flash
  BY <1>4 DEF Flash
<1>5. CASE Capture
  BY <1>5 DEF Capture
<1>6. CASE CheckReport
  BY <1>6 DEF CheckReport
<1>7. CASE SaveSummary
  <2>1. cur \in Kernels /\ UNCHANGED <<repetitions, cur>>
    BY <1>7 DEF SaveSummary
  <2>2. CASE pc' = "save_reps" /\ summary' = AddRow(summary) /\ UNCHANGED saveFailed
    <3>1. \A k \in Kernels : summary'[k] = IF k = cur THEN summary[k] + 1 ELSE summary[k]
      BY <2>1, <2>2, AddRowTyped
    <3>2. ~saveFailed => summary[cur] = 0
      BY <1>7 DEF SaveSummary
    <3> QED
      BY <2>1, <2>2, <3>1, <3>2
  <2>3. CASE pc' = "except" /\ saveFailed' = TRUE /\ summary' \in {summary, AddRow(summary)}
    <3>1. \A k \in Kernels : summary'[k] >= summary[k]
      BY <2>1, <2>3, AddRowTyped
    <3> QED
      BY <2>1, <2>3, <3>1
  <2> QED
    BY <1>7, <2>2, <2>3 DEF SaveSummary
<1>8. CASE SaveReps
  <2>1. cur \in Kernels /\ UNCHANGED <<summary, cur>> /\ repetitions[cur] < summary[cur]
    BY <1>8 DEF SaveReps
  <2>2. repetitions' \in {repetitions, AddRow(repetitions)}
    BY <1>8 DEF SaveReps
  <2>3. \A k \in Kernels : repetitions'[k] <= IF k = cur THEN repetitions[k] + 1
                                                         ELSE repetitions[k]
    BY <2>1, <2>2, AddRowTyped
  <2>4. \/ pc' = "manifest" /\ UNCHANGED saveFailed
        \/ pc' = "except" /\ saveFailed' = TRUE
    BY <1>8 DEF SaveReps
  <2> QED
    BY <2>1, <2>3, <2>4
<1>9. CASE HandleError
  BY <1>9 DEF HandleError, AttemptsRemain
<1>10. CASE Exhausted
  BY <1>10 DEF Exhausted
<1>11. CASE WriteManifest
  BY <1>11 DEF WriteManifest
<1>12. CASE FinalManifest
  BY <1>12 DEF FinalManifest
<1>13. CASE Exit
  BY <1>13 DEF Exit
<1>14. CASE \E sel \in SUBSET Kernels : Start(sel)
  BY <1>14 DEF Start
<1>15. CASE Crash
  BY <1>15 DEF Crash, Running
<1>16. CASE Unplug
  BY <1>16 DEF Unplug
<1>17. CASE Plug
  BY <1>17 DEF Plug
<1>18. CASE UNCHANGED vars
  BY <1>18 DEF vars
<1> QED
  BY <1>1, <1>2, <1>3, <1>4, <1>5, <1>6, <1>7, <1>8, <1>9, <1>10, <1>11, <1>12, <1>13, <1>14, <1>15, <1>16, <1>17, <1>18 DEF Next, Process

LEMMA LogStep ==
  ASSUME TypeInv, TypeInv', RowsInv, LogInv, [Next]_vars
  PROVE  LogInv'
<1> USE ConstantsTyped DEF LogInv, RecordedKernelsKeepTheirLog, FailureIsExplained,
      TypeInv, Busy, Goto, Continue, Raise, files, plan, counters, surroundings
<1>same. ASSUME summary' = summary PROVE Recorded' = Recorded
  BY <1>same DEF Recorded
<1>1. CASE NextKernel
  BY <1>1, <1>same DEF NextKernel
<1>2. CASE NoKernelLeft
  BY <1>2, <1>same DEF NoKernelLeft
<1>3. CASE Build
  BY <1>3, <1>same DEF Build
<1>4. CASE Flash
  BY <1>4, <1>same DEF Flash
<1>5. CASE Capture
  BY <1>5, <1>same DEF Capture
<1>6. CASE CheckReport
  <2>1. /\ UNCHANGED <<summary, errors, cur, attempt, saveFailed>> /\ cur \in Kernels
        /\ Recorded' = Recorded
    BY <1>6, <1>same DEF CheckReport
  <2>2. CASE pc' = "save_summary" /\ log' = [log EXCEPT ![cur] = "capture"]
    BY <1>6, <2>1, <2>2 DEF CheckReport, Recorded
  <2>3. CASE pc' = "except" /\ UNCHANGED log
    BY <1>6, <2>1, <2>3 DEF CheckReport
  <2> QED
    BY <1>6, <2>2, <2>3 DEF CheckReport
<1>7. CASE SaveSummary
  BY <1>7, RecordedStep DEF SaveSummary
<1>8. CASE SaveReps
  BY <1>8, <1>same DEF SaveReps
<1>9. CASE HandleError
  BY <1>9, <1>same DEF HandleError, AttemptsRemain, Attempts
<1>10. CASE Exhausted
  BY <1>10, <1>same DEF Exhausted, RowsInv, Recorded
<1>11. CASE WriteManifest
  BY <1>11, <1>same DEF WriteManifest
<1>12. CASE FinalManifest
  BY <1>12, <1>same DEF FinalManifest
<1>13. CASE Exit
  BY <1>13, <1>same DEF Exit
<1>14. CASE \E sel \in SUBSET Kernels : Start(sel)
  <2>1. UNCHANGED <<summary, errors, log, saveFailed>> /\ pc' = "next"
    BY <1>14 DEF Start
  <2> QED
    BY <2>1, <1>same
<1>15. CASE Crash
  BY <1>15, <1>same DEF Crash, Running
<1>16. CASE Unplug
  BY <1>16, <1>same DEF Unplug
<1>17. CASE Plug
  BY <1>17, <1>same DEF Plug
<1>18. CASE UNCHANGED vars
  BY <1>18, <1>same DEF vars
<1> QED
  BY <1>1, <1>2, <1>3, <1>4, <1>5, <1>6, <1>7, <1>8, <1>9, <1>10, <1>11, <1>12, <1>13, <1>14, <1>15, <1>16, <1>17, <1>18 DEF Next, Process
-----------------------------------------------------------------------------
(* The counts.                                                              *)

LEMMA Counting ==
  ASSUME NEW S \in SUBSET Kernels
  PROVE  /\ Cardinality(S) \in 0 .. NumKernels
         /\ \A T \in SUBSET S : Cardinality(T) <= Cardinality(S)
         /\ \A k \in Kernels \ S : Cardinality(S \cup {k}) = Cardinality(S) + 1
         /\ \A k \in S : Cardinality(S \ {k}) = Cardinality(S) - 1
<1>1. IsFiniteSet(S) /\ Cardinality(S) \in Nat /\ Cardinality(S) <= NumKernels
  BY KernelsFinite
<1>2. \A T \in SUBSET S : Cardinality(T) <= Cardinality(S)
  BY <1>1, FS_Subset
<1>3. \A k \in Kernels \ S : Cardinality(S \cup {k}) = Cardinality(S) + 1
  BY <1>1, FS_AddElement
<1>4. \A k \in S : Cardinality(S \ {k}) = Cardinality(S) - 1
  BY <1>1, FS_RemoveElement
<1> QED
  BY <1>1, <1>2, <1>3, <1>4, SweepAssumption

LEMMA NoneOrOne ==
  /\ Cardinality({}) = 0
  /\ \A k : Cardinality({k}) = 1
BY FS_EmptySet, FS_Singleton

\* A step that moves no kernel between the sets disturbs no count.
LEMMA CountsKept ==
  ASSUME CountInv, TypeInv,
         Recorded' \ Current' = Recorded \ Current, Recorded \subseteq Recorded',
         Recorded' \in SUBSET Kernels, Current' = Current,
         UNCHANGED <<alreadyDone, completedThisRun, failures, pending, selected, manifest>>,
         pc' # "down" => pc # "down", saveFailed => saveFailed',
         pc' \in {"evidence", "exit"} => pc \in {"evidence", "exit"}
  PROVE  CountInv'
<1>1. /\ Cardinality(Recorded') \in Nat /\ Cardinality(Recorded) \in Nat
      /\ Cardinality(Recorded) <= Cardinality(Recorded') /\ manifest.completed \in Nat
  BY Counting DEF Recorded, TypeInv
<1>2. manifest.completed <= Cardinality(Recorded')
  BY <1>1 DEF CountInv
<1> QED
  BY <1>2 DEF CountInv, DoneCount

LEMMA CountStep ==
  ASSUME TypeInv, TypeInv', PlanInv, RowsInv, CountInv, [Next]_vars
  PROVE  CountInv'
<1> USE DEF Goto, Continue, Raise, files, plan, counters, surroundings
<1>0. /\ TypeInv /\ Recorded \in SUBSET Kernels /\ Recorded' \in SUBSET Kernels
      /\ Busy => cur \in Kernels
  BY DEF TypeInv, Recorded
<1>same. summary' = summary => Recorded' = Recorded
  BY DEF Recorded
<1>numbers. /\ Cardinality(Recorded) \in Nat /\ Cardinality(alreadyDone) \in Nat
            /\ Cardinality(pending) \in Nat /\ Cardinality(selected \ alreadyDone) \in Nat
            /\ completedThisRun \in Nat /\ failures \in Nat
  BY Counting DEF TypeInv, Recorded
<1>1. CASE NextKernel
  <2>1. /\ cur' \in pending /\ pending \subseteq Kernels /\ pending' = pending \ {cur'}
        /\ cur' \notin Recorded /\ Recorded' = Recorded
    BY <1>1, <1>same DEF NextKernel, PlanInv, TypeInv
  <2>2. Current = {} /\ Current' = {cur'}
    BY <1>1 DEF NextKernel, Current, Busy
  <2>3. Cardinality(pending') = Cardinality(pending) - 1
    BY <2>1, Counting
  <2>4. Recorded \ Current = Recorded /\ Recorded' \ Current' = Recorded
    BY <2>1, <2>2
  <2>5. /\ pc = "next" /\ pc' = "build"
        /\ UNCHANGED <<alreadyDone, completedThisRun, failures, selected, manifest, saveFailed>>
    BY <1>1 DEF NextKernel
  <2>6. DoneCount' = DoneCount /\ Cardinality(Current) = 0 /\ Cardinality(Current') = 1
    BY <2>2, <2>5, NoneOrOne DEF DoneCount
  <2>7. failures' + completedThisRun' + Cardinality(pending') + Cardinality(Current')
          = failures + completedThisRun + Cardinality(pending) + Cardinality(Current)
    BY <2>3, <2>5, <2>6, <1>numbers
  <2>9. Cardinality(Recorded' \ Current') = Cardinality(Recorded \ Current)
    BY <2>4
  <2> QED
    BY <2>1, <2>5, <2>6, <2>7, <2>9 DEF CountInv
<1>2. CASE NoKernelLeft
  <2>1. Recorded' = Recorded /\ Current' = Current
    BY <1>2, <1>same DEF NoKernelLeft, Current, Busy
  <2>2. /\ UNCHANGED <<alreadyDone, completedThisRun, failures, pending, selected, manifest>>
        /\ pc' # "down" => pc # "down"
        /\ saveFailed => saveFailed'
        /\ pc' \in {"evidence", "exit"} => pc \in {"evidence", "exit"}
    BY <1>2 DEF NoKernelLeft
  <2> QED
    BY <1>0, <2>1, <2>2, CountsKept
<1>3. CASE Build
  <2>1. Recorded' = Recorded /\ Current' = Current
    BY <1>3, <1>same DEF Build, Current, Busy
  <2>2. /\ UNCHANGED <<alreadyDone, completedThisRun, failures, pending, selected, manifest>>
        /\ pc' # "down" => pc # "down"
        /\ saveFailed => saveFailed'
        /\ pc' \in {"evidence", "exit"} => pc \in {"evidence", "exit"}
    BY <1>3 DEF Build
  <2> QED
    BY <1>0, <2>1, <2>2, CountsKept
<1>4. CASE Flash
  <2>1. Recorded' = Recorded /\ Current' = Current
    BY <1>4, <1>same DEF Flash, Current, Busy
  <2>2. /\ UNCHANGED <<alreadyDone, completedThisRun, failures, pending, selected, manifest>>
        /\ pc' # "down" => pc # "down"
        /\ saveFailed => saveFailed'
        /\ pc' \in {"evidence", "exit"} => pc \in {"evidence", "exit"}
    BY <1>4 DEF Flash
  <2> QED
    BY <1>0, <2>1, <2>2, CountsKept
<1>5. CASE Capture
  <2>1. Recorded' = Recorded /\ Current' = Current
    BY <1>5, <1>same DEF Capture, Current, Busy
  <2>2. /\ UNCHANGED <<alreadyDone, completedThisRun, failures, pending, selected, manifest>>
        /\ pc' # "down" => pc # "down"
        /\ saveFailed => saveFailed'
        /\ pc' \in {"evidence", "exit"} => pc \in {"evidence", "exit"}
    BY <1>5 DEF Capture
  <2> QED
    BY <1>0, <2>1, <2>2, CountsKept
<1>6. CASE CheckReport
  <2>1. Recorded' = Recorded /\ Current' = Current
    BY <1>6, <1>same DEF CheckReport, Current, Busy
  <2>2. /\ UNCHANGED <<alreadyDone, completedThisRun, failures, pending, selected, manifest>>
        /\ pc' # "down" => pc # "down"
        /\ saveFailed => saveFailed'
        /\ pc' \in {"evidence", "exit"} => pc \in {"evidence", "exit"}
    BY <1>6 DEF CheckReport
  <2> QED
    BY <1>0, <2>1, <2>2, CountsKept
<1>7. CASE SaveSummary
  <2>1. Current' = Current /\ Current = {cur}
    BY <1>7 DEF SaveSummary, Current, Busy
  <2>2. Recorded' = Recorded \/ Recorded' = Recorded \cup {cur}
    BY RecordedStep
  <2>3. Recorded' \ Current' = Recorded \ Current /\ Recorded \subseteq Recorded'
    BY <2>1, <2>2
  <2>4. /\ UNCHANGED <<alreadyDone, completedThisRun, failures, pending, selected, manifest>>
        /\ pc' # "down" => pc # "down"
        /\ saveFailed => saveFailed'
        /\ pc' \in {"evidence", "exit"} => pc \in {"evidence", "exit"}
    BY <1>7 DEF SaveSummary
  <2> QED
    BY <1>0, <2>1, <2>3, <2>4, CountsKept
<1>8. CASE SaveReps
  <2>1. Recorded' = Recorded /\ Current = {cur} /\ cur \in Recorded
    BY <1>8 DEF SaveReps, Current, Busy, RowsInv, Recorded, TypeInv
  <2>2. CASE pc' = "manifest" /\ completedThisRun' = completedThisRun + 1
    <3>1. Current' = {}
      BY <2>2 DEF Current, Busy
    <3>2. Recorded' \ Current' = Recorded
      BY <2>1, <3>1
    <3>3. Cardinality(Recorded \ Current) = Cardinality(Recorded) - 1
      BY <1>0, <2>1, Counting
    <3>4. /\ UNCHANGED <<alreadyDone, failures, pending, selected, manifest, saveFailed>>
          /\ pc # "down"
      BY <1>8, <2>2 DEF SaveReps
    <3>5. DoneCount' = DoneCount + 1
      BY <2>2, <3>4, <1>numbers DEF DoneCount
    <3>6. Cardinality(Current) = 1 /\ Cardinality(Current') = 0
      BY <2>1, <3>1, NoneOrOne
    <3>7. DoneCount \in Nat
      BY <1>numbers DEF DoneCount
    <3>8. Cardinality(Recorded' \ Current') = Cardinality(Recorded \ Current) + 1
      BY <2>1, <1>numbers, <3>2, <3>3
    <3>9. Cardinality(Recorded \ Current) \in Nat
      BY <1>0, Counting
    <3>10. failures' + completedThisRun' + Cardinality(pending') + Cardinality(Current')
            = failures + completedThisRun + Cardinality(pending) + Cardinality(Current)
      BY <2>2, <3>4, <3>6, <1>numbers
    <3> QED
      BY <2>1, <2>2, <3>4, <3>5, <3>7, <3>8, <3>9, <3>10 DEF CountInv
  <2>3. CASE Raise("other") /\ saveFailed' = TRUE
    <3>1. Current' = Current
      BY <1>8, <2>3 DEF SaveReps, Current, Busy
    <3>2. /\ UNCHANGED <<alreadyDone, completedThisRun, failures, pending, selected, manifest>>
          /\ pc' = "except" /\ pc = "save_reps"
      BY <1>8, <2>3 DEF SaveReps
    <3> QED
      BY <1>0, <2>1, <2>3, <3>1, <3>2, CountsKept
  <2> QED
    BY <1>8, <2>2, <2>3 DEF SaveReps
<1>9. CASE HandleError
  <2>1. Recorded' = Recorded /\ Current' = Current
    BY <1>9, <1>same DEF HandleError, Current, Busy
  <2>2. /\ UNCHANGED <<alreadyDone, completedThisRun, failures, pending, selected, manifest>>
        /\ pc' # "down" => pc # "down"
        /\ saveFailed => saveFailed'
        /\ pc' \in {"evidence", "exit"} => pc \in {"evidence", "exit"}
    BY <1>9 DEF HandleError
  <2> QED
    BY <1>0, <2>1, <2>2, CountsKept
<1>10. CASE Exhausted
  <2>1. Recorded' = Recorded /\ Current = {cur} /\ Current' = {}
    BY <1>10, <1>same DEF Exhausted, Current, Busy
  <2>2. /\ UNCHANGED <<alreadyDone, completedThisRun, pending, selected, manifest, saveFailed>>
        /\ failures' = failures + 1 /\ pc = "exhausted" /\ pc' = "manifest"
    BY <1>10 DEF Exhausted
  <2>3. Cardinality(Recorded \ Current) <= Cardinality(Recorded)
    BY <1>0, Counting
  <2>4. Recorded \ Current \in SUBSET Kernels
    BY <1>0
  <2>5. Cardinality(Recorded \ Current) \in Nat
    BY <2>4, Counting
  <2>6. ~saveFailed => Recorded \ Current = Recorded
    BY <2>1, <2>2 DEF RowsInv, Busy, Recorded
  <2>8. DoneCount' = DoneCount /\ DoneCount \in Nat
    BY <2>2, <1>numbers DEF DoneCount
  <2>9. Cardinality(Current) = 1 /\ Cardinality(Current') = 0
    BY <2>1, NoneOrOne
  <2> QED
    BY <2>1, <2>2, <2>3, <2>5, <2>6, <2>8, <2>9, <1>numbers DEF CountInv
<1>manifest. ASSUME pc \in {"manifest", "final_manifest"}, ~(pc' = "down"),
                    ~Busy', manifest' = Counts, summary' = summary,
                    UNCHANGED <<selected, pending, alreadyDone, completedThisRun, failures,
                                saveFailed>>
             PROVE  CountInv'
  <2>1. Recorded' = Recorded /\ Current = {} /\ Current' = {}
    BY <1>manifest, <1>same DEF Current, Busy
  <2>2. manifest'.completed = DoneCount /\ manifest'.failed = failures
    BY <1>manifest DEF Counts, DoneCount
  <2>3. Cardinality(selected \ alreadyDone) <= NumKernels
    BY Counting DEF TypeInv
  <2>5. DoneCount' = DoneCount
    BY <1>manifest DEF DoneCount
  <2> QED
    BY <1>manifest, <2>1, <2>2, <2>3, <2>5, <1>numbers, NoneOrOne, SweepAssumption DEF CountInv
<1>11. CASE WriteManifest
  <2>1. pc' \in {"final_manifest", "next"}
    BY <1>11 DEF WriteManifest
  <2> QED
    BY <1>11, <2>1, <1>manifest DEF WriteManifest, Busy
<1>12. CASE FinalManifest
  BY <1>12, <1>manifest DEF FinalManifest, Busy
<1>13. CASE Exit
  <2>1. Recorded' = Recorded /\ Current' = Current
    BY <1>13, <1>same DEF Exit, Current, Busy
  <2>2. /\ UNCHANGED <<alreadyDone, completedThisRun, failures, pending, selected, manifest>>
        /\ pc' # "down" => pc # "down"
        /\ saveFailed => saveFailed'
        /\ pc' \in {"evidence", "exit"} => pc \in {"evidence", "exit"}
    BY <1>13 DEF Exit
  <2> QED
    BY <1>0, <2>1, <2>2, CountsKept
<1>14. CASE \E sel \in SUBSET Kernels : Start(sel)
  <2> PICK sel \in SUBSET Kernels : Start(sel)
    BY <1>14
  <2>1. /\ Recorded' = Recorded /\ Current' = {}
        /\ selected' \ alreadyDone' = pending' /\ alreadyDone' = Recorded
        /\ failures' = 0 /\ completedThisRun' = 0 /\ manifest' = manifest /\ pc' = "next"
    BY <1>same DEF Start, NotYetRecorded, Current, Busy
  <2>2. Recorded' \ Current' = Recorded
    BY <2>1
  <2>3. Cardinality(pending') \in Nat
    BY Counting DEF TypeInv
  <2>4. DoneCount' = Cardinality(Recorded)
    BY <2>1, <1>numbers DEF DoneCount
  <2>5. Cardinality(Current') = 0
    BY <2>1, NoneOrOne
  <2>6. failures' + completedThisRun' + Cardinality(pending') + Cardinality(Current')
          <= Cardinality(selected' \ alreadyDone')
    BY <2>1, <2>3, <2>5
  <2> QED
    BY <2>1, <2>2, <2>4, <2>6, <1>numbers DEF CountInv
<1>15. CASE Crash
  <2>1. Recorded' = Recorded /\ Current' = {}
    BY <1>15, <1>same DEF Crash, Current, Busy
  <2>2. /\ UNCHANGED <<alreadyDone, completedThisRun, failures, pending, selected, manifest>>
        /\ pc' = "down"
    BY <1>15 DEF Crash
  <2>3. Cardinality(Recorded \ Current) <= Cardinality(Recorded)
    BY <1>0, Counting
  <2>4. Cardinality(Recorded \ Current) \in Nat /\ Cardinality(Current) \in Nat
    BY <1>0, Counting, NoneOrOne DEF Current
  <2>6. DoneCount' = DoneCount /\ DoneCount \in Nat
    BY <2>2, <1>numbers DEF DoneCount
  <2>7. Cardinality(Current') = 0
    BY <2>1, NoneOrOne
  <2>8. failures' + completedThisRun' + Cardinality(pending') + Cardinality(Current')
          <= Cardinality(selected' \ alreadyDone')
    BY <2>2, <2>4, <2>7, <1>numbers DEF CountInv
  <2> QED
    BY <2>1, <2>2, <2>3, <2>4, <2>6, <2>8, <1>numbers DEF CountInv
<1>16. CASE Unplug
  <2>1. Recorded' = Recorded /\ Current' = Current
    BY <1>16, <1>same DEF Unplug, Current, Busy
  <2>2. /\ UNCHANGED <<alreadyDone, completedThisRun, failures, pending, selected, manifest>>
        /\ pc' # "down" => pc # "down"
        /\ saveFailed => saveFailed'
        /\ pc' \in {"evidence", "exit"} => pc \in {"evidence", "exit"}
    BY <1>16 DEF Unplug
  <2> QED
    BY <1>0, <2>1, <2>2, CountsKept
<1>17. CASE Plug
  <2>1. Recorded' = Recorded /\ Current' = Current
    BY <1>17, <1>same DEF Plug, Current, Busy
  <2>2. /\ UNCHANGED <<alreadyDone, completedThisRun, failures, pending, selected, manifest>>
        /\ pc' # "down" => pc # "down"
        /\ saveFailed => saveFailed'
        /\ pc' \in {"evidence", "exit"} => pc \in {"evidence", "exit"}
    BY <1>17 DEF Plug
  <2> QED
    BY <1>0, <2>1, <2>2, CountsKept
<1>18. CASE UNCHANGED vars
  <2>1. Recorded' = Recorded /\ Current' = Current
    BY <1>18, <1>same DEF vars, Current, Busy
  <2>2. /\ UNCHANGED <<alreadyDone, completedThisRun, failures, pending, selected, manifest>>
        /\ pc' # "down" => pc # "down"
        /\ saveFailed => saveFailed'
        /\ pc' \in {"evidence", "exit"} => pc \in {"evidence", "exit"}
    BY <1>18 DEF vars
  <2> QED
    BY <1>0, <2>1, <2>2, CountsKept
<1> QED
  BY <1>1, <1>2, <1>3, <1>4, <1>5, <1>6, <1>7, <1>8, <1>9, <1>10, <1>11, <1>12, <1>13, <1>14, <1>15, <1>16, <1>17, <1>18 DEF Next, Process
-----------------------------------------------------------------------------
(* The theorems.                                                            *)

LEMMA InitIInv == Init => IInv
<1> SUFFICES ASSUME Init PROVE IInv
  OBVIOUS
<1> USE ConstantsTyped DEF Init, Busy
<1>1. TypeInv
  <2>1. /\ summary \in [Kernels -> Nat] /\ repetitions \in [Kernels -> Nat]
        /\ log \in [Kernels -> {"none", "capture", "errors"}]
        /\ manifest \in [completed : Nat, failed : Nat]
    OBVIOUS
  <2>2. faults \in 0 .. MaxFaults /\ errors \subseteq Kernels \X Attempts
    OBVIOUS
  <2>3. /\ deviceLost \in BOOLEAN /\ errorMessages \in BOOLEAN /\ saveFailed \in BOOLEAN
        /\ plugged \in BOOLEAN /\ linkProof \in BOOLEAN
    BY Zenon
  <2>4. /\ pc = "down" /\ error = "none" /\ report = "none" /\ exitCode = 0
        /\ selected = {} /\ alreadyDone = {} /\ pending = {} /\ cur = 0 /\ attempt = 0
        /\ failures = 0 /\ completedThisRun = 0
    BY Zenon
  <2> HIDE DEF Init
  <2> QED
    BY <2>1, <2>2, <2>3, <2>4 DEF TypeInv
<1>2. Recorded = {} /\ Current = {}
  BY DEF Recorded, Current
<1>3. PlanInv
  BY <1>2 DEF PlanInv
<1>4. LossInv
  BY DEF LossInv, Ended
<1>5. RowsInv
  BY DEF RowsInv, RepetitionsAreSummarised, OneRowPerKernel
<1>6. LogInv
  BY <1>2 DEF LogInv, RecordedKernelsKeepTheirLog, FailureIsExplained
<1>7. CountInv
  BY <1>2, NoneOrOne, SweepAssumption DEF CountInv, DoneCount
<1> QED
  BY <1>1, <1>3, <1>4, <1>5, <1>6, <1>7 DEF IInv

LEMMA NextIInv == IInv /\ [Next]_vars => IInv'
<1> SUFFICES ASSUME IInv, [Next]_vars PROVE IInv'
  OBVIOUS
<1>0. TypeInv /\ PlanInv /\ LossInv /\ RowsInv /\ LogInv /\ CountInv
  BY DEF IInv
<1>1. TypeInv'
  BY <1>0, TypeStep
<1>2. PlanInv' /\ LossInv'
  BY <1>0, PlanStep, LossStep
<1>3. RowsInv' /\ LogInv'
  BY <1>0, <1>1, RowsStep, LogStep
<1>4. CountInv'
  BY <1>0, <1>1, CountStep
<1> QED
  BY <1>1, <1>2, <1>3, <1>4 DEF IInv

\* Every reachable state of every sweep satisfies the inductive invariant.
THEOREM Invariance == Spec => []IInv
BY InitIInv, NextIInv, PTL DEF Spec

\* The counters of a run and of the manifest stay within the number of kernels.
THEOREM TypeCorrect == Spec => []TypeOK
<1>1. IInv => TypeOK
  <2> SUFFICES ASSUME IInv PROVE TypeOK
    OBVIOUS
  <2>1. TypeInv /\ CountInv
    BY DEF IInv
  <2>2. /\ Cardinality(Recorded) \in 0 .. NumKernels
        /\ Cardinality(pending) \in Nat /\ Cardinality(selected \ alreadyDone) \in 0 .. NumKernels
    BY <2>1, Counting DEF TypeInv, Recorded
  <2>3. Cardinality(Current) \in Nat
    <3>1. Current = {} \/ Current = {cur}
      BY DEF Current
    <3>2. CASE Current = {}
      BY <3>2, NoneOrOne
    <3>3. CASE Current = {cur}
      <4>1. Cardinality({cur}) = 1
        BY NoneOrOne
      <4> QED
        BY <3>3, <4>1
    <3> QED
      BY <3>1, <3>2, <3>3
  <2>4. failures \in 0 .. NumKernels /\ completedThisRun \in 0 .. NumKernels
    BY <2>1, <2>2, <2>3, SweepAssumption DEF TypeInv, CountInv
  <2>5. manifest \in [completed : 0 .. NumKernels, failed : 0 .. NumKernels]
    BY <2>1, <2>2, SweepAssumption DEF TypeInv, CountInv
  <2> QED
    BY <2>1, <2>4, <2>5 DEF TypeOK, TypeInv
<1> QED
  BY <1>1, Invariance, PTL

\* A run that returns 0 leaves a row for every selected kernel.
THEOREM SuccessIsComplete == Spec => []ExitZeroMeansRecorded
<1>1. IInv => ExitZeroMeansRecorded
  <2> SUFFICES ASSUME IInv, pc = "exit", exitCode = 0 PROVE selected \subseteq Recorded
    BY DEF ExitZeroMeansRecorded
  <2>1. failures = 0
    BY DEF IInv, LossInv, TypeInv, ExitStatus
  <2>2. pending = {} /\ Current = {}
    BY <2>1 DEF IInv, LossInv, Ended, Current, Busy
  <2> QED
    BY <2>1, <2>2 DEF IInv, PlanInv
<1> QED
  BY <1>1, Invariance, PTL

\* repetitions.csv holds no samples that summary.csv does not summarise, through
\* crashes, failed appends and resumed runs.
THEOREM SamplesSummarised == Spec => []RepetitionsAreSummarised
<1>1. IInv => RepetitionsAreSummarised
  BY DEF IInv, RowsInv
<1> QED
  BY <1>1, Invariance, PTL

\* Without a failed append no kernel gets a second row, however often the sweep is
\* killed and resumed.
THEOREM RowsUnique == Spec => []OneRowPerKernel
<1>1. IInv => OneRowPerKernel
  BY DEF IInv, RowsInv
<1> QED
  BY <1>1, Invariance, PTL

\* Without a failed append the log of a recorded kernel is its capture.
THEOREM LogsKept == Spec => []RecordedKernelsKeepTheirLog
<1>1. IInv => RecordedKernelsKeepTheirLog
  BY DEF IInv, LogInv
<1> QED
  BY <1>1, Invariance, PTL

\* A kernel given up has each of its attempts in errors.csv.
THEOREM FailuresExplained == Spec => []FailureIsExplained
<1>1. IInv => FailureIsExplained
  BY DEF IInv, LogInv
<1> QED
  BY <1>1, Invariance, PTL

\* The manifest never counts more kernels than summary.csv names, and counts
\* exactly those when a run without a failed append ends.
THEOREM ManifestAgrees == Spec => []ManifestMatchesSummary
<1>1. IInv => ManifestMatchesSummary
  <2> SUFFICES ASSUME IInv PROVE ManifestMatchesSummary
    OBVIOUS
  <2>1. CountInv
    BY DEF IInv
  <2>2. ASSUME pc = "exit" PROVE Recorded \ Current = Recorded
    BY <2>2 DEF Current, Busy
  <2> QED
    BY <2>1, <2>2 DEF ManifestMatchesSummary, CountInv
<1> QED
  BY <1>1, Invariance, PTL

\* No kernel is begun while the board is known to be lost.
THEOREM LostBoardStops == Spec => StopsWhenDisconnected
<1>1. IInv /\ [Next]_vars =>
        [cur' \in Kernels /\ pc = "next" /\ pc' = "build" => ~deviceLost]_vars
  BY DEF IInv, LossInv
<1> QED
  BY <1>1, Invariance, PTL DEF StopsWhenDisconnected, Spec

-----------------------------------------------------------------------------
(* The sweep keeps the promise of ResumableSweep.                           *)

\* A step the operator does not see, or sees as a fault.
LEMMA Unseen ==
  ASSUME TypeInv, TypeInv', selected' = selected, Due' = Due, Recorded' = Recorded,
         Sampled' = Sampled, Open' = Open, GaveUp' = GaveUp, Outcome' = Outcome,
         faults' = faults \/ Fault
  PROVE  [Promise!Next]_(Promise!sweepVars)
BY DEF Promise!Next, Promise!Mishap, Promise!sweepVars, Fault

\* What a step leaves alone is seen as before.
LEMMA SameFiles ==
  /\ summary' = summary => Recorded' = Recorded
  /\ repetitions' = repetitions => Sampled' = Sampled
  /\ failures' = failures => GaveUp' = GaveUp
BY DEF Recorded, Sampled, GaveUp

LEMMA StartRefines ==
  ASSUME IInv, NEW sel \in SUBSET Kernels, Start(sel)
  PROVE  Promise!Begin(sel)
<1>1. /\ Outcome # "running" /\ Outcome' = "running" /\ selected' = sel /\ faults' = faults
      /\ Due' = sel \ Recorded /\ Open' = {}
  BY DEF Start, Outcome, Running, Due, NotYetRecorded, Current, Busy, Open, surroundings
<1>2. Recorded' = Recorded /\ Sampled' = Sampled
  BY SameFiles DEF Start, files
<1>3. GaveUp' = FALSE
  BY DEF Start, GaveUp
<1> QED
  BY <1>1, <1>2, <1>3 DEF Promise!Begin

\* A row is appended, or an append of it is cut off.
LEMMA SaveSummaryRefines ==
  ASSUME IInv, SaveSummary
  PROVE  Promise!Row(cur) \/ Promise!FailedWrite \/ UNCHANGED Promise!sweepVars
<1> USE DEF SaveSummary, Continue, Raise, Fault, plan, counters, surroundings
<1>1. TypeInv /\ cur \in Kernels /\ cur \in Due /\ Open = {} /\ Running /\ selected' = selected
  BY DEF IInv, TypeInv, Busy, Due, Running, Current, Open
<1>2. Sampled' = Sampled /\ GaveUp' = GaveUp /\ Due' = Due /\ Outcome' = Outcome
  BY SameFiles DEF Due, Outcome, Running, Current, Busy
<1>3. summary' = AddRow(summary) => Recorded' = Recorded \cup {cur}
  <2> SUFFICES ASSUME summary' = AddRow(summary)
               PROVE  \A k \in Kernels : summary'[k] > 0 <=> summary[k] > 0 \/ k = cur
    BY <1>1 DEF Recorded
  <2> QED
    BY <1>1, AddRowTyped DEF TypeInv
<1>4. CASE Continue("save_reps") /\ summary' = AddRow(summary)
  <2>1. Open' = {cur} /\ faults' = faults
    BY <1>4 DEF Open
  <2> QED
    BY <1>1, <1>2, <1>3, <1>4, <2>1 DEF Promise!Row
<1>5. CASE Raise("other") /\ Fault /\ summary' \in {summary, AddRow(summary)}
  <2>1. Open' = {} /\ faults' = faults + 1
    BY <1>5 DEF Open
  <2>2. Recorded' = Recorded \/ Recorded' = Recorded \cup {cur}
    BY <1>3, <1>5, SameFiles
  <2> QED
    BY <1>1, <1>2, <2>1, <2>2 DEF Promise!FailedWrite, Promise!CutWrite
<1> QED
  BY <1>4, <1>5

\* Its samples are appended, or an append of them is cut off.
LEMMA SaveRepsRefines ==
  ASSUME IInv, SaveReps
  PROVE  Promise!Samples(cur) \/ Promise!FailedWrite
<1> USE DEF SaveReps, Raise, Fault, plan, counters, surroundings
<1>1. TypeInv /\ cur \in Kernels /\ Open = {cur} /\ Due = pending \cup {cur} /\ cur \notin pending
      /\ selected' = selected /\ pending' = pending /\ cur' = cur
  BY DEF IInv, TypeInv, PlanInv, Busy, Due, Running, Current, Open
<1>2. Recorded' = Recorded /\ GaveUp' = GaveUp /\ Outcome' = Outcome /\ Open' = {}
  <2>1. summary' = summary /\ failures' = failures /\ pc' \in {"manifest", "except"}
        /\ pc = "save_reps"
    OBVIOUS
  <2> QED
    BY <2>1, SameFiles DEF Outcome, Running, Open
<1>3. repetitions' = AddRow(repetitions) => Sampled' = Sampled \cup {cur}
  <2> SUFFICES ASSUME repetitions' = AddRow(repetitions)
               PROVE  \A k \in Kernels : repetitions'[k] > 0 <=> repetitions[k] > 0 \/ k = cur
    BY <1>1 DEF Sampled
  <2> QED
    BY <1>1, AddRowTyped DEF TypeInv
<1>4. CASE pc' = "manifest" /\ repetitions' = AddRow(repetitions) /\ faults' = faults
  <2>1. Due' = Due \ {cur}
    BY <1>1, <1>4 DEF Due, Running, Current, Busy
  <2> QED
    BY <1>1, <1>2, <1>3, <1>4, <2>1 DEF Promise!Samples
<1>5. CASE Raise("other") /\ Fault /\ repetitions' \in {repetitions, AddRow(repetitions)}
  <2>1. Due' = Due /\ faults' = faults + 1
    BY <1>1, <1>5 DEF Due, Running, Current, Busy
  <2>2. Sampled' = Sampled \/ Sampled' = Sampled \cup Open
    BY <1>1, <1>3, <1>5, SameFiles
  <2> QED
    BY <1>1, <1>2, <2>1, <2>2 DEF Promise!FailedWrite, Promise!CutWrite
<1> QED
  BY <1>4, <1>5

LEMMA ExhaustedRefines ==
  ASSUME IInv, Exhausted
  PROVE  Promise!GiveUp(cur)
<1>1. TypeInv /\ cur \in Due /\ cur \notin pending /\ Open = {} /\ Open' = {}
      /\ selected' = selected /\ Due = pending \cup {cur} /\ Due' = pending
  BY DEF Exhausted, Goto, IInv, PlanInv, Busy, Due, Running, Current, Open, plan
<1>2. Recorded' = Recorded /\ Sampled' = Sampled /\ Outcome' = Outcome /\ faults' = faults
  BY SameFiles DEF Exhausted, Goto, Outcome, Running, surroundings
<1>3. GaveUp' = TRUE
  BY <1>1 DEF Exhausted, GaveUp, TypeInv
<1> QED
  BY <1>1, <1>2, <1>3 DEF Promise!GiveUp

\* The loop has ended: with nothing due, or behind a kernel given up.
LEMMA ExitRefines ==
  ASSUME IInv, Exit
  PROVE  Promise!Finish
<1>1. /\ Outcome = "running" /\ Outcome' \in {"idle", "done"} /\ Open = {} /\ Open' = {} /\ Due' = {}
      /\ selected' = selected /\ faults' = faults
  BY DEF Exit, Goto, Outcome, Running, Open, Due, plan, surroundings
<1>2. Recorded' = Recorded /\ Sampled' = Sampled /\ GaveUp' = GaveUp
  BY SameFiles DEF Exit, files, counters
<1>3. ~GaveUp => Due = {}
  BY DEF Exit, Goto, IInv, TypeInv, LossInv, Ended, GaveUp, Due, Current, Busy
<1>4. GaveUp => Outcome' = "idle"
  BY DEF Exit, Goto, GaveUp, Outcome, Running, ExitStatus
<1> QED
  BY <1>1, <1>2, <1>3, <1>4 DEF Promise!Finish

LEMMA CrashRefines ==
  ASSUME IInv, Crash
  PROVE  Promise!Stop
<1>1. /\ Outcome' = "idle" /\ Open' = {} /\ Due' = {} /\ selected' = selected /\ faults' = faults + 1
  BY DEF Crash, Fault, Outcome, Running, Open, Due, plan
<1>2. Recorded' = Recorded /\ Sampled' = Sampled /\ GaveUp' = GaveUp
  BY SameFiles DEF Crash, files, counters
<1> QED
  BY <1>1, <1>2 DEF Promise!Stop, Promise!CutWrite

LEMMA StepRefines ==
  ASSUME IInv, IInv', [Next]_vars
  PROVE  [Promise!Next]_(Promise!sweepVars)
<1>0. TypeInv /\ TypeInv' /\ PlanInv
  BY DEF IInv
<1> USE DEF Goto, Continue, Raise, files, plan, counters, surroundings
<1>1. CASE NextKernel
  <2>1. Due' = Due /\ Open' = Open /\ Outcome' = Outcome
    BY <1>1 DEF NextKernel, Due, Current, Busy, Open, Outcome, Running
  <2> QED
    BY <1>0, <1>1, <2>1, SameFiles, Unseen DEF NextKernel
<1>2. CASE NoKernelLeft \/ WriteManifest \/ FinalManifest
  <2>1. Due' = Due /\ Open' = Open /\ Outcome' = Outcome
    BY <1>2 DEF NoKernelLeft, WriteManifest, FinalManifest, Due, Current, Busy, Open, Outcome, Running
  <2> QED
    BY <1>0, <1>2, <2>1, SameFiles, Unseen DEF NoKernelLeft, WriteManifest, FinalManifest
<1>3. CASE Build \/ Flash \/ Capture \/ CheckReport \/ HandleError
  <2>1. /\ pc \in {"build", "flash", "capture", "check", "except"}
        /\ pc' \in {"build", "flash", "capture", "check", "save_summary", "except", "exhausted"}
        /\ UNCHANGED <<selected, pending, cur, failures, summary, repetitions>>
        /\ faults' = faults \/ Fault
    BY <1>3 DEF Build, Flash, Capture, CheckReport, HandleError
  <2>2. Due' = Due /\ Open' = Open /\ Outcome' = Outcome
    BY <2>1 DEF Due, Current, Busy, Open, Outcome, Running
  <2> QED
    BY <1>0, <2>1, <2>2, SameFiles, Unseen
<1>4. CASE SaveSummary \/ SaveReps \/ Exhausted
  BY <1>0, <1>4, SaveSummaryRefines, SaveRepsRefines, ExhaustedRefines
     DEF Promise!Next, TypeInv, SaveSummary, SaveReps, Exhausted, Busy
<1>5. CASE Exit \/ Crash
  BY <1>5, ExitRefines, CrashRefines DEF Promise!Next
<1>6. CASE \E sel \in SUBSET Kernels : Start(sel)
  BY <1>6, StartRefines DEF Promise!Next
<1>7. CASE Unplug \/ Plug \/ UNCHANGED vars
  <2>1. UNCHANGED <<pc, exitCode, selected, pending, cur, failures, summary, repetitions>>
        /\ (faults' = faults \/ Fault)
    BY <1>7 DEF Unplug, Plug, vars
  <2>2. Due' = Due /\ Open' = Open /\ Outcome' = Outcome
    BY <2>1 DEF Due, Current, Busy, Open, Outcome, Running
  <2> QED
    BY <1>0, <2>1, <2>2, SameFiles, Unseen
<1> QED
  BY <1>1, <1>2, <1>3, <1>4, <1>5, <1>6, <1>7 DEF Next, Process

LEMMA InitRefines == Init => Promise!Init
<1> SUFFICES ASSUME Init PROVE Promise!Init
  OBVIOUS
<1>1. Recorded = {} /\ Sampled = {} /\ Due = {} /\ Open = {} /\ Outcome = "idle"
  BY DEF Init, Recorded, Sampled, Due, Running, Open, Outcome
<1>2. GaveUp = FALSE /\ selected = {} /\ faults = 0
  BY DEF Init, GaveUp
<1> QED
  BY <1>1, <1>2 DEF Promise!Init

\* For any number of kernels, retries and faults, what run_all_benchmarks.py does
\* is what a resumable sweep promises.
THEOREM Implementation == Spec => ImplementsSweep
<1>1. IInv /\ IInv' /\ [Next]_vars => [Promise!Next]_(Promise!sweepVars)
  BY StepRefines
<1> QED
  BY <1>1, InitRefines, Invariance, PTL DEF Spec, ImplementsSweep, Promise!SafeSpec
-----------------------------------------------------------------------------
(* What the promise is worth: no fault costs more than one kernel's samples. *)

LEMMA AtMostOneMore ==
  ASSUME NEW A, NEW B, NEW x, IsFiniteSet(A), B \subseteq A \cup {x}
  PROVE  Cardinality(B) \in Nat /\ Cardinality(B) <= Cardinality(A) + 1
<1>1. /\ IsFiniteSet(A \cup {x}) /\ Cardinality(A) \in Nat
      /\ Cardinality(A \cup {x}) \in {Cardinality(A), Cardinality(A) + 1}
  BY FS_AddElement, FS_CardinalityType
<1>2. Cardinality(B) <= Cardinality(A \cup {x}) /\ Cardinality(B) \in Nat
  BY <1>1, FS_Subset, FS_CardinalityType
<1> QED
  BY <1>1, <1>2

LEMMA OneCardinality == \A S : Promise!Cardinality(S) = Cardinality(S)
BY DEF Promise!Cardinality, Cardinality, Promise!IsFiniteSet, IsFiniteSet

\* The kernels with a row but without samples, and what a step does to them.
Losses == (Recorded \ Sampled) \ Open

LEMMA LossesFinite ==
  /\ IsFiniteSet(Losses) /\ Cardinality(Losses) \in Nat
  /\ \A B \in SUBSET Losses : Cardinality(B) <= Cardinality(Losses) /\ Cardinality(B) \in Nat
<1>1. IsFiniteSet(Kernels)
  BY SweepAssumption, FS_Interval DEF Kernels
<1>2. IsFiniteSet(Losses)
  BY <1>1, FS_Subset DEF Losses, Recorded
<1> QED
  BY <1>2, FS_Subset, FS_CardinalityType

LEMMA LossCount ==
  /\ Promise!LossesAreFaults <=> Cardinality(Losses) <= faults
  /\ Promise!LossesAreFaults' <=> Cardinality(Losses') <= faults'
BY OneCardinality DEF Promise!LossesAreFaults, Losses

\* A write that is cut off adds at most one kernel to them.
LEMMA CutWriteLoses ==
  ASSUME Promise!SweepInv, Promise!CutWrite, Open' = {}
  PROVE  Cardinality(Losses') \in Nat /\ Cardinality(Losses') <= Cardinality(Losses) + 1
<1>1. PICK x : Losses' \subseteq Losses \cup {x}
  <2>1. CASE Open = {} /\ \E k \in Due : Recorded' = Recorded \cup {k} /\ Sampled' = Sampled
    BY <2>1 DEF Losses
  <2>2. CASE /\ Recorded' = Recorded
             /\ Sampled' = Sampled \/ Sampled' = Sampled \cup Open
    BY <2>2 DEF Losses, Promise!SweepInv
  <2> QED
    BY <2>1, <2>2 DEF Promise!CutWrite
<1> QED
  BY <1>1, LossesFinite, AtMostOneMore

LEMMA PromiseStart == Promise!Init => Promise!SweepInv
<1> SUFFICES ASSUME Promise!Init PROVE Promise!SweepInv
  OBVIOUS
<1>1. Cardinality(Losses) <= faults
  BY FS_EmptySet DEF Promise!Init, Losses
<1> QED
  BY <1>1, LossCount DEF Promise!Init, Promise!SweepInv, Promise!DoneMeansRecorded

LEMMA PromiseStep ==
  ASSUME Promise!SweepInv, [Promise!Next]_(Promise!sweepVars)
  PROVE  Promise!SweepInv'
<1> USE DEF Promise!SweepInv, Promise!DoneMeansRecorded
<1>0. Cardinality(Losses) <= faults /\ Cardinality(Losses) \in Nat
  BY LossesFinite, LossCount
<1>1. ASSUME Losses' \subseteq Losses, faults' \in {faults, faults + 1}
      PROVE  Promise!LossesAreFaults'
  BY <1>0, <1>1, LossesFinite, LossCount
<1>2. ASSUME NEW sel \in SUBSET Kernels, Promise!Begin(sel) PROVE Promise!SweepInv'
  <2>1. Open = {} /\ Losses' = Losses
    BY <1>2 DEF Promise!Begin, Losses
  <2> QED
    BY <1>1, <1>2, <2>1 DEF Promise!Begin
<1>3. ASSUME NEW k \in Kernels, Promise!Row(k) PROVE Promise!SweepInv'
  <2>1. Losses' \subseteq Losses
    BY <1>3 DEF Promise!Row, Losses
  <2>2. Outcome = "running" /\ k \in Due' /\ k \in Recorded'
    BY <1>3 DEF Promise!Row
  <2> QED
    BY <1>1, <1>3, <2>1, <2>2 DEF Promise!Row
<1>4. ASSUME NEW k \in Kernels, Promise!Samples(k) PROVE Promise!SweepInv'
  <2>1. Losses' \subseteq Losses
    BY <1>4 DEF Promise!Samples, Losses
  <2> QED
    BY <1>1, <1>4, <2>1 DEF Promise!Samples
<1>5. ASSUME NEW k \in Kernels, Promise!GiveUp(k) PROVE Promise!SweepInv'
  <2>1. Losses' = Losses
    BY <1>5 DEF Promise!GiveUp, Losses
  <2> QED
    BY <1>1, <1>5, <2>1 DEF Promise!GiveUp
<1>6. CASE Promise!Finish
  <2>1. Losses' = Losses
    BY <1>6 DEF Promise!Finish, Losses
  <2> QED
    BY <1>1, <1>6, <2>1 DEF Promise!Finish
<1>7. CASE Promise!Mishap \/ UNCHANGED Promise!sweepVars
  <2>1. Losses' = Losses
    BY <1>7 DEF Promise!Mishap, Promise!sweepVars, Losses
  <2> QED
    BY <1>1, <1>7, <2>1 DEF Promise!Mishap, Promise!sweepVars
<1>8. CASE Promise!FailedWrite \/ Promise!Stop
  <2>1. Promise!CutWrite /\ Open' = {} /\ faults' = faults + 1 /\ selected' = selected
    BY <1>8 DEF Promise!FailedWrite, Promise!Stop
  <2>2. Cardinality(Losses') \in Nat /\ Cardinality(Losses') <= Cardinality(Losses) + 1
    BY <2>1, CutWriteLoses
  <2>3. Promise!LossesAreFaults'
    BY <1>0, <2>1, <2>2, LossCount
  <2>4. Recorded \subseteq Recorded' /\ Recorded' \subseteq Kernels
    BY <2>1 DEF Promise!CutWrite
  <2>5. CASE Promise!FailedWrite
    BY <2>1, <2>3, <2>4, <2>5 DEF Promise!FailedWrite
  <2>6. CASE Promise!Stop
    BY <2>1, <2>3, <2>4, <2>6 DEF Promise!Stop
  <2> QED
    BY <1>8, <2>5, <2>6
<1> QED
  BY <1>2, <1>3, <1>4, <1>5, <1>6, <1>7, <1>8 DEF Promise!Next

\* Over all runs, retries, kills and resumptions no more kernels have a row without
\* their samples than faults have happened.
THEOREM EachLossIsAFault == Spec => []Promise!LossesAreFaults
<1>1. Promise!SweepInv => Promise!LossesAreFaults
  BY DEF Promise!SweepInv
<1> QED
  BY <1>1, PromiseStart, PromiseStep, Implementation, PTL DEF ImplementsSweep, Promise!SafeSpec
=============================================================================
