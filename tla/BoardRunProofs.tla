---------------------------- MODULE BoardRunProofs ----------------------------
(***************************************************************************)
(* Proofs about BoardRun, for any number of variants, repetitions, versions *)
(* and sweeps.                                                             *)
(***************************************************************************)
EXTENDS BoardRun, TLAPS

USE BoardAssumption DEF Presets

-----------------------------------------------------------------------------
(* Sequences of lines *)

\* Every line is of sweep k and image i.
AllOf(s, k, i) == \A n \in 1 .. Len(s) : s[n].sweep = k /\ s[n].image = i

\* The repetitions from the first on, each once, of one image; only the last line
\* may be cut.
FromTheFirst(s) ==
  \A n \in 1 .. Len(s) :
    /\ s[n].rep = n - 1
    /\ s[n].image = s[1].image
    /\ ~s[n].exact => n = Len(s)

AllExact(s) == \A n \in 1 .. Len(s) : s[n].exact

\* A log that grows by the next line of the same sweep and image stays a run from
\* the first repetition on.
LEMMA AppendLine ==
  ASSUME NEW s \in Seq(Lines), NEW l \in Lines,
         AllOf(s, l.sweep, l.image), FromTheFirst(s), AllExact(s), l.rep = Len(s)
  PROVE  /\ Append(s, l) \in Seq(Lines)
         /\ Append(s, l) # <<>>
         /\ Len(Append(s, l)) = Len(s) + 1
         /\ AllOf(Append(s, l), l.sweep, l.image)
         /\ FromTheFirst(Append(s, l))
         /\ l.exact => AllExact(Append(s, l))
<1> DEFINE t == Append(s, l)
<1>1. t \in Seq(Lines) /\ Len(t) = Len(s) + 1
  OBVIOUS
<1>3. \A n \in 1 .. Len(t) : IF n = Len(s) + 1 THEN t[n] = l ELSE n \in 1 .. Len(s) /\ t[n] = s[n]
  OBVIOUS
<1> HIDE DEF t
<1>2. t # <<>>
  <2> SUFFICES ASSUME t = <<>> PROVE FALSE
    OBVIOUS
  <2>1. Len(t) = 0
    OBVIOUS
  <2> QED
    BY <1>1, <2>1
<1>4. AllOf(t, l.sweep, l.image)
  BY <1>1, <1>3 DEF AllOf
<1>5. \A n \in 1 .. Len(t) : t[n].image = t[1].image
  BY <1>1, <1>4 DEF AllOf
<1>6. FromTheFirst(t)
  BY <1>1, <1>3, <1>5 DEF FromTheFirst, AllExact
<1>7. l.exact => AllExact(t)
  BY <1>1, <1>3 DEF AllExact
<1> QED
  BY <1>2, <1>4, <1>6, <1>7 DEF t

\* The empty log is any kind of run.
LEMMA EmptyLog ==
  /\ <<>> \in Seq(Lines) /\ FromTheFirst(<<>>) /\ AllExact(<<>>)
  /\ \A k, i : AllOf(<<>>, k, i)
BY DEF FromTheFirst, AllExact, AllOf
-----------------------------------------------------------------------------
(* The inductive invariant *)

\* Where the scripts are, and how many rows the summary has.
Phase ==
  /\ run \in OpenOcd \cup {"lsusb", "parse"} => all = "sweep"
  /\ all # "idle" => sweep >= 1
  /\ all = "sweep" => Len(rows) = preset - 1
  /\ all = "report" => Len(rows) = NumPresets

\* Semihosting is handled from the arming on, and from before it until the new
\* image is started nothing runs that could print.
Quiet ==
  /\ armed => run \in {"program", "reset_run", "attached"}
  /\ run \in {"arm", "program", "reset_run"} => target = "halted"
  /\ run \in OpenOcd \ {"attached"} => log[preset] = <<>>
  /\ run \in {"reset_run", "attached"} => flash = elf[preset]

\* What the current run has read, and what it made of it.
Current ==
  /\ run = "attached" =>
       Len(log[preset]) = printed /\ AllExact(log[preset]) /\ AllOf(log[preset], sweep, elf[preset])
  /\ run = "parse" => AllOf(log[preset], sweep, elf[preset])
  /\ all = "sweep" /\ run = "passed" => AllOf(cycles[preset], sweep, elf[preset])

\* The rows so far.
Rows == all # "idle" => \A p \in 1 .. Len(rows) : AllOf(rows[p], sweep, elf[p])

Files == \A p \in Presets : FromTheFirst(log[p]) /\ FromTheFirst(cycles[p])

IInv == TypeOK /\ Phase /\ Quiet /\ Current /\ Rows /\ Files

\* A build is an image of its preset, or none.
LEMMA BuiltTyped ==
  ASSUME TypeOK, NEW p \in Presets
  PROVE  Built(p) \in Images \cup {None}
BY DEF TypeOK, Built, Images
-----------------------------------------------------------------------------
(* Initial state and steps *)

LEMMA InitIInv == Init => IInv
<1> SUFFICES ASSUME Init PROVE IInv
  OBVIOUS
<1>1. TypeOK
  <2>1. <<>> \in Seq(Seq(Lines))
    OBVIOUS
  <2>2. source \in Versions /\ sweep \in 0 .. MaxSweeps /\ preset \in Presets /\ printed \in 0 .. InnerReps
    BY DEF Init
  <2>3. log \in [Presets -> Seq(Lines)] /\ cycles \in [Presets -> Seq(Lines)]
    BY EmptyLog DEF Init
  <2> QED
    BY <2>1, <2>2, <2>3 DEF Init, TypeOK, Points
<1>2. Phase /\ Quiet /\ Current /\ Rows
  BY DEF Init, Phase, Quiet, Current, Rows, OpenOcd
<1>3. Files
  BY EmptyLog DEF Init, Files
<1> QED
  BY <1>1, <1>2, <1>3 DEF IInv

\* The user edits the source.
LEMMA EditKeeps ==
  ASSUME IInv, Edit
  PROVE  IInv'
<1>1. TypeOK'
  BY DEF Edit, board, scripts, IInv, TypeOK
<1>2. Phase' /\ Quiet'
  BY DEF Edit, board, scripts, IInv, Phase, Quiet
<1>3. Current' /\ Rows'
  BY DEF Edit, board, scripts, IInv, Current, Rows
<1>4. Files'
  BY DEF Edit, board, scripts, IInv, Files
<1> QED
  BY <1>1, <1>2, <1>3, <1>4 DEF IInv

\* The user rebuilds a variant.
LEMMA RebuildKeeps ==
  ASSUME IInv, NEW p \in Presets, Rebuild(p)
  PROVE  IInv'
<1>1. TypeOK'
  BY BuiltTyped DEF Rebuild, board, scripts, IInv, TypeOK
<1>2. Phase' /\ Quiet'
  BY DEF Rebuild, OpenOcd, board, scripts, IInv, Phase, Quiet
<1>3. Current' /\ Rows'
  BY DEF Rebuild, OpenOcd, scripts, IInv, Phase, Current, Rows
<1>4. Files'
  BY DEF Rebuild, board, scripts, IInv, Files
<1> QED
  BY <1>1, <1>2, <1>3, <1>4 DEF IInv

\* A sweep starts.
LEMMA StartSweepKeeps ==
  ASSUME IInv, StartSweep
  PROVE  IInv'
<1>1. TypeOK'
  BY DEF StartSweep, copy, board, IInv, TypeOK, Points
<1>2. Phase' /\ Quiet'
  BY DEF StartSweep, OpenOcd, board, IInv, TypeOK, Phase, Quiet
<1>3. Current' /\ Rows'
  BY DEF StartSweep, Current, Rows
<1>4. Files'
  BY DEF StartSweep, copy, board, IInv, Files
<1> QED
  BY <1>1, <1>2, <1>3, <1>4 DEF IInv

\* A run has ended, its row is taken.
LEMMA NextPresetKeeps ==
  ASSUME IInv, NextPreset
  PROVE  IInv'
<1>1. TypeOK'
  <2>1. Headline \in Seq(Lines)
    BY EmptyLog DEF Headline, IInv, TypeOK
  <2>2. rows' \in Seq(Seq(Lines))
    BY <2>1 DEF NextPreset, IInv, TypeOK
  <2> QED
    BY <2>2 DEF NextPreset, copy, board, IInv, TypeOK, Points
<1>2. Phase' /\ Quiet'
  BY DEF NextPreset, OpenOcd, board, IInv, TypeOK, Phase, Quiet
<1>3. Current' /\ Rows'
  <2>1. AllOf(Headline, sweep, elf[preset])
    BY EmptyLog DEF NextPreset, Headline, IInv, Current
  <2>2. /\ rows \in Seq(Seq(Lines)) /\ Len(rows) = preset - 1 /\ preset \in 1 .. NumPresets
        /\ rows' = Append(rows, Headline) /\ elf' = elf /\ sweep' = sweep /\ all = "sweep"
    BY DEF NextPreset, copy, IInv, TypeOK, Phase
  <2>3. Headline \in Seq(Lines)
    BY EmptyLog DEF Headline, IInv, TypeOK
  <2>4. Len(rows') = preset /\ \A p \in 1 .. preset : rows'[p] = IF p = preset THEN Headline ELSE rows[p]
    BY <2>2, <2>3
  <2>5. \A p \in 1 .. preset : AllOf(rows'[p], sweep, elf[p])
    BY <2>1, <2>2, <2>4 DEF IInv, Rows
  <2>6. Rows'
    BY <2>2, <2>4, <2>5 DEF Rows, AllOf
  <2>7. Current'
    BY DEF NextPreset, copy, board, IInv, Current
  <2> QED
    BY <2>6, <2>7
<1>4. Files'
  BY DEF NextPreset, copy, board, IInv, Files
<1> QED
  BY <1>1, <1>2, <1>3, <1>4 DEF IInv

\* The summary is written.
LEMMA ReportKeeps ==
  ASSUME IInv, Report
  PROVE  IInv'
<1>1. TypeOK'
  BY DEF Report, copy, board, IInv, TypeOK
<1>2. Phase' /\ Quiet'
  BY DEF Report, copy, board, IInv, Phase, Quiet
<1>3. Current' /\ Rows'
  BY DEF Report, copy, board, IInv, Current, Rows
<1>4. Files'
  BY DEF Report, copy, board, IInv, Files
<1> QED
  BY <1>1, <1>2, <1>3, <1>4 DEF IInv

\* The image is built if there is none.
LEMMA EnsureBuildKeeps ==
  ASSUME IInv, EnsureBuild
  PROVE  IInv'
<1>1. TypeOK'
  BY BuiltTyped DEF EnsureBuild, board, ElfPath, IInv, TypeOK, Points
<1>2. Phase' /\ Quiet'
  BY DEF EnsureBuild, OpenOcd, board, IInv, Phase, Quiet
<1>3. Current' /\ Rows'
  BY DEF EnsureBuild, IInv, Phase, Current, Rows
<1>4. Files'
  BY DEF EnsureBuild, board, ElfPath, IInv, Files
<1> QED
  BY <1>1, <1>2, <1>3, <1>4 DEF IInv

\* The log is emptied.
LEMMA OpenLogKeeps ==
  ASSUME IInv, OpenLog
  PROVE  IInv'
<1>1. TypeOK'
  BY DEF OpenLog, Step, OpenOcd, copy, board, IInv, TypeOK, Points
<1>2. Phase' /\ Quiet'
  BY DEF OpenLog, Step, board, IInv, TypeOK, Phase, Quiet
<1>3. Current' /\ Rows'
  BY DEF OpenLog, Step, copy, IInv, Current, Rows
<1>4. Files'
  BY EmptyLog DEF OpenLog, copy, board, IInv, Files
<1> QED
  BY <1>1, <1>2, <1>3, <1>4 DEF IInv

\* No probe.
LEMMA NoStLinkKeeps ==
  ASSUME IInv, NoStLink
  PROVE  IInv'
<1>1. TypeOK'
  BY DEF NoStLink, Step, copy, board, IInv, TypeOK, Points
<1>2. Phase' /\ Quiet'
  BY DEF NoStLink, Step, OpenOcd, board, IInv, Phase, Quiet
<1>3. Current' /\ Rows'
  BY DEF NoStLink, Step, copy, IInv, Current, Rows
<1>4. Files'
  BY DEF NoStLink, copy, board, IInv, Files
<1> QED
  BY <1>1, <1>2, <1>3, <1>4 DEF IInv

\* OpenOCD attaches.
LEMMA AttachKeeps ==
  ASSUME IInv, Attach
  PROVE  IInv'
<1>1. TypeOK'
  BY DEF Attach, Step, OpenOcd, copy, IInv, TypeOK, Points
<1>2. Phase' /\ Quiet'
  BY DEF Attach, Step, OpenOcd, IInv, Phase, Quiet
<1>3. Current' /\ Rows'
  BY DEF Attach, Step, copy, IInv, Current, Rows
<1>4. Files'
  BY DEF Attach, copy, IInv, Files
<1> QED
  BY <1>1, <1>2, <1>3, <1>4 DEF IInv

\* The old image starts.
LEMMA ResetOldKeeps ==
  ASSUME IInv, ResetOld
  PROVE  IInv'
<1>1. TypeOK'
  BY DEF ResetOld, Step, OpenOcd, copy, IInv, TypeOK, Points
<1>2. Phase' /\ Quiet'
  BY DEF ResetOld, Step, OpenOcd, IInv, Phase, Quiet
<1>3. Current' /\ Rows'
  BY DEF ResetOld, Step, copy, IInv, Current, Rows
<1>4. Files'
  BY DEF ResetOld, copy, IInv, Files
<1> QED
  BY <1>1, <1>2, <1>3, <1>4 DEF IInv

\* The old image is halted.
LEMMA HaltKeeps ==
  ASSUME IInv, Halt
  PROVE  IInv'
<1>1. TypeOK'
  BY DEF Halt, Step, OpenOcd, copy, IInv, TypeOK, Points
<1>2. Phase' /\ Quiet'
  BY DEF Halt, Step, OpenOcd, IInv, Phase, Quiet
<1>3. Current' /\ Rows'
  BY DEF Halt, Step, copy, IInv, Current, Rows
<1>4. Files'
  BY DEF Halt, copy, IInv, Files
<1> QED
  BY <1>1, <1>2, <1>3, <1>4 DEF IInv

\* OpenOCD handles semihosting from here on.
LEMMA ArmSemihostingKeeps ==
  ASSUME IInv, ArmSemihosting
  PROVE  IInv'
<1>1. TypeOK'
  BY DEF ArmSemihosting, Step, OpenOcd, copy, IInv, TypeOK, Points
<1>2. Phase' /\ Quiet'
  <2>1. Phase'
    BY DEF ArmSemihosting, Step, OpenOcd, IInv, Phase
  <2> QED
    BY <2>1 DEF ArmSemihosting, Step, OpenOcd, IInv, Quiet
<1>3. Current' /\ Rows'
  BY DEF ArmSemihosting, Step, copy, IInv, Current, Rows
<1>4. Files'
  BY DEF ArmSemihosting, copy, IInv, Files
<1> QED
  BY <1>1, <1>2, <1>3, <1>4 DEF IInv

\* The image of the preset is flashed.
LEMMA ProgramKeeps ==
  ASSUME IInv, Program
  PROVE  IInv'
<1>1. TypeOK'
  BY DEF Program, Step, OpenOcd, copy, ElfPath, IInv, TypeOK, Points
<1>2. Phase' /\ Quiet'
  BY DEF Program, Step, OpenOcd, copy, ElfPath, IInv, Phase, Quiet
<1>3. Current' /\ Rows'
  BY DEF Program, Step, copy, IInv, Current, Rows
<1>4. Files'
  BY DEF Program, copy, ElfPath, IInv, TypeOK, Files
<1> QED
  BY <1>1, <1>2, <1>3, <1>4 DEF IInv

\* It is started.
LEMMA ResetRunKeeps ==
  ASSUME IInv, ResetRun
  PROVE  IInv'
<1>1. TypeOK'
  BY DEF ResetRun, Step, OpenOcd, copy, IInv, TypeOK, Points
<1>2. Phase' /\ Quiet'
  BY DEF ResetRun, Step, OpenOcd, copy, IInv, Phase, Quiet
<1>3. Current' /\ Rows'
  <2>1. log'[preset'] = <<>> /\ printed' = 0 /\ run' = "attached"
    BY DEF ResetRun, Step, OpenOcd, IInv, Quiet
  <2>2. Current'
    BY <2>1, EmptyLog DEF Current
  <2> QED
    BY <2>2 DEF ResetRun, copy, IInv, Rows
<1>4. Files'
  BY DEF ResetRun, copy, IInv, Files
<1> QED
  BY <1>1, <1>2, <1>3, <1>4 DEF IInv

\* OpenOCD ends with an error.
LEMMA OpenOcdFailsKeeps ==
  ASSUME IInv, OpenOcdFails
  PROVE  IInv'
<1>1. TypeOK'
  BY DEF OpenOcdFails, copy, IInv, TypeOK, Points
<1>2. Phase' /\ Quiet'
  BY DEF OpenOcdFails, OpenOcd, IInv, Phase, Quiet
<1>3. Current' /\ Rows'
  BY DEF OpenOcdFails, copy, IInv, Current, Rows
<1>4. Files'
  BY DEF OpenOcdFails, copy, IInv, Files
<1> QED
  BY <1>1, <1>2, <1>3, <1>4 DEF IInv

\* A line can only be heard from the new image, and it is the next one of its run.
LEMMA LineHeard ==
  ASSUME IInv, CanPrint, armed, NEW whole \in BOOLEAN
  PROVE  LET t == Append(log[preset], LineNow(whole)) IN
         /\ run = "attached" /\ all = "sweep"
         /\ t \in Seq(Lines) /\ t # <<>> /\ Len(t) = printed + 1
         /\ AllOf(t, sweep, elf[preset]) /\ FromTheFirst(t)
         /\ whole => AllExact(t)
<1> DEFINE s == log[preset]
           l == LineNow(whole)
<1>1. run = "attached" /\ all = "sweep"
  BY DEF IInv, Quiet, Phase, CanPrint, OpenOcd
<1>2. flash = elf[preset] /\ flash \in Images /\ printed \in 0 .. InnerReps - 1
  BY <1>1 DEF IInv, TypeOK, Quiet, CanPrint
<1>3. sweep \in 1 .. MaxSweeps
  BY <1>1 DEF IInv, TypeOK, Phase
<1>4. l \in Lines /\ l.sweep = sweep /\ l.image = elf[preset] /\ l.rep = printed /\ l.exact = whole
  BY <1>2, <1>3 DEF LineNow, Lines
<1>5. s \in Seq(Lines) /\ preset \in Presets
  BY DEF IInv, TypeOK
<1>6. Len(s) = printed /\ AllExact(s) /\ AllOf(s, l.sweep, l.image)
  BY <1>1, <1>4 DEF IInv, Current
<1>7. FromTheFirst(s)
  BY <1>5 DEF IInv, Files
<1> HIDE DEF s, l
<1>8. /\ Append(s, l) \in Seq(Lines) /\ Append(s, l) # <<>> /\ Len(Append(s, l)) = Len(s) + 1
      /\ AllOf(Append(s, l), l.sweep, l.image) /\ FromTheFirst(Append(s, l))
      /\ (l.exact => AllExact(Append(s, l)))
  BY <1>4, <1>5, <1>6, <1>7, AppendLine
<1> QED
  BY <1>1, <1>4, <1>6, <1>8 DEF s, l

\* OpenOCD is killed: what is in the log is the beginning of a run.
LEMMA KilledLog ==
  ASSUME IInv, KillOpenOcd
  PROVE  /\ log' \in [Presets -> Seq(Lines)]
         /\ \A p \in Presets \ {preset} : log'[p] = log[p]
         /\ FromTheFirst(log'[preset])
         /\ run \in OpenOcd => AllOf(log'[preset], sweep, elf[preset])
<1> DEFINE t == Append(log[preset], LineNow(FALSE))
<1>1. CASE UNCHANGED log
  <2>1. run \in OpenOcd => log[preset] = <<>> \/ AllOf(log[preset], sweep, elf[preset])
    BY DEF IInv, Quiet, Current
  <2> QED
    BY <1>1, <2>1, EmptyLog DEF IInv, TypeOK, Files
<1>2. CASE CanPrint /\ armed /\ log' = [log EXCEPT ![preset] = t]
  <2>1. t \in Seq(Lines) /\ AllOf(t, sweep, elf[preset]) /\ FromTheFirst(t)
    BY <1>2, LineHeard
  <2> HIDE DEF t
  <2> QED
    BY <1>2, <2>1 DEF IInv, TypeOK
<1> QED
  BY <1>1, <1>2 DEF KillOpenOcd

\* The time-out kills OpenOCD.
LEMMA TimeoutKeeps ==
  ASSUME IInv, Timeout
  PROVE  IInv'
<1>1. /\ run \in OpenOcd /\ run' = "parse" /\ armed' = FALSE /\ all = "sweep"
      /\ flash' \in {flash, None}
      /\ UNCHANGED <<copy, target, printed, all, preset, sweep, cycles, rows>>
  BY DEF Timeout, KillOpenOcd, IInv, Phase
<1>2. /\ log' \in [Presets -> Seq(Lines)]
      /\ \A p \in Presets \ {preset} : log'[p] = log[p]
      /\ AllOf(log'[preset], sweep, elf[preset]) /\ FromTheFirst(log'[preset])
  BY <1>1, KilledLog DEF Timeout
<1>3. TypeOK'
  BY <1>1, <1>2 DEF copy, IInv, TypeOK, Points
<1>4. Phase' /\ Quiet' /\ Current' /\ Rows'
  BY <1>1, <1>2 DEF copy, IInv, Phase, Quiet, Current, Rows, OpenOcd
<1>5. Files'
  BY <1>1, <1>2 DEF IInv, Files
<1> QED
  BY <1>3, <1>4, <1>5 DEF IInv

\* An interrupt ends the sweep.
LEMMA InterruptKeeps ==
  ASSUME IInv, Interrupt
  PROVE  IInv'
<1>1. /\ run' = "failed" /\ armed' = FALSE /\ all' = "idle"
      /\ flash' \in {flash, None}
      /\ UNCHANGED <<copy, target, printed, preset, sweep, cycles, rows>>
  BY DEF Interrupt, KillOpenOcd
<1>2. /\ log' \in [Presets -> Seq(Lines)]
      /\ \A p \in Presets \ {preset} : log'[p] = log[p]
      /\ FromTheFirst(log'[preset])
  BY KilledLog DEF Interrupt
<1>3. TypeOK'
  BY <1>1, <1>2 DEF copy, IInv, TypeOK, Points
<1>4. Phase' /\ Quiet' /\ Current' /\ Rows'
  BY <1>1 DEF Phase, Quiet, Current, Rows, OpenOcd
<1>5. Files'
  BY <1>1, <1>2 DEF IInv, Files
<1> QED
  BY <1>3, <1>4, <1>5 DEF IInv

\* The lines of the log become the headline.
LEMMA ParseKeeps ==
  ASSUME IInv, Parse
  PROVE  IInv'
<1>1. TypeOK'
  BY DEF Parse, copy, board, IInv, TypeOK, Points
<1>2. Phase' /\ Quiet'
  BY DEF Parse, board, IInv, Phase, Quiet, OpenOcd
<1>3. Current' /\ Rows'
  BY DEF Parse, copy, IInv, TypeOK, Current, Rows
<1>4. Files'
  BY DEF Parse, copy, board, IInv, TypeOK, Files
<1> QED
  BY <1>1, <1>2, <1>3, <1>4 DEF IInv

\* The running image writes a line.
LEMMA WriteLineKeeps ==
  ASSUME IInv, WriteLine
  PROVE  IInv'
<1> DEFINE t == Append(log[preset], LineNow(TRUE))
<1>1. CanPrint /\ UNCHANGED <<copy, flash, armed, all, preset, run, sweep, cycles, rows>>
  BY DEF WriteLine
<1>2. CASE armed
  <2>1. log' = [log EXCEPT ![preset] = t] /\ printed' = printed + 1 /\ target' = target
    BY <1>2 DEF WriteLine
  <2>2. /\ run = "attached" /\ t \in Seq(Lines) /\ Len(t) = printed + 1 /\ AllExact(t)
        /\ AllOf(t, sweep, elf[preset]) /\ FromTheFirst(t)
    BY <1>1, <1>2, LineHeard
  <2> HIDE DEF t
  <2>3. TypeOK'
    BY <1>1, <2>1, <2>2 DEF copy, CanPrint, IInv, TypeOK
  <2>4. log'[preset] = t /\ \A p \in Presets \ {preset} : log'[p] = log[p]
    BY <2>1 DEF IInv, TypeOK
  <2>5. Phase' /\ Quiet' /\ Current' /\ Rows'
    BY <1>1, <2>1, <2>2, <2>4 DEF copy, IInv, Phase, Quiet, Current, Rows
  <2>6. Files'
    BY <1>1, <2>2, <2>4 DEF copy, IInv, Files
  <2> QED
    BY <2>3, <2>5, <2>6 DEF IInv
<1>3. CASE ~armed
  <2>1. target' = "halted" /\ UNCHANGED <<log, printed>>
    BY <1>3 DEF WriteLine
  <2>2. TypeOK'
    BY <1>1, <2>1 DEF copy, IInv, TypeOK
  <2>3. Phase' /\ Quiet' /\ Current' /\ Rows' /\ Files'
    BY <1>1, <2>1 DEF copy, IInv, Phase, Quiet, Current, Rows, Files
  <2> QED
    BY <2>2, <2>3 DEF IInv
<1> QED
  BY <1>2, <1>3

\* Every step keeps the invariant.
LEMMA NextKeeps ==
  ASSUME IInv, [Next]_vars
  PROVE  IInv'
<1>1. CASE UNCHANGED vars
  BY <1>1 DEF vars, copy, board, scripts, IInv, TypeOK, Phase, Quiet, Current, Rows, Files
<1>2. CASE TestBoardRun
  BY <1>2, EnsureBuildKeeps, OpenLogKeeps, NoStLinkKeeps, AttachKeeps, ResetOldKeeps, HaltKeeps,
     ArmSemihostingKeeps, ProgramKeeps, ResetRunKeeps, OpenOcdFailsKeeps, TimeoutKeeps, ParseKeeps
  DEF TestBoardRun
<1>3. CASE Edit \/ (\E p \in Presets : Rebuild(p)) \/ StartSweep \/ NextPreset \/ Report \/ WriteLine
           \/ Interrupt
  BY <1>3, EditKeeps, RebuildKeeps, StartSweepKeeps, NextPresetKeeps, ReportKeeps, WriteLineKeeps,
     InterruptKeeps
<1> QED
  BY <1>1, <1>2, <1>3 DEF Next
-----------------------------------------------------------------------------
(* Theorems *)

\* The invariant holds of every reachable state.
THEOREM Invariance == Spec => []IInv
BY InitIInv, NextKeeps, PTL DEF Spec

\* Every variable of the board sweep keeps its type.
THEOREM TypeCorrect == Spec => []TypeOK
<1>1. IInv => TypeOK
  BY DEF IInv
<1> QED
  BY <1>1, Invariance, PTL

\* Every row of a finished summary is FAIL or made of lines this sweep read from
\* the image of that variant (test_board_run_all.py, main).
THEOREM SummaryOfThisSweep == Spec => []RowsAreOfThisSweep
<1>1. IInv => RowsAreOfThisSweep
  BY DEF IInv, Phase, Rows, AllOf, RowsAreOfThisSweep
<1> QED
  BY <1>1, Invariance, PTL

\* Every headline averages the first repetitions of one run, each once, all but
\* the last with all their digits (test_board_run.py, main).
THEOREM HeadlinesArePrefixes == Spec => []HeadlineIsAPrefix
<1>1. IInv => HeadlineIsAPrefix
  BY DEF IInv, Files, FromTheFirst, HeadlineIsAPrefix
<1> QED
  BY <1>1, Invariance, PTL
=============================================================================
