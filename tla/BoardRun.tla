------------------------------- MODULE BoardRun -------------------------------
(***************************************************************************)
(* The sweep of one kernel over the hardware variants on the STM32 board:  *)
(* test/test_board_run_all.py, which runs test/test_board_run.py once per  *)
(* preset; the build it triggers (test/_common.py ensure_build, the linker *)
(* script's assertions, scripts/check_kernel_size.py); OpenOCD with its    *)
(* command list; the board, which keeps what was flashed and may be        *)
(* printing at any time; and the user, who edits the kernel and rebuilds   *)
(* between sweeps.                                                         *)
(*                                                                         *)
(* An image is the preset and the version of the source it was built from. *)
(* A line is a MICROBENCH line of the swept kernel; its count is exact, or *)
(* cut when OpenOCD was killed while writing it.  A headline is the        *)
(* sequence of lines it averages.                                          *)
(***************************************************************************)
EXTENDS Integers, Sequences

CONSTANTS
  NumPresets,     \* presets 1..NumPresets, in the order of HW_PRESETS
  InnerReps,      \* INNER_REPS
  Versions,       \* versions of the source; 1 is the first
  Oversize,       \* those whose kernel or data exceeds its slot (= the board's cache)
  MaxSweeps       \* bound: sweeps

Presets == 1 .. NumPresets

ASSUME BoardAssumption ==
  /\ NumPresets \in Nat \ {0}
  /\ InnerReps \in Nat \ {0}
  /\ Versions \subseteq Nat \ {0} /\ 1 \in Versions
  /\ Oversize \subseteq Versions
  /\ MaxSweeps \in Nat

Images == [preset : Presets, source : Versions]
None == [preset |-> 0, source |-> 0]
Lines == [sweep : 1 .. MaxSweeps, image : Images, rep : 0 .. InnerReps - 1, exact : BOOLEAN]

VARIABLES
  \* the working copy
  source,         \* version of the kernel source
  allow,          \* ALLOW_KERNEL_EXCEED_ICACHE / _DCACHE
  elf,            \* build/<preset>/bin/<bench>.elf
  \* the board
  flash,          \* the image it holds; None: no image of this kernel, or a broken one
  target,         \* "halted" or "running"
  printed,        \* lines the running image has written
  armed,          \* OpenOCD is attached and handles semihosting calls
  \* the scripts
  all,            \* test_board_run_all: "idle", "sweep" or "report"
  preset,         \* the preset of the current test_board_run
  run,            \* where test_board_run is
  sweep,          \* number of the sweep (tags the lines)
  log,            \* test/logs/<preset>/<bench>.log
  cycles,         \* test/logs/<preset>/<bench>.cycles.txt; <<>> when absent
  rows            \* summary_rows: the headline of a preset, or <<>> for FAIL

copy == <<source, allow, elf>>
board == <<flash, target, printed, armed>>
scripts == <<all, preset, run, sweep, log, cycles, rows>>
vars == <<copy, board, scripts>>

\* Program points of one test_board_run, OpenOCD's commands in their order.
OpenOcd == {"init", "reset", "halt", "arm", "program", "reset_run", "attached"}
Points == {"start", "lsusb", "parse", "passed", "failed"} \cup OpenOcd

Step(from, to) == run = from /\ run' = to
-----------------------------------------------------------------------------
Init ==
  /\ source = 1
  /\ allow \in BOOLEAN
  /\ elf = [p \in Presets |-> None]
  /\ flash = None
  /\ target = "halted" /\ printed = 0 /\ armed = FALSE
  /\ all = "idle" /\ preset = 1 /\ run = "start" /\ sweep = 0
  /\ log = [p \in Presets |-> <<>>]
  /\ cycles = [p \in Presets |-> <<>>]
  /\ rows = <<>>

\* The user edits the kernel or sets an option.
Edit ==
  /\ all = "idle"
  /\ source' \in Versions /\ source' >= source
  /\ allow' \in BOOLEAN
  /\ UNCHANGED <<elf, board, scripts>>

\* ASSERT(. <= pin + max) in the board's linker script, whatever the options.
LinkAsserts(v) == v \notin Oversize

\* check_kernel_size.py, run after the link.
PostLinkCheck(v) == v \notin Oversize \/ allow

\* cmake --build: an ELF, or none when the link or the check fails.
Built(p) ==
  IF LinkAsserts(source) /\ PostLinkCheck(source)
  THEN [preset |-> p, source |-> source] ELSE None

\* The user rebuilds a preset.
Rebuild(p) ==
  /\ all = "idle"
  /\ elf' = [elf EXCEPT ![p] = Built(p)]
  /\ UNCHANGED <<source, allow, board, scripts>>
-----------------------------------------------------------------------------
(* test_board_run_all.py *)

\* stlink_visible(), then the loop over HW_PRESETS.
StartSweep ==
  /\ all = "idle" /\ sweep < MaxSweeps
  /\ all' = "sweep" /\ preset' = 1 /\ run' = "start"
  /\ sweep' = sweep + 1
  /\ rows' = <<>>
  /\ UNCHANGED <<copy, board, log, cycles>>

\* A summary that takes whatever cycles.txt is there.
AnyHeadline == cycles[preset]

\* cycles.txt when the run returned 0, FAIL otherwise.
Headline == IF run = "passed" THEN cycles[preset] ELSE <<>>

NextPreset ==
  /\ all = "sweep" /\ run \in {"passed", "failed"}
  /\ rows' = Append(rows, Headline)
  /\ IF preset < NumPresets
     THEN all' = "sweep" /\ preset' = preset + 1 /\ run' = "start"
     ELSE all' = "report" /\ UNCHANGED <<preset, run>>
  /\ UNCHANGED <<copy, board, sweep, log, cycles>>

\* The summary file and the exit code.
Report ==
  /\ all = "report"
  /\ all' = "idle"
  /\ UNCHANGED <<copy, board, preset, run, sweep, log, cycles, rows>>
-----------------------------------------------------------------------------
(* test_board_run.py, for the preset at hand *)

\* elf_path(preset, bench)
ElfPath == elf[preset]

\* ensure_build: builds only when there is no ELF.
EnsureBuild ==
  /\ all = "sweep" /\ run = "start"
  /\ LET e == IF ElfPath = None THEN Built(preset) ELSE ElfPath IN
       /\ elf' = [elf EXCEPT ![preset] = e]
       /\ run' = IF e = None THEN "failed" ELSE "lsusb"
  /\ UNCHANGED <<source, allow, board, all, preset, sweep, log, cycles, rows>>

\* A log that grows from run to run.
AppendLog ==
  /\ all = "sweep" /\ Step("lsusb", "init")
  /\ UNCHANGED <<copy, board, all, preset, sweep, log, cycles, rows>>

\* stlink_visible; then the log is opened for writing, which empties it.
OpenLog ==
  /\ all = "sweep" /\ Step("lsusb", "init")
  /\ log' = [log EXCEPT ![preset] = <<>>]
  /\ UNCHANGED <<copy, board, all, preset, sweep, cycles, rows>>

NoStLink ==
  /\ all = "sweep" /\ Step("lsusb", "failed")
  /\ UNCHANGED <<copy, board, all, preset, sweep, log, cycles, rows>>

\* init: OpenOCD attaches, semihosting is off; the target goes on as it was.
Attach ==
  /\ Step("init", "reset")
  /\ armed' = FALSE
  /\ UNCHANGED <<copy, flash, target, printed, all, preset, sweep, log, cycles, rows>>

\* reset: what the flash holds from before starts to run.
ResetOld ==
  /\ Step("reset", "halt")
  /\ target' = "running" /\ printed' = 0
  /\ UNCHANGED <<copy, flash, armed, all, preset, sweep, log, cycles, rows>>

Halt ==
  /\ Step("halt", "arm")
  /\ target' = "halted"
  /\ UNCHANGED <<copy, flash, printed, armed, all, preset, sweep, log, cycles, rows>>

ArmSemihosting ==
  /\ Step("arm", "program")
  /\ armed' = TRUE
  /\ UNCHANGED <<copy, flash, target, printed, all, preset, sweep, log, cycles, rows>>

\* program <elf> verify: resets and halts the target, then writes the flash.
Program ==
  /\ Step("program", "reset_run")
  /\ flash' = ElfPath
  /\ target' = "halted"
  /\ UNCHANGED <<copy, printed, armed, all, preset, sweep, log, cycles, rows>>

ResetRun ==
  /\ Step("reset_run", "attached")
  /\ target' = "running" /\ printed' = 0
  /\ UNCHANGED <<copy, flash, armed, all, preset, sweep, log, cycles, rows>>

\* OpenOCD ends with an error: no probe, no target, a failed write or verify.
OpenOcdFails ==
  /\ run \in OpenOcd /\ run' = "failed"
  /\ armed' = FALSE
  /\ flash' \in IF run = "program" THEN {flash, None} ELSE {flash}
  /\ UNCHANGED <<copy, target, printed, all, preset, sweep, log, cycles, rows>>

\* The line after the last one written, whole or cut.
LineNow(whole) ==
  [sweep |-> sweep, image |-> flash, rep |-> printed, exact |-> whole]

\* A program that does not stop after its last line.
NeverDone == target = "running" /\ flash # None

CanPrint == target = "running" /\ flash # None /\ printed < InnerReps

\* OpenOCD is killed, if there is one, whatever it is doing.
KillOpenOcd ==
  /\ armed' = FALSE
  /\ flash' \in IF run = "program" THEN {flash, None} ELSE {flash}
  /\ \/ UNCHANGED log
     \/ /\ CanPrint /\ armed
        /\ log' = [log EXCEPT ![preset] = Append(@, LineNow(FALSE))]

\* The time-out: return code 124, which the script takes for the normal end.
Timeout ==
  /\ run \in OpenOcd /\ run' = "parse"
  /\ KillOpenOcd
  /\ UNCHANGED <<copy, target, printed, all, preset, sweep, cycles, rows>>

\* A keyboard interrupt ends both scripts and OpenOCD.
Interrupt ==
  /\ all # "idle" /\ all' = "idle" /\ run' = "failed"
  /\ KillOpenOcd
  /\ UNCHANGED <<copy, target, printed, preset, sweep, cycles, rows>>

\* The lines averaged, and the run's verdict: some line is enough.
Parse ==
  /\ run = "parse"
  /\ IF log[preset] # <<>>
     THEN run' = "passed" /\ cycles' = [cycles EXCEPT ![preset] = log[preset]]
     ELSE run' = "failed" /\ UNCHANGED cycles
  /\ UNCHANGED <<copy, board, all, preset, sweep, log, rows>>

\* SYS_WRITE0 of the running image: OpenOCD writes the line, or nobody handles
\* the breakpoint and the target stops.
WriteLine ==
  /\ CanPrint
  /\ IF armed
     THEN /\ log' = [log EXCEPT ![preset] = Append(@, LineNow(TRUE))]
          /\ printed' = printed + 1
          /\ UNCHANGED target
     ELSE /\ target' = "halted"
          /\ UNCHANGED <<log, printed>>
  /\ UNCHANGED <<copy, flash, armed, all, preset, run, sweep, cycles, rows>>

TestBoardRun ==
  \/ EnsureBuild \/ OpenLog \/ NoStLink
  \/ Attach \/ ResetOld \/ Halt \/ ArmSemihosting \/ Program \/ ResetRun
  \/ OpenOcdFails \/ Timeout \/ Parse

Next ==
  \/ Edit \/ \E p \in Presets : Rebuild(p)
  \/ StartSweep \/ NextPreset \/ Report
  \/ TestBoardRun
  \/ WriteLine \/ Interrupt

Spec == Init /\ [][Next]_vars
-----------------------------------------------------------------------------
TypeOK ==
  /\ source \in Versions
  /\ allow \in BOOLEAN
  /\ elf \in [Presets -> Images \cup {None}]
  /\ flash \in Images \cup {None}
  /\ target \in {"halted", "running"}
  /\ printed \in 0 .. InnerReps
  /\ armed \in BOOLEAN
  /\ all \in {"idle", "sweep", "report"}
  /\ preset \in Presets
  /\ run \in Points
  /\ sweep \in 0 .. MaxSweeps
  /\ log \in [Presets -> Seq(Lines)]
  /\ cycles \in [Presets -> Seq(Lines)]
  /\ rows \in Seq(Seq(Lines))

\* Every row of a finished summary is FAIL or the average of lines that this very
\* sweep has read from the image in that preset's build directory: not what an
\* earlier sweep left in cycles.txt or in the log, not what the image flashed
\* before printed between reset and halt, not another variant's build.  And every
\* preset has its row, in order.
RowsAreOfThisSweep ==
  all = "report" =>
    /\ Len(rows) = NumPresets
    /\ \A p \in Presets : \A n \in 1 .. Len(rows[p]) :
         rows[p][n].sweep = sweep /\ rows[p][n].image = elf[p]

\* A headline averages the repetitions of one run from the first on, each once; a
\* time-out can leave out the last ones and cut the very last line, no other.
HeadlineIsAPrefix ==
  \A p \in Presets : \A n \in 1 .. Len(cycles[p]) :
    /\ cycles[p][n].rep = n - 1
    /\ cycles[p][n].image = cycles[p][1].image
    /\ ~cycles[p][n].exact => n = Len(cycles[p])

\* microbenchmark/README.md:449-455 on an oversized kernel, with the option set: "The check
\* still prints sizes; it just no longer fails the build."  So no variant may be left
\* without an image when the build was allowed to exceed the cache.
OverrideBuilds ==
  all = "sweep" /\ run = "failed" /\ allow => elf[preset] # None
=============================================================================
