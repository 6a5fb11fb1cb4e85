# Verification of the microbenchmark harness

TLA+ models, TLC runs and TLAPS proofs for this repository: a harness that
measures single instruction sequences in cycles on an STM32G474RE, on both core
types of the RP2350 and under gem5, and the host scripts that build, flash, run,
capture and record hundreds of such kernels.  The numbers are the product; what
can silently go wrong is that a number is not what it is recorded as.  All
properties are about that.

Run a check with `tlc -config <file>.cfg <module>` and a proof with
`tlapm <module>Proofs.tla`; eight modules have one.

## 1. The system

| Part | Where | State it keeps | Operations |
|---|---|---|---|
| Measuring program, hardware | `microbenchmark/src/main.c`, `include/harness.h`, `rp2350/main.c`, `rp2350/riscv/harness.h` | reserved registers, cycle counter, interrupt mask, cache, `_inner_delta_cyc[]`, printed lines | enable counter, mask, warm-up, snap, call, snap, store, loop, unmask, report, halt; USB interrupt |
| Measuring program, gem5 | `include/harness.h`, `include/m5ops_semi.h`, `isolation/timing_runner.py` | work region open or closed, statistics windows | work begin, work end, exit, tick limit |
| STM32 start-up | `src/startup.c`, `src/system_init.c`, `src/flash_config.c` | RCC, PWR, FLASH and DWT registers | the nine steps to 170 MHz, the ACR overlay; reset, re-entry |
| RP2350 sweep | `rp2350/run_all_benchmarks.py` | five files of an output directory, `failures`, `device_lost`, pending kernels | resume, build, flash, capture, check, two appends, errors, manifest, evidence |
| RP2350 capture | `rp2350/run_benchmark.py` | bytes read so far, repetitions found | find port, open, read, match, time out |
| STM32 board run | `test/test_board_run.py`, `test/_common.py` | build tree, OpenOCD log, result directory | build if absent, program, run until the time-out, parse, average |
| gem5 sweep | `scripts/run_m4_sweep.py`, `scripts/parse_results.py` | futures, four files | submit, complete, save, manifest |
| Layout and size guards | `board/stm32g474re/stm32g474re.ld`, `scripts/check_kernel_size.py`, layout tests | section sizes | link assertions, post-link check |
| EntoBench suite scripts | `benchmark/scripts/*.sh` | option bytes of the board (bank mode), temporary configurations, logs | set bank mode, configure, build, flash and log |
| Differential verification | `verification/*.sh` | run directories, symbolic links, result lines | sweep board, sweep gem5, join and compare |
| Isolation experiments | `isolation/*.py` | like the sweeps | build variants, run, compare |
| Kernels, generators, tables | `kernels/`, `multibench/tools`, `benchmark/scripts/*.py` | none | none |

How they meet: the guards admit a kernel to the build; the start-up hands the
machine over to `main`, which calls `bench_entry`; the report leaves by
semihosting (STM32, gem5) or by USB serial (RP2350); the board run, the capture
or the gem5 runner turn it into repetitions; the sweeps write them to files that
a later invocation of the same script reads back to decide what is left to do.

What is hard: interrupts between two instructions; a counter that wraps; registers
kept live across a call that may change them; hardware that adopts a register
write later; a restart with the machine half configured; a process killed between
two appends; retries and resumption; a board that goes away; threads that finish
in any order; time-outs that are the normal end of a run.

What makes each part correct:

- measuring program: every slot is the true cost of its call, of a steady-state one but for
  what the first may still pay for a line, is reported under its own number, and the report
  is complete;
- start-up: the flash is never read faster than its wait states allow, the
  clock rises in the two stages the reference manual asks for, and the kernel finds
  the variant its image is named after;
- sweeps: rows, repetitions, logs, errors, manifest and exit status agree, across
  retries, kills and resumptions, and repeated resumption finishes the job;
- capture and board run: what is returned is what the firmware printed;
- guards: a kernel that passes them fits where it is measured;
- bank scripts: the board ends in the mode it started in and each log holds the
  configuration it is named after;
- differential verification: "identical" means both sides produced the result.

## 2. Modules

| Module | What it is |
|---|---|
| `Measurement` | the abstract promise: samples of the steady state but for the first, delivered in order when complete |
| `BenchHarness` | the measuring program on both board families |
| `MCBenchHarness` | its instance for TLC |
| `BenchHarnessProofs` | theorems about it |
| `ClockInit`, `MCClockInit` | STM32 start-up against the hardware it polls |
| `ResumableSweep` | the abstract promise of both resumable sweeps: what is due, recorded, given up, and what a fault may cost |
| `Rp2350Sweep`, `MCRp2350Sweep` | the resumable sweep, its files, its board and its operator |
| `Rp2350SweepProofs` | theorems about it |
| `UsbCapture`, `MCUsbCapture` | one capture over USB serial: port entries, pieces of the stream, retries, resets |
| `UsbCaptureProofs` | theorems about it |
| `ClockInitProofs` | theorems about the start-up |
| `Gem5Run`, `MCGem5Run` | a gem5 simulation of the measuring program, what it leaves behind, and its two readers |
| `M4Sweep`, `MCM4Sweep` | the gem5 sweep: extends `Gem5Run` with the thread pool, the files, the operator |
| `M4SweepProofs` | theorems about both |
| `BoardRun`, `MCBoardRun` | the STM32 sweep of one kernel: builds and their guards, OpenOCD, board, scripts, user |
| `BoardRunProofs` | theorems about it |
| `CacheProbe`, `MCCacheProbe` | the RP2350 cache probe: eight streams through the cache, and their capture |
| `CacheProbeProofs` | theorems about it |
| `BankSweep`, `MCBankSweep` | the EntoBench sweep over configurations, policies and bank modes |
| `BankSweepProofs` | theorems about it |

`M4Sweep` composes simulations and sweep in one state space: every worker's simulator is
a `Gem5Run`.  `BoardRun` composes user, builds, scripts, OpenOCD and target.

### BenchHarness

State: `r0`, `r1`, `r3`, `r4`, `r5` are the registers of `END_BENCH` (the RISC-V
wrapper's `t0`, `s0`, `s2`, `s1` for the last four); `cyccnt` counts modulo
`CounterModulus`; `inner` is `_inner_delta_cyc[]`; `out` the printed lines; `client`
says that a host has opened the serial port; `lines` how much of the kernel is in the cache:
nothing, all of it but the last line, or all.  `elapsed` and `truth` are history:
true cycles since the start snap, and the true costs so far; no guard reads them.

Actions follow the instructions: `InitStdio` (the RP2350's `stdio_init_all()`, which waits for
a client without a time-out), `EnableCounter`, `EnterBench` (with the RP2350's
interrupt mask), `Prologue`, `Warmup`, `SetupLoop`, then `StartSnap`,
`MeasuredCall`, `EndSnap`, `StoreDelta`, `LoopOrReturn` per repetition, then
`LeaveBench`, `EmitReport`, `Finish`, `Spin`.  `UsbInterrupt` can come between any
two of them while interrupts are not masked, takes time and may evict the kernel or a line of
it.  On the STM32 no interrupt source is enabled, so that image needs no mask.

What one warm-up call does to the cache is taken from the measurements in
`microbenchmark/README.md`: it may leave out a last line of which the kernel runs through a part
only, so that repetition 0 pays for it (lines 218 and 228-243, "rep 0 is 3-4 cycles
slower"); that is what the `rep0_minus_steady` columns of both sweeps are for.  Lines
250-253 of the same file say that after the warm-up call all the kernel's lines are in the
cache, and that the second call fetches every instruction in one cycle; on a body of that
kind they contradict the caveat above them, and the model follows the caveat (`Filled`).
`OnlyFirstMayFill` therefore says of the first measured call that it is not cold and not
interrupted, and of the others that they are steady.

Abstractions: a kernel is a set of costs per state of its lines (`WarmCycles`, `FillCycles`,
`ColdCycles`) and the register contract of `harness.h`; the wrapper's own stack frame is
left out.  Assumptions on the constants (`HarnessAssumption`): at least one repetition (the
configurations have 10), and no call longer than the counter's modulus, which is
25 seconds at 170 MHz.  `KeepsContract` is an assumption too: a kernel that changes a register
it must not change is outside the model.

### ClockInit

`latencyReq`/`latency` and `sw`/`sws` separate what was written from what the
hardware has adopted; `FlashAdopts`, `PllLocks` and `SwitchDone` adopt it at any
later time, and `Tick` is one cycle.  Every poll of `system_init` is an action that
waits.  `Reenter` jumps to `Reset_Handler` with all peripherals as they are (the case
the comments in `startup.c` prepare for), `SystemReset` restores reset values but
leaves the debug unit's counter running.  `held` is history.  The HSI oscillator is
the reset clock and its poll never waits, so its step is merged into `SetBoost`.
The gem5 build takes the short path.

### Rp2350Sweep

Files are counts per kernel: rows of `summary.csv`, complete groups of rows of
`repetitions.csv`, the pairs in `errors.csv`, the kind of the kernel's log, and the
two counts of the manifest.  `pc` is the place in `main`; each append, each check and
the exception handler are actions.  An append that raises may have written its rows
or not.  `Crash` ends the process at any point; `Start` runs the script again with any
selection and the same directory.  `Unplug` and `Plug` are the board's.
`saveFailed` is history.  A report from the wrong core fails the attempt like any other error,
and the loop goes on (`run_all_benchmarks.py:457`), although `rp2350/README.md` says it stops
the sweep.

### ResumableSweep

What an operator can rely on, with no files, attempts or threads in it: the kernels asked
for, those `due`, those with a row (`recorded`) and with samples (`sampled`), the one
whose row is written and whose samples are next (`open`), whether the run gave one up,
and its outcome.  `Begin` looks at nothing but the rows.  A kernel leaves `due` by `Row` and
`Samples` or by `GiveUp`; `Finish` reports success only when nothing is due and nothing
was given up.  `CutWrite` is a write that raises or is interrupted: its rows are there or not.
`Mishap`, `FailedWrite` and `Stop` are the surroundings, and count.

Both sweeps map to it (`Promise` in either module).  A retry, a failed build, a lost board, a
worker's simulation are stutters or mishaps; an early stop of the RP2350 sweep is a
`Finish` behind a kernel given up; a gem5 sweep that has left its loop by an
exception is stopped for its operator, although its workers go on.

### UsbCapture

The detail behind the sweep's `Flash` and `Capture` (a separate module; the step from
one to the other is not checked): what can happen between flashing
the board and having a result.  `port` is the entry under `/dev` that the search finds,
which may be the dead one of the firmware before; `opened` is the run of the firmware
the descriptor belongs to.  The output of a run is a sequence of pieces, cut at the
places where it matters whether a read ends there: inside the announced count, and
inside each cycle count.  `ReadChunk` is one pass of the loop in `capture`: any number of new
pieces arrives, both regular expressions run over everything read so far
(`HeaderIn`, `RepsIn`), the dictionary is updated, and the capture returns when it is
complete.  `OpenPort` starts with an empty buffer, so a retry forgets what it had; an `OSError`
is retried, while a `termios.error` of `configure_tty` is not one and ends the capture.
`Reset` lets the firmware start over under the capture; `EmitPiece` prints only after a
client has connected once, and loses what it prints without one.

Abstractions: losses are at the start of what a reader sees, not inside it; the two
fields a return depends on stand for the whole header, whose other fields come before
them; text is sets of pieces, since the expressions only ask which pieces are there.

### Gem5Run and M4Sweep

A simulation is the program's place (`fw`), its loop register `r5`, the calls made, the
cycles since the statistics were reset, the telling lines of `simout.txt` and the
windows of `stats.txt`.  `WorkBegin` resets, `WorkEnd` dumps, and gem5 itself adds one
window when its process ends (`ProcessEnds`).  gem5 is deterministic, so a call has a
cost that depends only on its number; instructions of the wrapper outside a window
are one cycle, those inside are `CallCycles`.  Faults: an exit for another cause
(`OtherExit`, still return code 0), an abort, a hang.

The two readers differ: `run_one` insists on the number of markers and windows
(`Accepted`) and drops the last window (`Values`); `parse_results.py` averages every
window (`Headline`).  The other reasons of `run_one` to raise, `validate_single_core` and a
window without its `numCycles`, are `Rejected` in `M4Sweep`.

`M4Sweep` adds a future per kernel, the main thread's place and the files, each as what it
holds per kernel.  `TakeTask` is a free worker; `RunOneEnds`, `TimeoutExpired` and `TooSlow`
end its task; `TakeResult` and `TakeError` are `as_completed` in any order;
`SaveSummary` and `SaveRepetitions` are the two appends.  `SaveFails` is an append
that raises, `Escape` an exception or an interrupt that leaves the loop (the
pool's exit then waits for all workers, and their results are dropped); either may have
cut an append off, whose rows are then there or not (`CutAppend`): closing the file writes
what the flush could not.  `undisturbed` is history.  Time stamps, digests, the evidence file
and the torn write of a row are left out.

`Kill` ends the sweep alone: `subprocess.run` does not tie a simulator to Python, so what was
simulating is left behind (`left`), and a resumed sweep that is given the same run directory
shares it with that simulator, which may act again at any time or never.  If it
writes into the files of a simulation that has ended, these are `mixed`: `run_one`'s checks may
reject them (`Rejected`) or pass them whatever the windows hold (`Overwrite`, with values
of `Leftover`).  `RecordedAsMeasured` excepts those kernels and no others, and
`NoSimulatorLeftBehind` says that every other end of a sweep leaves none: the pool's exit waits.

### BoardRun

An image is its preset and the version of the source it was built from.
`EnsureBuild` builds only when there is no ELF; `Built` is the linker script's assertion and
`check_kernel_size.py` after it; `Rebuild` and `Edit` are the user's between sweeps.  The
OpenOCD command list is one action each (`Attach`, `ResetOld`, `Halt`,
`ArmSemihosting`, `Program`, `ResetRun`); the board goes on running what it holds, and
`WriteLine` can come at any point at which a target runs: it appends to the log when
semihosting is handled and stops the target when it is not.  `Timeout`, the normal end, can
come at any point too, in the middle of a line or of programming; so can
`OpenOcdFails` and `Interrupt`, which ends both scripts and OpenOCD.  `Parse` and `Headline` make the row of the summary.

Assumptions: OpenOCD writes its output unbuffered, so a killed one has lost nothing but
the rest of the line at hand; `program ... verify` that succeeds has
written the image.  A kernel that exceeds its slot exceeds the cache, as the slots are as
large as the board's instruction and data cache.
The target is taken not to fault: a reset or a re-entry of its start-up
(`startup.c:68`) while OpenOCD is attached, which would print the first lines again, is left out.

### CacheProbe

The cache is a set of at most two lines per set; a fill takes an empty way first and
then evicts any line.  The eight measurements are sequences of accesses
(`Stream`, with the lines that `probe_kernels.S` lays out: two adds of four bytes share an
eight-byte line or cross into the next); `Call` is a `measure_*` function entered (with the invalidation of the cache where
it has one), `Step` one access, of a warm-up pass or of the timed one.  `MainRuns` and
`UsbInterrupt` fetch other lines from flash, into any set, whenever the code lets them.
`codeBank` is where the linker has put `xip_load`, which decides what "same" and
"opposite" stand for.  On the host, `Read` takes the text in any pieces; a row is
complete, cut in a field, or cut in its last digits.  Barriers, calls and loop
overhead are constants of every measurement and left out; `row` holds what remains.
The checks of the header are left out, and the host is taken to lose nothing between board
and `os.read`.

### BankSweep

The script is a nest of loops: `item` is the place in `main`'s list of bank changes and sweeps
(`Main`), `pol` and `cfg` the policy and the configuration of a sweep, `step` the command
of `run_config` (`RunConfig`).  Each command is an action that succeeds or ends the script,
and a failing one may have had its effect or not: under `pipefail` a flash that fails can leave
a whole log too.  The bank mode, the build directory
and the logs outlive a run, and `Start` may come with any options after any end.  A
selection of configurations may name one twice or one that does not exist; such a
name, like an unknown policy, is noticed only when the loops reach it (`UsageError`), an unknown
bank mode at once.  `SetBankMode` takes a flash target that exits with 0 to have written the
mode; the read-back behind it only looks for a line that names some mode.  The code sizes and
the temporary JSON files are left out; so is another user of the board.

## 3. Runs

| Run | Bounds | Shows |
|---|---|---|
| `harness` | three repetitions, a three-bit counter, bodies of 1 or 3 cycles warm, 4 with a line to fill and 5 cold, 2 cycles of call, interrupts of 1 and 6 cycles | type, `SlotsHoldTrueCost`, `OnlyFirstMayFill`, `ReportIsFaithful`, `EveryRunReports`, refinement of `Measurement` |
| `clock` | a hold of 3 cycles, two restarts | `ClockIsSafe`, `BenchFindsBuild`, `RisesThroughHalfSpeed`, `BenchIsReached` |
| `sweep` | two kernels, one retry, two faults | type, `RepetitionsAreSummarised`, `OneRowPerKernel`, `RecordedKernelsKeepTheirLog`, `FailureIsExplained`, `ManifestMatchesSummary`, `StopsWhenDisconnected`, `EventuallyRecorded`, refinement of `ResumableSweep` |
| `sweep_crash` | as `sweep` | violated: a row without repetitions behind exit status 0 |
| `capture` | three repetitions, two runs of the firmware | type, `ReturnsEveryRepetition`, `OneRunOnly`, `EarlierCountsAreExact`, `CaptureEnds` |
| `capture_cut` | as `capture` | violated: the last count is returned with some of its digits |
| `gem5_sweep` | three kernels, two workers, two repetitions, two faults, one value for a window two simulators wrote | type, `RecordedAsMeasured`, `SamplesFollowSummary`, `EndAccountsForAll`, `NoSimulatorLeftBehind`, `EventuallyRecorded`, refinement of `ResumableSweep` |
| `gem5_average` | one kernel | violated: the average includes the window of the exit |
| `board_run` | two presets, two repetitions, three versions of the source of which one is too large, two sweeps | type, `RowsAreOfThisSweep`, `HeadlineIsAPrefix` |
| `board_oversize` | as `board_run` | violated: no image although the option lets the kernel exceed the cache |
| `cache_probe` | two repetitions, streams of three rounds, a counter that wraps just after the longest | `EachCountIsOfItsEffect`, `SavedIsTheRun` |
| `bank_sweep` | two configurations, selections with one of them twice and with an unknown name, two runs of the script with any options | `LogsAreAsNamed`, `DoneMeansMeasured` |

Why the bounds are enough.  With three bits the counter wraps inside measured
windows at every offset, and every call is shorter than the modulus, as on the
board; three repetitions have a first, a middle and a last slot.  Three cycles
separate "held" from "not yet held", and two restarts give every pair of
restart points, including a re-entry after a reset.  Two kernels and one retry
give a next kernel, an exhausted kernel and a recovered one; two faults are any pair of
failing build, flash, capture or append, lost board and kill, in one run or in two; a
board that stays unplugged fails any number of attempts at no further cost.  In
`capture`, three repetitions have a first, a middle and a last line, an announced
count cut short is smaller than the real one, and two runs are what mixing needs.  In
`gem5_sweep` the third kernel waits for a worker while two simulate, every cost is
different, and two faults are any pair of them in one run or in two, so also a kill
and what the simulator it left behind writes; 5 is no kernel's cost.  In
`board_run` the second sweep finds what the first one left in every file, in the flash and
on the running target, and a third version is an edit after the one that does not
fit.  In `cache_probe` the second repetition starts with what the first one left in the
cache; three rounds have a first and repeated ones, adds that share a line and one that crosses
into the next, and both outcomes of every eviction are explored.  Its constraint
`ReadsBetween` stops at states in which the host has given up, or has read something while
the board measures: the board does not see the host, so the same rows arise without
them, and the host reads the same text when the repetition is over.  In `bank_sweep` the second run starts from whatever point the first one ended
at.

Fairness.  `harness`: the processor keeps executing (weak fairness of `Cpu`);
interrupts need not come, and neither need a client of the serial port: without one an RP2350
image waits for ever, so `EveryRunReports` is conditional on it.  `clock`: the program runs and each piece of hardware does
what it was asked (weak fairness of each); nothing forces a restart.  `sweep`: the
process runs, an unplugged board is plugged in again, and the operator keeps
resuming the full sweep (strong fairness, since runs with another selection may
come between); faults are bounded.  That is how `rp2350/README.md` says an
interrupted run is continued.  `capture`: the script runs and the clock reaches
the deadline; nothing is asked of the board, which may never print.  `gem5_sweep`:
threads and simulators run, a hung simulator meets its time-out, and the operator starts
the sweep again; faults are bounded.  The other runs check safety only: a board run
ends because its time-out does, the suite script has no loop that waits, and the probe's
capture has its own deadline.

Deadlock is checked everywhere but in `bank_sweep`, which stops after its last run.

The `sweep` invariants that say `~saveFailed` leave out runs in which an append
raised: then a row can be on disk that the retry writes again, and the file is
legitimately longer than the count.

### Findings

- `sweep_crash`: `save_success` appends to `summary.csv` and then to
  `repetitions.csv`; resumption asks `summary.csv` only.  A kill between the two
  and a resumption end with status 0 and no samples for that kernel, although the
  script calls itself crash-safe and the README promises all raw samples per
  kernel.  `RepetitionsAreSummarised` shows that the reverse cannot happen.
- `capture_cut`: `REP_RE` asks for nothing after the digits of the count, and
  `capture` returns as soon as the announced number of repetitions has matched.
  A read that ends inside the last count yields a shorter number that is recorded as
  a measurement.  `EarlierCountsAreExact` shows that later passes repair all the other
  counts, `ReturnsEveryRepetition` that a cut announced count does no harm.  The
  expressions of `test_board_run.py` and of `cache_probe/capture.py` end in digits
  too; there `HeadlineIsAPrefix` and `SavedIsTheRun` say exactly which count can be short.
- `gem5_average`: `parse_results.py` says its figure is the average of one window per
  repetition, and averages every window of `stats.txt`; gem5 writes one more when it exits.
- `board_oversize`: `microbenchmark/README.md` (lines 104, 254-261, 449-455, 729-743),
  `harness.h`, `CMakeLists.txt`, `check_kernel_size.py` and the messages of the two
  assertions name `ALLOW_KERNEL_EXCEED_ICACHE` and `_DCACHE` as the way to measure a kernel
  larger than the cache.  The options reach the post-link check only; the assertions
  (`stm32g474re.ld:133`, `153`) bound the slot, which is as large as the cache, whatever they
  are, so no such kernel ever links.

## 4. Proofs

`BenchHarnessProofs` proves, for every `InnerReps`, counter width and set of costs
that `HarnessAssumption` allows, all the safety properties of the `harness` run:
`TypeCorrect`, `SlotsAreExact`, `OnlyFirstCallMayFill`, `ReportIsExact`, and
`Implementation`, the refinement of `Measurement`.

None of these properties is inductive.  `IInv` adds what holds at each program point:
the reserved registers (`r0` holds the counter's address from the prologue on, `r3`
is the number of filled slots, `r3 + r5 = InnerReps` in the loop), the mask (set on the
RP2350 from the prologue until the end), the cache (not cold from the warm-up call to the end of the loop when there is one, and warm
once a slot is filled), and the window: `cyccnt` equals `r4` plus `elapsed` modulo
the counter's width, and `elapsed` is below that width.  The last is what makes the
modular subtraction exact.  `Invariance` proves `IInv` one action at a time; the
lemma on modular differences and the lemmas on sequences it needs are stated
separately.  TLC checked `IInv` as an invariant before it was proved.

`Rp2350SweepProofs` proves, for every `NumKernels`, `Retries` and `MaxFaults`, all the
safety properties of the `sweep` run: `TypeCorrect`, `SuccessIsComplete`,
`SamplesSummarised`, `RowsUnique`, `LogsKept`, `FailuresExplained`, `ManifestAgrees`,
`LostBoardStops`, and `Implementation`, the refinement of `ResumableSweep`
(`ExitZeroMeansRecorded`, which `SuccessIsComplete` states, is what the refinement makes of
success, so the run checks the refinement alone).  Its only assumption is `SweepAssumption`.  The invariant has one
part per concern, each proved preserved action by action in a lemma of its own:

- `PlanInv`: what is pending is selected and has no row; as long as nothing has been
  given up, every selected kernel is pending, current or recorded;
- `LossInv`: the loop leaves kernels pending only after counting a failure, which is
  why the early stop for a lost board cannot end in status 0;
- `RowsInv`: the current kernel has no row until its append, and one more row than groups of
  repetitions between the two appends;
- `LogInv`: the attempts made so far on the current kernel are in `errors.csv`, and its
  log is its capture when its row is written;
- `CountInv`: the rows found at the start plus the successes since are the recorded
  kernels other than the current one, and failures, successes, pending and current
  kernels together never exceed those selected without a row.

The bounds in `TypeOK` (no count above `NumKernels`) follow only from `CountInv`.  The
cardinality facts come from the library's theorems on finite sets.

`ClockInitProofs` proves all the safety properties of the `clock` run for every
`HoldCycles` and `MaxRestarts`: `TypeCorrect`, `FlashIsSafe`, `KernelFindsBuild`,
`RiseIsGradual`.  `TypeOK` has no run of its own there: it is proved.  `ClockIsSafe` alone says nothing of why a re-entry is harmless;
`ClockTree` does: once the PLL is selected the wait states are four, both as written and as
adopted, and stay so, and the prescaler is 2 while the switch is pending.  `Established`
is what each program point may rely on, `Hold` bounds the counter by the age of the clock,
whatever it held before, and `Simulated` keeps gem5 on its reset clock.

`UsbCaptureProofs` proves all the safety properties of `capture` for every number of
repetitions and resets: `TypeCorrect`, `EveryRepetition`, `NoMixture`, `EarlierCounts`.
The invariant `Reading` says that what has been read is an unbroken stretch of one
run's output, and that header and repetitions are what the expressions find in it; the
lemmas before it say what they find in a stretch.  A count cut short is then found only in
a stretch that ends before the first line, and a line that has one behind it is whole.

`M4SweepProofs` proves all the safety properties of `gem5_sweep` for every number of
kernels, repetitions, workers and faults and for every cost: `TypeCorrect`,
`RowsAreMeasured`, `FilesAgree`, `NothingIsForgotten`, `NoOrphans`.  The invariant has two
halves.  Of a simulation: its place determines calls and windows (`Phase`), and each window
is the cost of its repetition but for the one of an exit (`Window`), so the number of
windows alone makes an accepted simulation sound, unless a simulator left behind by a kill has
written into it.  Of the sweep: only a worker's
task has a simulator of this sweep (`Owners`), what is pending has no row (`Rows`), the files differ
only between the appends (`Agreement`), and the count is that of the kernels which are neither
pending, nor failed, nor in hand (`Accounts`).  `Implementation` is the refinement of
`ResumableSweep`.

The two refinements are proved the same way: a lemma per action that says which abstract
action it is (`SaveSummaryRefines`, `LogErrorRefines`, ...) and one lemma, `Unseen`, for all the
others.  They need the invariants: a kernel that is being saved is not also pending, the loop
is left with something due only behind a kernel given up, and the pool is left only when
no future is unfinished or unhandled.  What the promise is worth is proved on top,
in both modules: `EachLossIsAFault` says that over all runs, retries, kills and
resumptions no more kernels have a row without samples than faults have happened.  That
bound is not inductive while a kernel's samples are being written, so `SweepInv` counts the
others and says that the open kernel is due and has its row; `CutWriteLoses` is the step
that adds one.  It is the other half of the finding `sweep_crash`: one kernel's samples are
also the most that one fault can cost.

`BankSweepProofs` proves both properties of `bank_sweep` for any configurations, any
selections and any number of runs: `LogsAreNamed`, `DoneIsMeasured`.  `MainIs` and `StepsAre`
say what follows from the two lists of commands alone (a bank is set before it is
swept, every sweep builds before it flashes, and again with few repetitions before the
long benchmarks); the rest of the invariant says what the loops have done so far:
the board is in the bank of the item behind it (`BankInv`), settings and images are those of the
place in `run_config` (`BuildInv`), and every name the loops have passed has its log
(`MeasuredInv`).

`BoardRunProofs` proves all the properties of `board_run` for every number of presets,
repetitions, versions and sweeps: `TypeCorrect`, `SummaryOfThisSweep`,
`HeadlinesArePrefixes`.  Its invariant says where semihosting can be
armed and a target running at once (`Phase`, `Quiet`), that then the log is the prefix of what
the flashed image has printed (`Current`), and what rows, files and images have been
since (`Rows`, `Files`).  The point of it: between `reset` and `halt` the old image runs,
but nothing is armed.

`CacheProbeProofs` proves both properties of `cache_probe` for every number of
repetitions, length of the streams and cost of a miss and of a wait:
`CountsAreOfTheirEffect`, `SavedTableIsWhole`.  The lemmas before the invariant say what a
fetch does to a two-way set, which line and which wait each position of a stream has, and that
no three lines of a stream but `conflict3` share a set (`NoThird`), so that a stream never
evicts its own lines.  The invariant then says what the cache holds at each position
(`Contents`) and what the timed pass has cost so far (`Timed`); for `conflict3` only bounds
hold (`RoundsMiss`), since two ways never hold all three lines.  The bound on the elapsed time
that comes with it keeps the difference of the two counter values exact.

The theorems rest on the named assumptions on the constants and on what the modules assume of
their surroundings (section 2), on nothing else.  TLC checked
every inductive invariant on the bounds of its run before it was proved.

Only model-checked: the liveness properties (`EveryRunReports`, `BenchIsReached`,
the two `EventuallyRecorded`, `CaptureEnds`), which are out of the prover's reach.

## 5. Possible extensions

The step from
`UsbCapture` to the actions `Flash` and `Capture` of `Rp2350Sweep`;
`verification/sweep_real_board.sh`, whose flash loop follows a build that may have failed.

## 6. Not modelled

- Kernels beyond their contract and cost: straight-line instruction sequences.
- The EntoBench sources and generators: their harness is a submodule that is not in the
  repository.
- Log parsers and tables: formatting of finished logs.
- Differential verification: sweeps that print one word per failed test, and a
  comparison of two finished text files.  What can go wrong there is listed as hazards.
- Physical isolation experiments: the STM32 runner has the command list and the time-out of
  `BoardRun` and requires all repetitions, the RP2350 runner uses the capture of
  `UsbCapture`; neither resumes, and an error ends them.
- `verify_single_core.py` and the layout tests: functions of one linked image.  The
  addresses of the sections are the linker's.
- In `Rp2350Sweep` a run that changes architecture or placement in an existing directory,
  and a torn write inside one append; in `M4Sweep` torn writes and the evidence file.
- `run_timing_isolation.py`, `run_fetch_char.sh` and `sweep_art_cache_configs.sh` repeat
  loops that are modelled, over other sets, and are not mapped separately.
