----------------------------- MODULE BenchHarness -----------------------------
(***************************************************************************)
(* The measuring program on the board: main(), the bench_entry wrapper     *)
(* that BENCH/END_BENCH emit around a kernel, the cycle counter and the    *)
(* interrupts that can disturb it.  Sources: microbenchmark/src/main.c,    *)
(* include/harness.h, board/stm32g474re/dwt.h, rp2350/main.c and           *)
(* rp2350/riscv/harness.h (s0, s1, s2 and t0 play r3, r5, r4 and r1).      *)
(*                                                                         *)
(* The unit of a step is the instruction or instruction group between two  *)
(* points where the counter is read or an interrupt matters.  The wrapper's *)
(* own stack frame (push/pop of r3-r5, lr) is left out.                    *)
(***************************************************************************)
EXTENDS Integers, Sequences

CONSTANTS
  InnerReps,        \* INNER_REPS: measured calls per run
  CounterModulus,   \* the counter counts modulo this (2^32 on every board)
  WarmCycles,       \* cycles a call of the kernel body can take from the cache
  FillCycles,       \* cycles it can take when one more line must be filled
  ColdCycles,       \* cycles it can take when all its lines must be fetched
  CallCycles,       \* cycles of bl, bx lr and the second counter read
  IrqCycles,        \* cycles a USB interrupt handler can take
  Scratch           \* words a kernel may leave in the registers it may use

Words == 0 .. (CounterModulus - 1)

ASSUME HarnessAssumption ==
  /\ InnerReps \in Nat \ {0}
  /\ CounterModulus \in Nat \ {0}
  /\ CallCycles \in Nat
  /\ WarmCycles \subseteq Nat
  /\ FillCycles \subseteq Nat
  /\ ColdCycles \subseteq Nat
  /\ IrqCycles \subseteq Nat
  /\ Scratch \subseteq Words
  /\ \A d \in WarmCycles \cup FillCycles \cup ColdCycles : d + CallCycles < CounterModulus

VARIABLES
  board,            \* "stm32" or "rp2350", fixed by the build
  icache,           \* the kernel runs through a cache: ENABLE_ICACHE, or the
                    \* XIP cache unless the kernel is linked into SRAM
  client,           \* a host has opened the USB serial port
  pc,               \* where the program is
  r0, r1, r3, r4, r5,
  counting,         \* DWT_CTRL.CYCCNTENA / mcountinhibit.CY
  cyccnt,           \* DWT_CYCCNT / mcycle
  primask,          \* interrupts masked
  lines,            \* the kernel's lines in the cache: "cold", "partial" or "warm"
  inner,            \* _inner_delta_cyc[]
  rep,              \* main's loop counter i
  out,              \* the report lines printed so far
  elapsed,          \* history: true cycles since the start snap of this rep
  truth             \* history: true cost of every measured call, in order

registers == <<r0, r1, r3, r4, r5>>
build == <<board, icache>>
vars == <<build, client, pc, registers, counting, cyccnt, primask, lines, inner, rep,
          out, elapsed, truth>>

Slots == 0 .. (InnerReps - 1)

\* Program points.  Between the two counter reads of a rep:
Roi == {"measured_call", "end_snap"}
PCs == {"stdio_init", "enable_counter", "mask", "prologue", "warmup", "setup",
        "start_snap", "store", "loop", "unmask", "report", "halt"} \cup Roi
-----------------------------------------------------------------------------
\* The free-running counter after n cycles: it wraps at its width.
Counted(n) == IF counting THEN (cyccnt + n) % CounterModulus ELSE cyccnt

\* n cycles pass; the history of the current window does not wrap.
Advance(n) ==
  /\ cyccnt' = Counted(n)
  /\ elapsed' = IF pc \in Roi THEN elapsed + n ELSE elapsed

Goto(from, to) == pc = from /\ pc' = to

Init ==
  /\ board \in {"stm32", "rp2350"}
  /\ icache \in BOOLEAN
  /\ client \in BOOLEAN
  /\ pc = IF board = "rp2350" THEN "stdio_init" ELSE "enable_counter"
  /\ r0 = "other" /\ r1 = 0 /\ r3 = 0 /\ r4 = 0 /\ r5 = 0
  /\ counting \in BOOLEAN
  /\ cyccnt \in Words
  /\ primask = FALSE
  /\ lines = "cold"
  /\ inner = [k \in Slots |-> 0]
  /\ rep = 0
  /\ out = <<>>
  /\ elapsed = 0
  /\ truth = <<>>

\* A host opens the serial port; what it does later changes nothing here.
ClientConnects ==
  /\ ~client /\ client' = TRUE
  /\ UNCHANGED <<build, pc, registers, counting, cyccnt, primask, lines, inner, rep,
                 out, elapsed, truth>>

\* stdio_init_all() waits, without a time-out, until a client is there.
InitStdio ==
  /\ Goto("stdio_init", "enable_counter")
  /\ client
  /\ UNCHANGED <<build, client, registers, counting, cyccnt, primask, lines, inner,
                 rep, out, elapsed, truth>>

\* TRCENA, CYCCNT = 0, CYCCNTENA (or mcountinhibit/mcycle): untimed.
EnableCounter ==
  /\ Goto("enable_counter", "mask")
  /\ counting' = TRUE
  /\ cyccnt' = 0
  /\ UNCHANGED <<build, client, registers, primask, lines, inner, rep, out, elapsed, truth>>

\* A build that forgets to mask interrupts.
NoMask == UNCHANGED primask

\* The RP2350 image masks interrupts around bench_entry; no STM32 source is
\* enabled, so that image leaves PRIMASK alone.
MaskIrqs == primask' = (primask \/ board = "rp2350")

EnterBench ==
  /\ Goto("mask", "prologue")
  /\ MaskIrqs
  /\ Advance(1)
  /\ UNCHANGED <<build, client, registers, counting, lines, inner, rep, out, truth>>

\* START_ROI_SETUP: r0 = &DWT_CYCCNT, long before the first snap.
Prologue ==
  /\ Goto("prologue", "warmup")
  /\ r0' = "CYCCNT"
  /\ Advance(1)
  /\ UNCHANGED <<build, client, r1, r3, r4, r5, counting, primask, lines, inner, rep, out,
                 truth>>

\* The register contract kernels are written to.
KeepsContract == UNCHANGED <<r0, r3, r4, r5>>

\* What a call takes, by what it finds in the cache.
Cycles == [cold |-> ColdCycles, partial |-> FillCycles, warm |-> WarmCycles]

\* What it leaves there: the first call need not fill a last line of which it
\* runs through a part only; the next one does.
Filled ==
  IF ~icache THEN {"cold"} ELSE IF lines = "cold" THEN {"partial", "warm"} ELSE {"warm"}

\* bl kernel_body: the kernel runs.
KernelBody ==
  /\ \E d \in Cycles[lines] : Advance(d + CallCycles)
  /\ lines' \in Filled
  /\ KeepsContract
  /\ r1' \in Scratch

\* A wrapper that goes straight to the measured loop.
NoWarmup ==
  /\ Goto("warmup", "setup")
  /\ UNCHANGED <<build, client, registers, counting, cyccnt, primask, lines, inner, rep,
                 out, elapsed, truth>>

Warmup ==
  /\ Goto("warmup", "setup")
  /\ KernelBody
  /\ UNCHANGED <<build, client, counting, primask, inner, rep, out, truth>>

\* r3 = &_inner_delta_cyc[0] (as a slot number), r5 = INNER_REPS.
SetupLoop ==
  /\ Goto("setup", "start_snap")
  /\ r3' = 0
  /\ r5' = InnerReps
  /\ Advance(1)
  /\ UNCHANGED <<build, client, r0, r1, r4, counting, primask, lines, inner, rep, out, truth>>

\* ldr rN, [r0]: the counter when r0 still holds its address.
Snap == IF r0 = "CYCCNT" THEN {cyccnt} ELSE Scratch

StartSnap ==
  /\ Goto("start_snap", "measured_call")
  /\ r4' \in Snap
  /\ UNCHANGED <<build, client, r0, r1, r3, r5, counting, cyccnt, primask, lines, inner,
                 rep, out, elapsed, truth>>

MeasuredCall ==
  /\ Goto("measured_call", "end_snap")
  /\ KernelBody
  /\ UNCHANGED <<build, client, counting, primask, inner, rep, out, truth>>

EndSnap ==
  /\ Goto("end_snap", "store")
  /\ r1' \in Snap
  /\ UNCHANGED <<build, client, r0, r3, r4, r5, counting, cyccnt, primask, lines, inner,
                 rep, out, elapsed, truth>>

\* A subtraction that saturates instead of wrapping.
SaturatingDelta == IF r1 >= r4 THEN r1 - r4 ELSE 0

\* A subtraction in a wider signed type.
SignedDelta == r1 - r4

\* subs r1, r1, r4 on counter-width registers.
Delta == (r1 - r4) % CounterModulus

StoreDelta ==
  /\ Goto("store", "loop")
  /\ r1' = Delta
  /\ inner' = [inner EXCEPT ![r3] = Delta]
  /\ r3' = r3 + 1
  /\ truth' = Append(truth, elapsed)
  /\ Advance(1)
  /\ UNCHANGED <<build, client, r0, r4, r5, counting, primask, lines, rep, out>>

\* subs r5; bne 1b; then pop and bx lr.  The next rep starts a new window.
LoopOrReturn ==
  /\ pc = "loop"
  /\ r5' = r5 - 1
  /\ pc' = IF r5' # 0 THEN "start_snap" ELSE "unmask"
  /\ cyccnt' = Counted(1)
  /\ elapsed' = 0
  /\ UNCHANGED <<build, client, r0, r1, r3, r4, counting, primask, lines, inner, rep, out,
                 truth>>

\* A return path that leaves interrupts masked.
StayMasked == UNCHANGED primask

\* restore_interrupts(irq_state): the state main saved was unmasked.
RestoreIrqs == primask' = FALSE

\* Back in main: interrupts are restored, then the RP2350 image prints its
\* MICROBENCH_BOARD line (the STM32 image prints none).
LeaveBench ==
  /\ Goto("unmask", "report")
  /\ RestoreIrqs
  /\ UNCHANGED <<build, client, registers, counting, cyccnt, lines, inner, rep, out, elapsed,
                 truth>>

\* SYS_WRITE0 always gets through; USB serial drains by interrupts.
CanPrint == board = "rp2350" => ~primask

\* A report loop that indexes past the slot it announces.
ReportNextSlot ==
  /\ pc = "report" /\ rep < InnerReps /\ CanPrint
  /\ out' = Append(out, [rep |-> rep,
                         inner |-> inner[IF rep + 1 \in Slots THEN rep + 1 ELSE rep]])
  /\ rep' = rep + 1
  /\ UNCHANGED <<build, client, pc, registers, counting, cyccnt, primask, lines, inner,
                 elapsed, truth>>

\* for (i = 0; i < INNER_REPS; i++) emit_report(name, i, _inner_delta_cyc[i])
EmitReport ==
  /\ pc = "report" /\ rep < InnerReps /\ CanPrint
  /\ out' = Append(out, [rep |-> rep, inner |-> inner[rep]])
  /\ rep' = rep + 1
  /\ UNCHANGED <<build, client, pc, registers, counting, cyccnt, primask, lines, inner,
                 elapsed, truth>>

\* semi_exit(0) on the STM32, stdio_flush() on the RP2350.
Finish ==
  /\ Goto("report", "halt")
  /\ rep = InnerReps
  /\ UNCHANGED <<build, client, registers, counting, cyccnt, primask, lines, inner, rep, out,
                 elapsed, truth>>

\* for (;;);
Spin == pc = "halt" /\ UNCHANGED vars

\* A USB interrupt on the RP2350, whenever it is not masked: its handler takes
\* time and may push lines of the kernel out.  It restores the registers.
UsbInterrupt ==
  /\ board = "rp2350"
  /\ ~primask
  /\ \E n \in IrqCycles : Advance(n)
  /\ lines' \in {lines, "cold"} \cup (IF lines = "warm" THEN {"partial"} ELSE {})
  /\ UNCHANGED <<build, client, pc, registers, counting, primask, inner, rep, out, truth>>

Cpu ==
  \/ InitStdio \/ EnableCounter \/ EnterBench \/ Prologue \/ Warmup \/ SetupLoop
  \/ StartSnap \/ MeasuredCall \/ EndSnap \/ StoreDelta \/ LoopOrReturn
  \/ LeaveBench \/ EmitReport \/ Finish \/ Spin

Next == Cpu \/ UsbInterrupt \/ ClientConnects

\* The processor keeps executing instructions; interrupts and a client of the
\* serial port come or do not come.
Spec == Init /\ [][Next]_vars /\ WF_vars(Cpu)
-----------------------------------------------------------------------------
\* What a measured call costs in the steady state: the body from the cache (or
\* uncached, on a variant without one) and the fixed call overhead.
SteadyCost == {d + CallCycles : d \in IF icache THEN WarmCycles ELSE ColdCycles}

\* The first of them may still have to fill a line that the warm-up left out.
FirstCost ==
  {d + CallCycles : d \in IF icache THEN FillCycles \cup WarmCycles ELSE ColdCycles}

Written == Len(truth)

TypeOK ==
  /\ board \in {"stm32", "rp2350"}
  /\ icache \in BOOLEAN /\ client \in BOOLEAN
  /\ pc \in PCs
  /\ r0 \in {"CYCCNT", "other"}
  /\ r1 \in Words /\ r4 \in Words
  /\ r3 \in Nat /\ r5 \in Nat
  /\ counting \in BOOLEAN
  /\ cyccnt \in Words
  /\ primask \in BOOLEAN
  /\ lines \in {"cold", "partial", "warm"}
  /\ inner \in [Slots -> Words]
  /\ rep \in 0 .. InnerReps
  /\ out \in Seq([rep : Slots, inner : Words])
  /\ elapsed \in Nat
  /\ truth \in Seq(Nat)

\* Every slot the wrapper has filled holds the true number of cycles between
\* its two snaps, although the counter may have wrapped between them
\* (harness.h END_BENCH: "_inner_delta_cyc[i++] = delta").
SlotsHoldTrueCost ==
  \A k \in 1 .. Written : k - 1 \in Slots /\ inner[k - 1] = truth[k]

\* No interrupt handler is ever inside a measured window and no measured call
\* finds the cache cold; only the first may still fill a line, so the others, which
\* run_all_benchmarks.py and run_m4_sweep.py take for the steady state when they
\* print rep0_minus_steady, are steady (rp2350/main.c "Keep them out of the DWT
\* window"; microbenchmark/README.md "rep 0 is 3-4 cycles slower").
OnlyFirstMayFill ==
  \A k \in 1 .. Written : truth[k] \in IF k = 1 THEN FirstCost ELSE SteadyCost

\* The report lines pair every repetition number with the cost of that very
\* repetition, in order, and the program does not stop before all are out.
ReportIsFaithful ==
  /\ \A k \in 1 .. Len(out) :
       k <= Written /\ out[k] = [rep |-> k - 1, inner |-> truth[k]]
  /\ pc = "halt" => Len(out) = InnerReps

\* Every run of the image ends with its report complete, on the RP2350 once a
\* client has opened the port for which stdio_init_all() waits.
EveryRunReports ==
  <>(client \/ board = "stm32") => <>(pc = "halt" /\ Len(out) = InnerReps)

\* The image implements the abstract measurement: slots are samples.
Abstract == INSTANCE Measurement WITH
  Reps      <- InnerReps,
  steady    <- SteadyCost,
  first     <- FirstCost,
  samples   <- [k \in 1 .. Written |-> inner[k - 1]],
  delivered <- rep

ImplementsMeasurement == Abstract!SafeSpec
=============================================================================
