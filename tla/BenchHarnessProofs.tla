-------------------------- MODULE BenchHarnessProofs --------------------------
(***************************************************************************)
(* The harness measures exactly, for every number of repetitions, counter  *)
(* width and kernel cost: TypeOK, the three safety properties of a run and *)
(* the implementation of Measurement, from one inductive invariant.        *)
(***************************************************************************)
EXTENDS BenchHarness, SequenceTheorems, TLAPS

-----------------------------------------------------------------------------
(* Counter arithmetic, for any modulus.                                     *)

\* Advancing by less than one period wraps at most once.
LEMMA AdvanceWraps ==
  ASSUME NEW M \in Nat \ {0}, NEW a \in 0 .. (M - 1), NEW d \in 0 .. (M - 1)
  PROVE  (a + d) % M = IF a + d < M THEN a + d ELSE a + d - M
  OBVIOUS

\* The unsigned difference of two counter values.
LEMMA DifferenceWraps ==
  ASSUME NEW M \in Nat \ {0}, NEW a \in 0 .. (M - 1), NEW b \in 0 .. (M - 1)
  PROVE  (b - a) % M = IF a <= b THEN b - a ELSE b - a + M
  OBVIOUS

\* A remainder is a word of the counter.
LEMMA RemainderIsWord ==
  ASSUME NEW M \in Nat \ {0}, NEW a \in Int
  PROVE  a % M \in 0 .. (M - 1)
  OBVIOUS

\* The difference of the two snaps is the true distance, wrapped or not.
LEMMA DifferenceUndoesAdvance ==
  ASSUME NEW M \in Nat \ {0}, NEW a \in 0 .. (M - 1), NEW d \in 0 .. (M - 1)
  PROVE  (((a + d) % M) - a) % M = d
<1>1. CASE a + d < M
  <2>1. (a + d) % M = a + d
    BY <1>1, AdvanceWraps
  <2>2. (a + d) - a = d
    OBVIOUS
  <2>3. d % M = d
    OBVIOUS
  <2> QED
    BY <2>1, <2>2, <2>3
<1>2. CASE ~(a + d < M)
  <2>1. (a + d) % M = a + d - M
    BY <1>2, AdvanceWraps
  <2>2. a + d - M \in 0 .. (M - 1) /\ ~(a <= a + d - M)
    BY <1>2
  <2>3. ((a + d - M) - a) % M = ((a + d - M) - a) + M
    BY <2>2, DifferenceWraps
  <2>4. ((a + d - M) - a) + M = d
    OBVIOUS
  <2> QED
    BY <2>1, <2>3, <2>4
<1> QED
  BY <1>1, <1>2
-----------------------------------------------------------------------------
(* The inductive invariant.                                                 *)

Preparing == {"stdio_init", "enable_counter", "mask", "prologue", "warmup", "setup"}
Looping == {"start_snap", "measured_call", "end_snap", "store"}
Wrapper == {"setup", "loop"} \cup Looping
Reporting == {"unmask", "report", "halt"}

\* Interrupts stay out, the counter runs, r0 addresses it and the cache holds the
\* kernel wherever the wrapper relies on it: all of it after the first measured call.
ControlInv ==
  /\ pc \notin {"stdio_init", "enable_counter"} => counting
  /\ pc \in {"prologue", "warmup", "unmask"} \cup Wrapper =>
       (board = "rp2350" => primask)
  /\ pc \in {"warmup"} \cup Wrapper => r0 = "CYCCNT"
  /\ ~icache => lines = "cold"
  /\ icache /\ pc \in Wrapper => lines # "cold"
  /\ icache /\ pc \in Wrapper /\ (Written # 0 \/ pc \in {"end_snap", "store"}) =>
       lines = "warm"

\* r3 and r5 count the same repetitions.
LoopInv ==
  /\ pc \in Preparing => Written = 0
  /\ pc \in Looping =>
       r3 = Written /\ Written < InnerReps /\ r5 = InnerReps - Written
  /\ pc = "loop" =>
       r3 = Written /\ Written <= InnerReps /\ r5 = InnerReps - Written + 1
  /\ pc \in Reporting => Written = InnerReps

\* What the call of the current repetition may cost.
CostHere == IF Written = 0 THEN FirstCost ELSE SteadyCost

\* What the two snaps hold, relative to the true cost of the call.
WindowInv ==
  /\ pc \in Preparing \cup {"start_snap", "measured_call"} => elapsed = 0
  /\ pc = "measured_call" => r4 = cyccnt
  /\ pc = "end_snap" =>
       elapsed \in CostHere /\ cyccnt = (r4 + elapsed) % CounterModulus
  /\ pc = "store" =>
       elapsed \in CostHere /\ r1 = (r4 + elapsed) % CounterModulus

\* Lines appear only in the report loop, one per value of i.
ReportInv ==
  /\ rep = Len(out)
  /\ pc \notin {"report", "halt"} => rep = 0
  /\ pc = "halt" => rep = InnerReps
  /\ \A k \in 1 .. Len(out) : out[k] = [rep |-> k - 1, inner |-> inner[k - 1]]

IInv ==
  /\ TypeOK
  /\ ControlInv
  /\ LoopInv
  /\ WindowInv
  /\ SlotsHoldTrueCost
  /\ OnlyFirstMayFill
  /\ ReportInv

LEMMA CountedIsWord ==
  ASSUME TypeOK, NEW n \in Nat
  PROVE  Counted(n) \in Words
<1>1. CounterModulus \in Nat \ {0} /\ cyccnt + n \in Int
  BY HarnessAssumption DEF TypeOK, Words
<1>2. (cyccnt + n) % CounterModulus \in Words
  BY <1>1, RemainderIsWord DEF Words
<1> QED
  BY <1>2 DEF Counted, TypeOK

\* Cycles only pass by natural amounts.
LEMMA AdvanceKeepsTypes ==
  ASSUME TypeOK, NEW n \in Nat, Advance(n)
  PROVE  cyccnt' \in Words /\ elapsed' \in Nat
BY CountedIsWord DEF Advance, TypeOK

\* What the cache state at hand says of the cost of a call.
LEMMA CyclesAtHand ==
  ASSUME TypeOK
  PROVE  /\ lines = "cold" => Cycles[lines] = ColdCycles
         /\ lines = "partial" => Cycles[lines] = FillCycles
         /\ lines = "warm" => Cycles[lines] = WarmCycles
         /\ \A d \in Cycles[lines] : d + CallCycles \in Nat
<1>1. /\ lines = "cold" => Cycles[lines] = ColdCycles
      /\ lines = "partial" => Cycles[lines] = FillCycles
      /\ lines = "warm" => Cycles[lines] = WarmCycles
  BY DEF Cycles
<1>2. \A d \in WarmCycles \cup FillCycles \cup ColdCycles : d + CallCycles \in Nat
  BY HarnessAssumption
<1>3. Cycles[lines] \in {WarmCycles, FillCycles, ColdCycles}
  BY <1>1 DEF TypeOK
<1> QED
  BY <1>1, <1>2, <1>3

LEMMA InitIInv == Init => IInv
<1> SUFFICES ASSUME Init PROVE IInv
  OBVIOUS
<1> USE HarnessAssumption DEF Init
<1>1. TypeOK
  <2>1. 0 \in Words /\ 0 \in 0 .. InnerReps
    BY DEF Words
  <2>2. inner \in [Slots -> Words]
    BY <2>1
  <2>3. out \in Seq([rep : Slots, inner : Words]) /\ truth \in Seq(Nat)
    OBVIOUS
  <2> QED
    BY <2>1, <2>2, <2>3 DEF TypeOK, PCs, Roi
<1>2. ControlInv /\ LoopInv /\ WindowInv
  BY DEF ControlInv, LoopInv, WindowInv, Looping, Wrapper, Reporting, Written
<1>3. SlotsHoldTrueCost /\ OnlyFirstMayFill
  BY DEF SlotsHoldTrueCost, OnlyFirstMayFill, Written
<1>4. ReportInv
  BY DEF ReportInv
<1> QED
  BY <1>1, <1>2, <1>3, <1>4 DEF IInv

LEMMA TypeStep ==
  ASSUME IInv, [Next]_vars
  PROVE  TypeOK'
<1> USE HarnessAssumption DEF TypeOK, PCs, Roi, build, registers, Goto
<1>0. TypeOK /\ 0 \in Words
  BY DEF IInv, Words
<1>1. CASE InitStdio \/ EnableCounter \/ ClientConnects
  BY <1>0, <1>1 DEF InitStdio, EnableCounter, ClientConnects
<1>2. CASE EnterBench
  BY <1>0, <1>2, AdvanceKeepsTypes DEF EnterBench, MaskIrqs
<1>3. CASE Prologue
  BY <1>0, <1>3, AdvanceKeepsTypes DEF Prologue
<1>4. CASE Warmup \/ MeasuredCall
  <2>1. PICK d \in Nat : Advance(d)
    BY <1>0, <1>4, CyclesAtHand DEF Warmup, MeasuredCall, KernelBody
  <2>2. cyccnt' \in Words /\ elapsed' \in Nat
    BY <1>0, <2>1, AdvanceKeepsTypes
  <2>3. lines' \in {"cold", "partial", "warm"}
    BY <1>4 DEF Warmup, MeasuredCall, KernelBody, Filled
  <2> QED
    BY <1>0, <1>4, <2>2, <2>3 DEF Warmup, MeasuredCall, KernelBody, KeepsContract
<1>5. CASE SetupLoop
  BY <1>0, <1>5, AdvanceKeepsTypes DEF SetupLoop
<1>6. CASE StartSnap
  BY <1>0, <1>6 DEF StartSnap, Snap
<1>7. CASE EndSnap
  BY <1>0, <1>7 DEF EndSnap, Snap
<1>8. CASE StoreDelta
  <2>1. Delta \in Words
    BY <1>0, RemainderIsWord DEF Delta, Words
  <2>2. cyccnt' \in Words /\ elapsed' \in Nat
    BY <1>0, <1>8, AdvanceKeepsTypes DEF StoreDelta
  <2>4. inner' \in [Slots -> Words]
    BY <1>0, <1>8, <2>1 DEF StoreDelta
  <2> QED
    BY <1>0, <1>8, <2>2, <2>4 DEF StoreDelta
<1>9. CASE LoopOrReturn
  <2>1. cyccnt' \in Words
    BY <1>0, <1>9, CountedIsWord DEF LoopOrReturn
  <2>2. r5' \in Nat
    BY <1>0, <1>9 DEF LoopOrReturn, IInv, LoopInv, Written
  <2> QED
    BY <1>0, <1>9, <2>1, <2>2 DEF LoopOrReturn
<1>10. CASE LeaveBench
  BY <1>0, <1>10 DEF LeaveBench, RestoreIrqs
<1>11. CASE EmitReport
  <2>1. rep \in Slots /\ inner[rep] \in Words /\ rep' \in 0 .. InnerReps
    BY <1>0, <1>11 DEF EmitReport, Slots
  <2>2. out' \in Seq([rep : Slots, inner : Words])
    BY <1>0, <1>11, <2>1 DEF EmitReport
  <2> QED
    BY <1>0, <1>11, <2>1, <2>2 DEF EmitReport
<1>12. CASE Finish
  BY <1>0, <1>12 DEF Finish
<1>13. CASE UsbInterrupt
  <2>1. PICK n \in Nat : Advance(n)
    BY <1>13 DEF UsbInterrupt
  <2>2. cyccnt' \in Words /\ elapsed' \in Nat
    BY <1>0, <2>1, AdvanceKeepsTypes
  <2> QED
    BY <1>0, <1>13, <2>2 DEF UsbInterrupt
<1>14. CASE UNCHANGED vars
  BY <1>0, <1>14 DEF vars
<1> QED
  BY <1>1, <1>2, <1>3, <1>4, <1>5, <1>6, <1>7, <1>8, <1>9, <1>10, <1>11, <1>12,
     <1>13, <1>14 DEF Next, Cpu, Spin

\* The build never changes, and with it what a measured call may cost.
LEMMA BuildIsFixed ==
  ASSUME [Next]_vars
  PROVE  /\ board' = board /\ icache' = icache
         /\ SteadyCost' = SteadyCost /\ FirstCost' = FirstCost
<1>1. build' = build
  BY DEF vars, Next, Cpu, InitStdio, EnableCounter, EnterBench, Prologue, Warmup,
         SetupLoop, StartSnap, MeasuredCall, EndSnap, StoreDelta, LoopOrReturn,
         LeaveBench, EmitReport, Finish, Spin, UsbInterrupt, ClientConnects
<1> QED
  BY <1>1 DEF build, SteadyCost, FirstCost

\* Every step but the store leaves the slots and their history alone.
LEMMA OnlyStoreWrites ==
  ASSUME [Next]_vars, ~StoreDelta
  PROVE  inner' = inner /\ truth' = truth
BY DEF vars, Next, Cpu, InitStdio, EnableCounter, EnterBench, Prologue, Warmup, SetupLoop,
       StartSnap, MeasuredCall, EndSnap, LoopOrReturn, LeaveBench, EmitReport, Finish,
       Spin, UsbInterrupt, ClientConnects

LEMMA ControlStep ==
  ASSUME IInv, [Next]_vars
  PROVE  ControlInv'
<1> USE DEF IInv, ControlInv, Preparing, Wrapper, Looping, Goto, Written
<1>0. TypeOK /\ board' = board /\ icache' = icache
  BY BuildIsFixed
<1>1. CASE InitStdio \/ EnableCounter \/ EnterBench \/ Prologue
  BY <1>0, <1>1 DEF InitStdio, EnableCounter, EnterBench, Prologue, MaskIrqs
<1>2. CASE Warmup \/ MeasuredCall
  <2>1. /\ icache => lines' # "cold"
        /\ ~icache => lines' = "cold"
        /\ icache /\ lines # "cold" => lines' = "warm"
    BY <1>2 DEF Warmup, MeasuredCall, KernelBody, Filled
  <2>2. counting' = counting /\ primask' = primask /\ r0' = r0 /\ truth' = truth
    BY <1>2 DEF Warmup, MeasuredCall, KernelBody, KeepsContract
  <2>3. \/ pc = "warmup" /\ pc' = "setup"
        \/ pc = "measured_call" /\ pc' = "end_snap"
    BY <1>2 DEF Warmup, MeasuredCall
  <2>4. Written = 0 \/ pc # "warmup"
    BY DEF LoopInv
  <2> QED
    BY <1>0, <2>1, <2>2, <2>3, <2>4
<1>3. CASE SetupLoop \/ StartSnap \/ EndSnap \/ StoreDelta \/ LoopOrReturn
  BY <1>0, <1>3 DEF SetupLoop, StartSnap, EndSnap, StoreDelta, LoopOrReturn
<1>4. CASE LeaveBench \/ EmitReport \/ Finish
  BY <1>0, <1>4 DEF LeaveBench, EmitReport, Finish
<1>5. CASE UsbInterrupt \/ ClientConnects
  BY <1>0, <1>5 DEF UsbInterrupt, ClientConnects, registers
<1>6. CASE UNCHANGED vars
  BY <1>0, <1>6 DEF vars, registers
<1> QED
  BY <1>1, <1>2, <1>3, <1>4, <1>5, <1>6 DEF Next, Cpu, Spin

LEMMA LoopStep ==
  ASSUME IInv, [Next]_vars
  PROVE  LoopInv'
<1> USE HarnessAssumption DEF IInv, LoopInv, Preparing, Looping, Reporting, Goto,
        Written
<1>0. TypeOK
  OBVIOUS
<1>1. CASE InitStdio \/ EnableCounter \/ EnterBench \/ Prologue
  BY <1>1 DEF InitStdio, EnableCounter, EnterBench, Prologue, registers
<1>2. CASE Warmup \/ MeasuredCall
  BY <1>2 DEF Warmup, MeasuredCall, KernelBody, KeepsContract
<1>3. CASE SetupLoop \/ StartSnap \/ EndSnap
  BY <1>0, <1>3 DEF SetupLoop, StartSnap, EndSnap
<1>4. CASE StoreDelta
  <2>1. Len(truth') = Len(truth) + 1 /\ Len(truth) \in Nat
    BY <1>0, <1>4 DEF StoreDelta, TypeOK
  <2> QED
    BY <1>4, <2>1 DEF StoreDelta
<1>5. CASE LoopOrReturn
  <2>1. Len(truth) \in Nat
    BY <1>0 DEF TypeOK
  <2> QED
    BY <1>5, <2>1 DEF LoopOrReturn
<1>6. CASE LeaveBench \/ EmitReport \/ Finish
  BY <1>6 DEF LeaveBench, EmitReport, Finish
<1>7. CASE UsbInterrupt \/ ClientConnects
  BY <1>7 DEF UsbInterrupt, ClientConnects, registers
<1>8. CASE UNCHANGED vars
  BY <1>8 DEF vars, registers
<1> QED
  BY <1>1, <1>2, <1>3, <1>4, <1>5, <1>6, <1>7, <1>8 DEF Next, Cpu, Spin

LEMMA WindowStep ==
  ASSUME IInv, [Next]_vars
  PROVE  WindowInv'
<1> USE HarnessAssumption DEF IInv, WindowInv, Preparing, Roi, Goto
<1>0. TypeOK /\ (truth' = truth => CostHere' = CostHere)
  BY BuildIsFixed DEF CostHere, Written
<1>1. CASE InitStdio \/ EnableCounter \/ EnterBench \/ Prologue \/ SetupLoop
  BY <1>1 DEF InitStdio, EnableCounter, EnterBench, Prologue, SetupLoop, Advance
<1>2. CASE Warmup
  <2>1. PICK d \in Nat : Advance(d)
    BY <1>0, <1>2, CyclesAtHand DEF Warmup, KernelBody
  <2> QED
    BY <1>2, <2>1 DEF Warmup, Advance
<1>3. CASE StartSnap
  BY <1>3 DEF StartSnap, Snap, ControlInv, Wrapper, Looping
<1>4. CASE MeasuredCall
  <2>1. PICK d \in Cycles[lines] : Advance(d + CallCycles)
    BY <1>4 DEF MeasuredCall, KernelBody
  <2>2. d + CallCycles \in CostHere /\ d + CallCycles \in Nat
    <3>1. /\ icache => lines # "cold" /\ (Written # 0 => lines = "warm")
          /\ ~icache => lines = "cold"
      BY <1>4 DEF ControlInv, Wrapper, Looping, MeasuredCall
    <3>2. d \in IF ~icache THEN ColdCycles
                ELSE IF Written = 0 THEN FillCycles \cup WarmCycles ELSE WarmCycles
      BY <1>0, <2>1, <3>1, CyclesAtHand DEF TypeOK
    <3> QED
      BY <1>0, <2>1, <3>2, CyclesAtHand DEF CostHere, SteadyCost, FirstCost
  <2>3. pc = "measured_call" /\ pc' = "end_snap" /\ r4' = r4
    BY <1>4 DEF MeasuredCall, KernelBody, KeepsContract
  <2>4. elapsed' = d + CallCycles
    BY <2>1, <2>2, <2>3 DEF Advance
  <2>5. counting
    BY <2>3 DEF ControlInv
  <2>6. cyccnt' = (r4 + (d + CallCycles)) % CounterModulus
    BY <2>1, <2>3, <2>5 DEF Advance, Counted
  <2> QED
    BY <1>0, <1>4, <2>2, <2>3, <2>4, <2>6 DEF MeasuredCall
<1>5. CASE EndSnap
  BY <1>0, <1>5 DEF EndSnap, Snap, ControlInv, Wrapper, Looping
<1>6. CASE StoreDelta
  BY <1>6 DEF StoreDelta
<1>7. CASE LoopOrReturn
  BY <1>7 DEF LoopOrReturn
<1>8. CASE LeaveBench \/ EmitReport \/ Finish
  BY <1>8 DEF LeaveBench, EmitReport, Finish
<1>9. CASE UsbInterrupt
  <2>1. PICK n \in Nat : Advance(n)
    BY <1>9 DEF UsbInterrupt
  <2>2. pc' = pc /\ pc \notin Wrapper
    BY <1>9 DEF UsbInterrupt, ControlInv
  <2>3. pc \notin {"start_snap", "measured_call", "end_snap", "store"}
    BY <2>2 DEF Wrapper, Looping
  <2> QED
    BY <2>1, <2>2, <2>3 DEF Advance
<1>10. CASE UNCHANGED vars \/ ClientConnects
  BY <1>0, <1>10 DEF vars, ClientConnects, registers
<1> QED
  BY <1>1, <1>2, <1>3, <1>4, <1>5, <1>6, <1>7, <1>8, <1>9, <1>10 DEF Next, Cpu, Spin

\* The word the wrapper stores is the true cost of the call it brackets.
LEMMA StoredDeltaIsTrue ==
  ASSUME IInv, pc = "store"
  PROVE  Delta = elapsed /\ elapsed \in CostHere
<1>1. elapsed \in CostHere /\ r1 = (r4 + elapsed) % CounterModulus
  BY DEF IInv, WindowInv
<1>2. elapsed \in 0 .. (CounterModulus - 1)
  BY <1>1, HarnessAssumption DEF CostHere, SteadyCost, FirstCost
<1>3. r4 \in 0 .. (CounterModulus - 1)
  BY DEF IInv, TypeOK, Words
<1>4. (((r4 + elapsed) % CounterModulus) - r4) % CounterModulus = elapsed
  BY <1>2, <1>3, HarnessAssumption, DifferenceUndoesAdvance
<1> QED
  BY <1>1, <1>4 DEF Delta

\* What a store does: the next slot receives the true cost of the call.
LEMMA StoreEffect ==
  ASSUME IInv, StoreDelta
  PROVE  /\ Written \in Slots
         /\ Written' = Written + 1
         /\ inner' = [inner EXCEPT ![Written] = elapsed]
         /\ truth' = Append(truth, elapsed)
         /\ elapsed \in CostHere
<1>1. pc = "store"
  BY DEF StoreDelta, Goto
<1>2. r3 = Written /\ Written < InnerReps
  BY <1>1 DEF IInv, LoopInv, Looping
<1>5. Delta = elapsed /\ elapsed \in CostHere
  BY <1>1, StoredDeltaIsTrue
<1> QED
  BY <1>2, <1>5, HarnessAssumption DEF StoreDelta, Slots, Written

LEMMA SlotsStep ==
  ASSUME IInv, [Next]_vars
  PROVE  SlotsHoldTrueCost'
<1>0. /\ inner \in [Slots -> Words]
      /\ truth \in Seq(Nat)
      /\ SlotsHoldTrueCost
  BY DEF IInv, TypeOK
<1>1. CASE StoreDelta
  <2> SUFFICES ASSUME NEW k \in 1 .. Written'
               PROVE  k - 1 \in Slots /\ inner'[k - 1] = truth'[k]
    BY DEF SlotsHoldTrueCost
  <2>1. Written \in Nat /\ elapsed \in Nat
    BY <1>0 DEF Written, IInv, TypeOK
  <2>2. CASE k = Written + 1
    BY <1>0, <1>1, <2>1, <2>2, StoreEffect DEF Written
  <2>3. CASE k \in 1 .. Written
    <3>1. k - 1 \in Slots /\ inner[k - 1] = truth[k]
      BY <1>0, <2>3 DEF SlotsHoldTrueCost
    <3>2. inner'[k - 1] = inner[k - 1]
      BY <1>0, <1>1, <2>1, <2>3, <3>1, StoreEffect
    <3>3. truth'[k] = truth[k]
      BY <1>0, <1>1, <2>1, <2>3, StoreEffect DEF Written
    <3> QED
      BY <3>1, <3>2, <3>3
  <2> QED
    BY <1>1, <2>1, <2>2, <2>3, StoreEffect
<1>2. CASE ~StoreDelta
  BY <1>0, <1>2, OnlyStoreWrites DEF SlotsHoldTrueCost, Written
<1> QED
  BY <1>1, <1>2

LEMMA FirstMayFillStep ==
  ASSUME IInv, [Next]_vars
  PROVE  OnlyFirstMayFill'
<1>0. /\ truth \in Seq(Nat) /\ elapsed \in Nat
      /\ OnlyFirstMayFill
      /\ SteadyCost' = SteadyCost /\ FirstCost' = FirstCost
  BY BuildIsFixed DEF IInv, TypeOK
<1>1. CASE StoreDelta
  <2> SUFFICES ASSUME NEW k \in 1 .. Written'
               PROVE  truth'[k] \in IF k = 1 THEN FirstCost ELSE SteadyCost
    BY <1>0 DEF OnlyFirstMayFill
  <2>1. Written \in Nat
    BY <1>0 DEF Written
  <2>2. CASE k = Written + 1
    BY <1>0, <1>1, <2>2, StoreEffect DEF Written, CostHere
  <2>3. CASE k \in 1 .. Written
    <3>1. truth'[k] = truth[k]
      BY <1>0, <1>1, <2>3, StoreEffect DEF Written
    <3>2. truth[k] \in IF k = 1 THEN FirstCost ELSE SteadyCost
      BY <1>0, <2>3 DEF OnlyFirstMayFill
    <3> QED
      BY <3>1, <3>2
  <2> QED
    BY <1>1, <2>1, <2>2, <2>3, StoreEffect
<1>2. CASE ~StoreDelta
  BY <1>0, <1>2, OnlyStoreWrites DEF OnlyFirstMayFill, Written
<1> QED
  BY <1>1, <1>2

LEMMA ReportStep ==
  ASSUME IInv, [Next]_vars
  PROVE  ReportInv'
<1>0. /\ ReportInv
      /\ out \in Seq([rep : Slots, inner : Words])
      /\ rep \in Nat
  BY HarnessAssumption DEF IInv, TypeOK
<1>1. CASE EmitReport
  <2>1. /\ pc = "report" /\ pc' = pc
        /\ out' = Append(out, [rep |-> rep, inner |-> inner[rep]])
        /\ rep' = rep + 1
    BY <1>1 DEF EmitReport
  <2>2. inner' = inner
    BY <1>1 DEF EmitReport
  <2>3. Len(out') = Len(out) + 1
    BY <1>0, <2>1
  <2>4. ASSUME NEW k \in 1 .. Len(out')
        PROVE  out'[k] = [rep |-> k - 1, inner |-> inner'[k - 1]]
    <3>1. CASE k = Len(out) + 1
      BY <1>0, <2>1, <2>2, <3>1 DEF ReportInv
    <3>2. CASE k \in 1 .. Len(out)
      BY <1>0, <2>1, <2>2, <3>2 DEF ReportInv
    <3> QED
      BY <1>0, <2>3, <3>1, <3>2
  <2> QED
    BY <1>0, <2>1, <2>3, <2>4 DEF ReportInv
<1>2. CASE StoreDelta
  <2>1. /\ pc \notin {"report", "halt"} /\ pc' \notin {"report", "halt"}
        /\ rep' = rep /\ out' = out
    BY <1>2 DEF StoreDelta, Goto
  <2>2. Len(out) = 0
    BY <1>0, <2>1 DEF ReportInv
  <2> QED
    BY <1>0, <2>1, <2>2 DEF ReportInv
<1>3. CASE ~EmitReport /\ ~StoreDelta
  <2>1. inner' = inner
    BY <1>3, OnlyStoreWrites
  <2>2. rep' = rep /\ out' = out
    BY <1>3 DEF vars, Next, Cpu, InitStdio, EnableCounter, EnterBench, Prologue, Warmup,
         SetupLoop, StartSnap, MeasuredCall, EndSnap, LoopOrReturn, LeaveBench, Finish,
         Spin, UsbInterrupt, ClientConnects
  <2>3. pc' \notin {"report", "halt"} => pc \notin {"report", "halt"}
    BY <1>3 DEF vars, Next, Cpu, InitStdio, EnableCounter, EnterBench, Prologue, Warmup,
         SetupLoop, StartSnap, MeasuredCall, EndSnap, LoopOrReturn, LeaveBench, Finish,
         Spin, UsbInterrupt, ClientConnects, Goto
  <2>4. pc' = "halt" => pc = "halt" \/ rep = InnerReps
    BY <1>3 DEF vars, Next, Cpu, InitStdio, EnableCounter, EnterBench, Prologue, Warmup,
         SetupLoop, StartSnap, MeasuredCall, EndSnap, LoopOrReturn, LeaveBench, Finish,
         Spin, UsbInterrupt, ClientConnects, Goto
  <2> QED
    BY <1>0, <2>1, <2>2, <2>3, <2>4 DEF ReportInv
<1> QED
  BY <1>1, <1>2, <1>3

LEMMA IInvStep == IInv /\ [Next]_vars => IInv'
BY TypeStep, ControlStep, LoopStep, WindowStep, SlotsStep, FirstMayFillStep, ReportStep
   DEF IInv

\* The inductive invariant holds in every state of every run.
THEOREM Invariance == Spec => []IInv
BY InitIInv, IInvStep, PTL DEF Spec
-----------------------------------------------------------------------------
(* What follows from it.                                                    *)

\* Every variable of the image keeps its type.
THEOREM TypeCorrect == Spec => []TypeOK
<1>1. IInv => TypeOK
  BY DEF IInv
<1> QED
  BY <1>1, Invariance, PTL

\* Every filled slot holds the true cost of its call, wrapped counter or not.
THEOREM SlotsAreExact == Spec => []SlotsHoldTrueCost
<1>1. IInv => SlotsHoldTrueCost
  BY DEF IInv
<1> QED
  BY <1>1, Invariance, PTL

\* No measured call runs cold, none contains an interrupt handler, and all but the
\* first are steady.
THEOREM OnlyFirstCallMayFill == Spec => []OnlyFirstMayFill
<1>1. IInv => OnlyFirstMayFill
  BY DEF IInv
<1> QED
  BY <1>1, Invariance, PTL

\* Every line of the report carries the cost of the repetition it names, and
\* the report is complete when the program stops.
THEOREM ReportIsExact == Spec => []ReportIsFaithful
<1>1. IInv => ReportIsFaithful
  <2> SUFFICES ASSUME IInv PROVE ReportIsFaithful
    OBVIOUS
  <2>1. /\ rep \in 0 .. InnerReps /\ ReportInv /\ SlotsHoldTrueCost
        /\ Written \in Nat /\ Len(out) = rep
    BY DEF IInv, TypeOK, ReportInv, Written
  <2>2. rep > 0 \/ pc = "halt" => Written = InnerReps
    BY <2>1 DEF ReportInv, IInv, LoopInv, Reporting
  <2>3. ASSUME NEW k \in 1 .. Len(out)
        PROVE  k <= Written /\ out[k] = [rep |-> k - 1, inner |-> truth[k]]
    <3>1. k \in 1 .. Written
      BY <2>1, <2>2, HarnessAssumption
    <3> QED
      BY <2>1, <3>1 DEF ReportInv, SlotsHoldTrueCost
  <2> QED
    BY <2>1, <2>3 DEF ReportIsFaithful, ReportInv
<1> QED
  BY <1>1, Invariance, PTL
-----------------------------------------------------------------------------
(* The image implements Measurement.                                        *)

Samples == [k \in 1 .. Written |-> inner[k - 1]]

\* The filled slots are a sequence of samples.
LEMMA SamplesIsSeq ==
  ASSUME IInv
  PROVE  Samples \in Seq(Nat) /\ Len(Samples) = Written /\ Written \in Nat
<1>1. Written \in Nat
  BY DEF IInv, TypeOK, Written
<1>2. ASSUME NEW k \in 1 .. Written PROVE inner[k - 1] \in Nat
  BY DEF IInv, TypeOK, SlotsHoldTrueCost, Words
<1> QED
  BY <1>1, <1>2 DEF Samples

\* A store takes one sample; every other step leaves the samples alone.
LEMMA StoreAppendsSample ==
  ASSUME IInv, StoreDelta
  PROVE  Samples' = Append(Samples, elapsed)
<1>1. Samples \in Seq(Nat) /\ Len(Samples) = Written /\ Written \in Nat
  BY SamplesIsSeq
<1>2. inner \in [Slots -> Words] /\ elapsed \in Nat /\ SlotsHoldTrueCost
  BY DEF IInv, TypeOK
<1>3. /\ Append(Samples, elapsed) \in Seq(Nat)
      /\ Len(Append(Samples, elapsed)) = Written + 1
      /\ Append(Samples, elapsed)[Written + 1] = elapsed
      /\ \A k \in 1 .. Written : Append(Samples, elapsed)[k] = Samples[k]
  BY <1>1, <1>2, AppendProperties
<1>4. Written' = Written + 1 /\ Samples' = [k \in 1 .. (Written + 1) |-> inner'[k - 1]]
  BY StoreEffect DEF Samples
<1>5. ASSUME NEW k \in 1 .. (Written + 1)
      PROVE  inner'[k - 1] = Append(Samples, elapsed)[k]
  <2>1. CASE k = Written + 1
    BY <1>1, <1>2, <1>3, <2>1, StoreEffect
  <2>2. CASE k \in 1 .. Written
    <3>1. k - 1 \in Slots
      BY <1>2, <2>2 DEF SlotsHoldTrueCost
    <3>2. k - 1 # Written
      BY <1>1, <2>2
    <3>3. inner'[k - 1] = inner[k - 1]
      BY <1>2, <3>1, <3>2, StoreEffect
    <3>4. Samples[k] = inner[k - 1]
      BY <2>2 DEF Samples
    <3> QED
      BY <1>3, <2>2, <3>3, <3>4
  <2> QED
    BY <1>1, <2>1, <2>2
<1>6. Samples' \in Seq(Nat) /\ Len(Samples') = Written + 1
  <2>1. ASSUME NEW k \in 1 .. (Written + 1) PROVE inner'[k - 1] \in Nat
    <3>1. k \in 1 .. Len(Append(Samples, elapsed))
      BY <1>3, <2>1
    <3>2. Append(Samples, elapsed)[k] \in Nat
      BY <1>3, <3>1
    <3> QED
      BY <1>5, <2>1, <3>2
  <2> QED
    BY <1>1, <1>4, <2>1
<1>7. ASSUME NEW k \in 1 .. Len(Samples')
      PROVE  Samples'[k] = Append(Samples, elapsed)[k]
  BY <1>4, <1>5, <1>6
<1> QED
  BY <1>3, <1>6, <1>7, SeqEqual

LEMMA AbstractInit == Init => Abstract!Init
<1> SUFFICES ASSUME Init PROVE Abstract!Init
  OBVIOUS
<1>1. SteadyCost \subseteq FirstCost /\ FirstCost \subseteq Nat
  BY HarnessAssumption DEF SteadyCost, FirstCost
<1>2. Written = 0 /\ rep = 0
  BY DEF Init, Written
<1>3. [k \in 1 .. Written |-> inner[k - 1]] = <<>>
  BY <1>2
<1> QED
  BY <1>1, <1>2, <1>3 DEF Abstract!Init

LEMMA AbstractStep ==
  ASSUME IInv, [Next]_vars
  PROVE  [Abstract!Next]_(Abstract!absVars)
<1>0. /\ SteadyCost' = SteadyCost /\ FirstCost' = FirstCost
      /\ Samples \in Seq(Nat) /\ Len(Samples) = Written /\ Written \in Nat
  BY BuildIsFixed, SamplesIsSeq
<1>1. CASE StoreDelta
  <2>1. /\ Written < InnerReps
        /\ elapsed \in IF Samples = <<>> THEN FirstCost ELSE SteadyCost
    BY <1>0, <1>1, StoreEffect, HarnessAssumption DEF Slots, CostHere
  <2>2. Samples' = Append(Samples, elapsed)
    BY <1>1, StoreAppendsSample
  <2>3. rep' = rep
    BY <1>1 DEF StoreDelta
  <2> QED
    BY <1>0, <2>1, <2>2, <2>3 DEF Abstract!Next, Abstract!Sample, Samples
<1>2. CASE EmitReport
  <2>1. rep < InnerReps /\ rep' = rep + 1 /\ Written = InnerReps
    BY <1>2 DEF EmitReport, IInv, LoopInv, Reporting
  <2>2. Samples' = Samples
    BY <1>2 DEF EmitReport, Samples, Written
  <2> QED
    BY <1>0, <2>1, <2>2 DEF Abstract!Next, Abstract!Deliver, Samples
<1>3. CASE ~StoreDelta /\ ~EmitReport
  <2>1. Samples' = Samples
    BY <1>3, OnlyStoreWrites DEF Samples, Written
  <2>2. rep' = rep
    BY <1>3 DEF vars, Next, Cpu, InitStdio, EnableCounter, EnterBench, Prologue, Warmup,
         SetupLoop, StartSnap, MeasuredCall, EndSnap, LoopOrReturn, LeaveBench, Finish,
         Spin, UsbInterrupt, ClientConnects
  <2> QED
    BY <1>0, <2>1, <2>2 DEF Abstract!absVars, Samples
<1> QED
  BY <1>1, <1>2, <1>3

\* Whatever the kernel, the counter width and the interrupts: a run takes all
\* samples but the first at their steady-state cost, the first at that cost or the
\* one of a line fill, and only then delivers them in order.
THEOREM Implementation == Spec => ImplementsMeasurement
<1>1. Init => Abstract!Init
  BY AbstractInit
<1>2. IInv /\ [Next]_vars => [Abstract!Next]_(Abstract!absVars)
  BY AbstractStep
<1> QED
  BY <1>1, <1>2, Invariance, PTL DEF Spec, ImplementsMeasurement, Abstract!SafeSpec
=============================================================================
